-------------------------- MODULE ToolCalls_proofs --------------------------
(***************************************************************************)
(* Theorems about program tool calls, for every set of runs and calls and  *)
(* for every budget, parallelism and size of the dispatch pool.            *)
(***************************************************************************)
EXTENDS ToolCalls, FiniteSetTheorems, SequenceTheorems,
        WellFoundedInduction, TLAPS

USE ToolCallsAssumption

\* A future of the pool that has yet to run its _finished callback.
Live == {"queued", "taken", "running"}

LiveJobs == {c \in Calls : job[c] \in Live}

\* The types of everything but the pool's queue, of which nothing else is used.
Typed ==
    /\ run \in [Runs -> [phase : Phases, outcome : Outcomes, warned : BOOLEAN]]
    /\ info \in [Calls -> {NoCall} \cup
                          [run : Runs, kind : Kinds, place : Places]]
    /\ task \in [Calls -> TaskStates]
    /\ cancel \subseteq Calls /\ settled \subseteq Calls /\ held \subseteq Calls
    /\ queue \in Seq(Calls)
    /\ reads \in Nat /\ writer \in BOOLEAN /\ inflight \in Nat
    /\ job \in [Calls -> JobStates]

Reader(c) == info[c].kind = "read"
Writer(c) == info[c].kind = "write"

\* The counters a and w of the scheduler describe the tickets h, which are
\* compatible with each other.
Counters(h, a, w) ==
    /\ a = Cardinality({c \in h : Reader(c)})
    /\ a <= MaxParallel
    /\ w <=> \E c \in h : Writer(c)
    /\ \A c, d \in h : Writer(c) => c = d

Distinct(q) == \A i, j \in 1 .. Len(q) : q[i] = q[j] => i = j

\* The waiting tickets q are different from each other and from the granted h.
Waiting(q, h) == Distinct(q) /\ \A i \in 1 .. Len(q) : q[i] \notin h

SchedulerInv ==
    /\ Waiting(queue, held)
    /\ Counters(held, reads, writer)
    /\ NoLostWakeup

\* Who is responsible for the ticket and the future of c.
Owned(c) ==
    /\ c \in held => task[c] \in {"queued", "running"} \/ job[c] \in Live
    /\ task[c] = "running" \/ job[c] \in Live => c \in held
    /\ job[c] \in {"queued", "taken"} => task[c] = "waiting"
    /\ job[c] = "running" => task[c] \in {"waiting", "done"}
    /\ job[c] # "none" => task[c] \in {"waiting", "draining", "quit", "done"}
    /\ task[c] = "none" <=> info[c] = NoCall
    /\ task[c] = "draining" => c \in settled
    /\ c \in cancel => task[c] \notin {"none", "unslotted", "quit", "done"}
    /\ c \in settled => task[c] \in {"draining", "done"} /\ job[c] \notin Live

OwnerInv ==
    /\ \A i \in 1 .. Len(queue) : task[queue[i]] = "queued"
    /\ \A c \in Calls : Owned(c)
    /\ inflight = Cardinality(LiveJobs)

\* What the phase of the run r says about its call c.
InPhase(r, c) ==
    /\ run[r].phase # "off"
    /\ run[r].phase \in {"reading", "blocked"} =>
          c \notin cancel /\ (task[c] = "done" => c \in settled)
    /\ task[c] = "unslotted" => run[r].phase = "blocked"
    /\ run[r].phase \in {"closing", "closed"} =>
          task[c] \in {"running", "draining", "quit", "done"}
    /\ run[r].outcome = "ok" => c \in settled \/ task[c] = "quit"
    /\ /\ run[r].phase = "closed" /\ run[r].outcome # "cancelled"
       /\ job[c] = "running"
       => run[r].warned

PhaseInv ==
    \A r \in Runs :
       /\ run[r].outcome = "none" <=> run[r].phase \in {"off", "reading", "blocked"}
       /\ \A c \in CallsOf(r) : InPhase(r, c)

IInv == Typed /\ SchedulerInv /\ OwnerInv /\ PhaseInv
-----------------------------------------------------------------------------
(* The operators of the scheduler *)

\* Max picks an element of a nonempty set of naturals with an upper bound.
LEMMA MaxIsElement ==
    ASSUME NEW n \in Nat, NEW S, S \subseteq 0 .. n, S # {}
    PROVE  Max(S) \in S /\ \A s \in S : s <= Max(S)
<1> DEFINE Under == {ss \in Nat \X Nat : ss[1] < ss[2]}
           T == {m \in Nat : \A s \in S : s <= m}
<1>1. IsWellFoundedOn(Under, Nat)
  BY NatLessThanWellFounded, Zenon DEF OpToRel
<1>2. n \in T /\ T \subseteq Nat
  OBVIOUS
<1> HIDE DEF Under, T
<1>3. PICK m \in T : \A t \in T : ~(<<t, m>> \in Under)
  BY <1>1, <1>2, WFMin
<1>4. m \in Nat /\ \A s \in S : s <= m
  BY <1>3 DEF T
<1>5. m \in S
  <2>1. SUFFICES ASSUME m \notin S PROVE FALSE
    OBVIOUS
  <2>2. \A s \in S : s < m
    BY <1>4, <2>1
  <2>3. m # 0
    <3>1. PICK s \in S : s \in 0 .. n
      OBVIOUS
    <3> QED BY <1>4, <2>2, <3>1
  <2>4. m - 1 \in T
    BY <1>4, <2>2, <2>3 DEF T
  <2>5. <<m - 1, m>> \in Under
    BY <1>4, <2>3 DEF Under
  <2> QED BY <1>3, <2>4, <2>5
<1> QED BY <1>4, <1>5 DEF Max

\* OfKind counts a finite set.
LEMMA OfKindType ==
    ASSUME NEW q, NEW k, NEW n \in Nat
    PROVE  /\ IsFiniteSet({i \in 1 .. n : info[q[i]].kind = k})
           /\ OfKind(q, n, k) \in Nat
<1> DEFINE At == {i \in 1 .. n : info[q[i]].kind = k}
<1>1. IsFiniteSet(1 .. n)
  <2>1. 1 \in Int /\ n \in Int
    OBVIOUS
  <2> HIDE DEF At
  <2> QED BY ONLY <2>1, FS_Interval
<1>2. At \subseteq 1 .. n
  OBVIOUS
<1>3. OfKind(q, n, k) = Cardinality(At)
  BY DEF OfKind
<1> HIDE DEF At
<1>4. IsFiniteSet(At) /\ Cardinality(At) \in Nat
  BY <1>1, <1>2, FS_Subset, FS_CardinalityType
<1> QED BY <1>3, <1>4 DEF At

\* A count of tickets is a number.
LEMMA OfKindNat ==
    ASSUME NEW q, NEW k, NEW n \in Nat
    PROVE  OfKind(q, n, k) \in Nat
BY OfKindType

\* It is zero when none of the first n has the kind.
LEMMA OfKindZero ==
    ASSUME NEW q, NEW k, NEW n \in Nat
    PROVE  OfKind(q, n, k) = 0 <=> \A i \in 1 .. n : info[q[i]].kind # k
<1> DEFINE At == {i \in 1 .. n : info[q[i]].kind = k}
<1>1. IsFiniteSet(At) /\ OfKind(q, n, k) = Cardinality(At)
  BY OfKindType, ZenonT(40) DEF OfKind
<1>2. At = {} <=> \A i \in 1 .. n : info[q[i]].kind # k
  OBVIOUS
<1> HIDE DEF At
<1> QED BY <1>1, <1>2, FS_EmptySet

\* The n-th ticket adds one when it has the kind.
LEMMA OfKindNext ==
    ASSUME NEW q, NEW k, NEW n \in Nat \ {0}
    PROVE  OfKind(q, n, k) = OfKind(q, n - 1, k)
                             + IF info[q[n]].kind = k THEN 1 ELSE 0
<1> DEFINE At(m) == {i \in 1 .. m : info[q[i]].kind = k}
<1>1. \A m \in Nat : /\ IsFiniteSet(At(m))
                     /\ Cardinality(At(m)) \in Nat
                     /\ OfKind(q, m, k) = Cardinality(At(m))
  <2>1. SUFFICES ASSUME NEW m \in Nat
                 PROVE  /\ IsFiniteSet(At(m))
                        /\ Cardinality(At(m)) \in Nat
                        /\ OfKind(q, m, k) = Cardinality(At(m))
    OBVIOUS
  <2>2. OfKind(q, m, k) = Cardinality(At(m))
    BY DEF OfKind
  <2>3. IsFiniteSet(At(m)) /\ OfKind(q, m, k) \in Nat
    BY OfKindType
  <2> QED BY <2>2, <2>3
<1>2. n - 1 \in Nat
  OBVIOUS
<1>3. CASE info[q[n]].kind = k
  <2>1. At(n) = At(n - 1) \cup {n} /\ n \notin At(n - 1)
    BY <1>3
  <2> HIDE DEF At
  <2> QED BY <1>1, <1>2, <1>3, <2>1, FS_AddElement
<1>4. CASE info[q[n]].kind # k
  <2>1. At(n) = At(n - 1)
    BY <1>4
  <2> HIDE DEF At
  <2> QED BY <1>1, <1>2, <1>4, <2>1
<1> QED BY <1>3, <1>4

\* _grant_locked grants the longest startable head: each ticket in it can start
\* after those before it, and the next one cannot.
LEMMA StartableIsMaximal ==
    ASSUME NEW q \in Seq(Calls), NEW a \in Nat, NEW w \in BOOLEAN,
           NEW n, n = Startable(q, a, w)
    PROVE  /\ n \in 0 .. Len(q)
           /\ \A i \in 1 .. n :
                 CanStart(info[q[i]].kind, a + OfKind(q, i - 1, "read"),
                          w \/ OfKind(q, i - 1, "write") > 0)
           /\ n < Len(q) =>
                 ~CanStart(info[q[n + 1]].kind, a + OfKind(q, n, "read"),
                           w \/ OfKind(q, n, "write") > 0)
<1> DEFINE Starts(i) == CanStart(info[q[i]].kind, a + OfKind(q, i - 1, "read"),
                                 w \/ OfKind(q, i - 1, "write") > 0)
           S == {m \in 0 .. Len(q) : \A i \in 1 .. m : Starts(i)}
<1>1. n = Max(S)
  BY DEF Startable
<1> HIDE DEF Starts
<1>2. Len(q) \in Nat /\ S \subseteq 0 .. Len(q) /\ 0 \in S
  OBVIOUS
<1> HIDE DEF S
<1>3. n \in S /\ \A m \in S : m <= n
  BY <1>1, <1>2, MaxIsElement
<1>4. n \in 0 .. Len(q) /\ \A i \in 1 .. n : Starts(i)
  BY <1>3 DEF S
<1>5. ASSUME n < Len(q), Starts(n + 1) PROVE FALSE
  <2>1. n + 1 \in S
    BY <1>4, <1>5 DEF S
  <2> QED BY <1>2, <1>3, <1>4, <2>1
<1>6. n < Len(q) => ~Starts(n + 1)
  BY <1>5
<1>7. n + 1 - 1 = n
  BY <1>4
<1> QED BY <1>4, <1>6, <1>7 DEF Starts
\* The tickets in the head of a queue without duplicates are as many as OfKind
\* counts.
LEMMA HeadCounted ==
    ASSUME NEW q \in Seq(Calls), Distinct(q), NEW n \in 0 .. Len(q), NEW k
    PROVE  LET T == {q[i] : i \in {j \in 1 .. n : info[q[j]].kind = k}}
           IN  IsFiniteSet(T) /\ Cardinality(T) = OfKind(q, n, k)
<1> DEFINE I == {i \in 1 .. n : info[q[i]].kind = k}
           T == {q[i] : i \in I}
           f == [i \in I |-> q[i]]
<1>1. IsFiniteSet(I) /\ Cardinality(I) = OfKind(q, n, k)
  <2>1. n \in Nat
    OBVIOUS
  <2> QED BY <2>1, OfKindType, ZenonT(40) DEF OfKind
<1>2. \A i, j \in I : q[i] = q[j] => i = j
  BY DEF Distinct
<1>3. f \in Bijection(I, T)
  <2>1. f \in [I -> T]
    BY Zenon
  <2>2. \A i, j \in I : f[i] = f[j] => i = j
    BY <1>2
  <2>3. \A t \in T : \E i \in I : f[i] = t
    BY Zenon
  <2> HIDE DEF I, T, f
  <2> QED BY <2>1, <2>2, <2>3, Zenon
       DEF Bijection, Injection, Surjection, IsInjective
<1> HIDE DEF I, T, f
<1>4. IsFiniteSet(T) /\ Cardinality(T) = Cardinality(I)
  BY <1>1, <1>3, FS_Bijection DEF ExistsBijection
<1> QED BY <1>1, <1>4 DEF T, I

\* Typing of the scheduler.
TicketsTyped ==
    queue \in Seq(Calls) /\ held \subseteq Calls /\ reads \in Nat /\ writer \in BOOLEAN

\* The scheduler is right again after a step that had q wait and h granted:
\* nothing is granted but some of q, and what goes on waiting is behind it.
GrantedFrom(q, h) ==
    /\ TicketsTyped' /\ SchedulerInv' /\ h \subseteq held'
    /\ \A i \in 1 .. Len(queue') : \E j \in 1 .. Len(q) : queue'[i] = q[j]
    /\ \A c \in held' : c \in h \/ \E j \in 1 .. Len(q) : c = q[j]
    /\ \A c \in held' \ h, i \in 1 .. Len(queue') :
          \E j, l \in 1 .. Len(q) : j < l /\ q[j] = c /\ q[l] = queue'[i]

\* What _grant_locked does to a scheduler whose counters are right: some head of
\* the queue is granted, the counters are right again, and what is left of the
\* queue has to wait.
LEMMA GrantKeeps ==
    ASSUME Typed, NEW q \in Seq(Calls), NEW h \in SUBSET Calls,
           NEW a \in Nat, NEW w \in BOOLEAN,
           Waiting(q, h), Counters(h, a, w),
           \A i \in 1 .. Len(q) : info[q[i]] # NoCall,
           \A c \in h : info[c] # NoCall,
           Grant(q, h, a, w), UNCHANGED info
    PROVE  GrantedFrom(q, h)
<1> DEFINE n == Startable(q, a, w)
           T == {q[i] : i \in {j \in 1 .. n : info[q[j]].kind = "read"}}
           H == {c \in h : Reader(c)}
<1>1. /\ n \in 0 .. Len(q)
      /\ \A i \in 1 .. n :
            CanStart(info[q[i]].kind, a + OfKind(q, i - 1, "read"),
                     w \/ OfKind(q, i - 1, "write") > 0)
      /\ n < Len(q) =>
            ~CanStart(info[q[n + 1]].kind, a + OfKind(q, n, "read"),
                      w \/ OfKind(q, n, "write") > 0)
  BY StartableIsMaximal
<1>2. /\ queue' = SubSeq(q, n + 1, Len(q))
      /\ held' = h \cup {q[i] : i \in 1 .. n}
      /\ reads' = a + OfKind(q, n, "read")
      /\ writer' = (w \/ OfKind(q, n, "write") > 0)
  BY DEF Grant
<1> HIDE DEF n
<1>3. Len(q) \in Nat /\ n \in Nat
  BY <1>1
<1>4. /\ queue' \in Seq(Calls)
      /\ Len(queue') = Len(q) - n
      /\ \A i \in 1 .. Len(q) - n : queue'[i] = q[n + i]
  BY <1>1, <1>2, <1>3, SMTT(40)
<1>5. held' \subseteq Calls
  BY <1>1, <1>2, <1>3
<1>6. \A k : OfKind(q, n, k) \in Nat
  BY <1>3, OfKindNat
<1>7. reads' \in Nat /\ writer' \in BOOLEAN
  BY <1>2, <1>6
<1>8. \A i \in 1 .. Len(q) : info[q[i]].kind \in Kinds
  BY DEF Typed, NoCall, Kinds
<1>9. \A c \in h : info[c].kind \in Kinds
  BY DEF Typed, NoCall, Kinds
\* A write ticket is granted alone.
<1>10. ASSUME NEW i \in 1 .. n, Writer(q[i])
       PROVE  h = {} /\ n = 1
  <2>1. i \in 1 .. Len(q) /\ i - 1 \in Nat
    BY <1>1, <1>3
  <2>2. /\ ~w
        /\ a + OfKind(q, i - 1, "read") = 0
        /\ ~(OfKind(q, i - 1, "write") > 0)
    BY <1>1, <1>10 DEF CanStart, Writer
  <2>3. a = 0 /\ OfKind(q, i - 1, "read") = 0 /\ OfKind(q, i - 1, "write") = 0
    BY <2>1, <2>2, OfKindNat
  <2>4. \A j \in 1 .. i - 1 : info[q[j]].kind \notin Kinds
    BY <2>1, <2>3, OfKindZero DEF Kinds
  <2>5. i = 1
    BY <2>1, <2>4, <1>8
  <2>6. h = {}
    <3>1. IsFiniteSet(H)
      BY FS_Subset
    <3>2. H = {}
      BY <2>3, <3>1, FS_EmptySet DEF Counters
    <3>3. \A c \in h : ~Writer(c)
      BY <2>2 DEF Counters
    <3> QED BY <1>9, <3>2, <3>3 DEF Kinds, Reader, Writer
  <2>7. ASSUME n > 1 PROVE FALSE
    <3>1. 2 \in 1 .. n /\ 2 - 1 = 1
      BY <1>3, <2>7
    <3>2. OfKind(q, 1, "write") # 0
      BY <1>10, <2>5, OfKindZero DEF Writer
    <3>3. OfKind(q, 1, "write") > 0
      BY <3>2, OfKindNat
    <3> QED BY <1>1, <3>1, <3>3 DEF CanStart
  <2> QED BY <1>3, <2>5, <2>6, <2>7
\* At most max_parallel reads are out.
<1>11. reads' <= MaxParallel
  <2>1. CASE n = 0
    <3>1. OfKind(q, 0, "read") = 0
      BY OfKindZero
    <3> QED BY <1>2, <2>1, <3>1 DEF Counters
  <2>2. CASE n > 0
    <3>0. n \in 1 .. n /\ n \in 1 .. Len(q) /\ n - 1 \in Nat
      BY <1>1, <1>3, <2>2
    <3>1. CASE Writer(q[n])
      <4>1. h = {} /\ n = 1
        BY <1>10, <3>0, <3>1
      <4>2. a = 0
        BY <4>1, FS_EmptySet DEF Counters
      <4>3. OfKind(q, 1, "read") = 0
        BY <3>1, <4>1, OfKindZero DEF Writer
      <4> QED BY <1>2, <4>1, <4>2, <4>3
    <3>2. CASE Reader(q[n])
      <4>1. a + OfKind(q, n - 1, "read") < MaxParallel
        BY <1>1, <3>0, <3>2 DEF CanStart, Reader
      <4>2. OfKind(q, n, "read") = OfKind(q, n - 1, "read") + 1
        BY <1>3, <2>2, <3>2, OfKindNext DEF Reader
      <4> QED BY <1>2, <3>0, <4>1, <4>2, OfKindNat, SMTT(40)
    <3> QED BY <1>8, <3>0, <3>1, <3>2 DEF Reader, Writer, Kinds
  <2> QED BY <1>3, <2>1, <2>2
<1>12. reads' = Cardinality({c \in held' : Reader(c)})
  <2>1. {c \in held' : Reader(c)} = H \cup T
    BY <1>2 DEF Reader
  <2>2. IsFiniteSet(T) /\ Cardinality(T) = OfKind(q, n, "read")
    BY <1>1, HeadCounted DEF Waiting
  <2>3. H \cap T = {}
    BY <1>1, <1>3 DEF Waiting
  <2>4. IsFiniteSet(H) /\ Cardinality(H) = a
    BY FS_Subset DEF Counters
  <2> HIDE DEF H, T
  <2>5. Cardinality(H \cup T) = Cardinality(H) + Cardinality(T)
    <3>1. Cardinality(H \cap T) = 0
      BY <2>3, FS_EmptySet
    <3>2. Cardinality(H \cup T)
              = Cardinality(H) + Cardinality(T) - Cardinality(H \cap T)
      BY <2>2, <2>4, FS_Union
    <3> QED BY <2>2, <2>4, <3>1, <3>2, <1>6
  <2> QED BY <1>2, <2>1, <2>2, <2>4, <2>5
<1>13. writer' <=> \E c \in held' : Writer(c)
  <2>1. OfKind(q, n, "write") > 0 <=> \E i \in 1 .. n : Writer(q[i])
    BY <1>3, <1>6, OfKindZero DEF Writer
  <2> QED BY <1>2, <2>1 DEF Counters
<1>14. \A c, d \in held' : Writer(c) => c = d
  <2>1. SUFFICES ASSUME NEW c \in held', NEW d \in held', Writer(c) PROVE c = d
    OBVIOUS
  <2>2. CASE \E i \in 1 .. n : c = q[i]
    BY <1>2, <1>10, <2>1, <2>2, SMTT(40)
  <2>3. CASE c \in h
    <3>1. w
      BY <2>1, <2>3 DEF Counters
    <3>2. n = 0
      <4>1. n > 0 => 1 \in 1 .. n /\ 1 - 1 = 0
        BY <1>3
      <4> QED BY <1>1, <1>3, <3>1, <4>1 DEF CanStart
    <3> QED BY <1>2, <2>1, <2>3, <3>2 DEF Counters
  <2> QED BY <1>2, <2>1, <2>2, <2>3
<1>15. Counters(held, reads, writer)'
  BY <1>11, <1>12, <1>13, <1>14 DEF Counters, Reader, Writer
<1>16. Waiting(queue, held)'
  <2>1. \A i \in 1 .. Len(q) - n : n + i \in 1 .. Len(q)
    BY <1>1, <1>3
  <2>2. Distinct(queue')
    <3>1. SUFFICES ASSUME NEW i \in 1 .. Len(q) - n, NEW j \in 1 .. Len(q) - n,
                          queue'[i] = queue'[j]
                   PROVE  i = j
      BY <1>4 DEF Distinct
    <3>2. q[n + i] = q[n + j]
      BY <1>4, <3>1
    <3>3. n + i = n + j
      BY <2>1, <3>2 DEF Waiting, Distinct
    <3> QED BY <1>3, <3>3
  <2>3. ASSUME NEW i \in 1 .. Len(q) - n PROVE q[n + i] \notin held'
    <3>1. n + i \in 1 .. Len(q) /\ \A j \in 1 .. n : j # n + i /\ j \in 1 .. Len(q)
      BY <1>1, <1>3
    <3> QED BY <1>2, <3>1 DEF Waiting, Distinct
  <2> QED BY <1>4, <2>2, <2>3 DEF Waiting, Distinct
<1>17. NoLostWakeup'
  <2>1. SUFFICES ASSUME queue' # <<>>
                 PROVE  ~CanStart(info[Head(queue')].kind, reads', writer')
    BY DEF NoLostWakeup, CanStart
  <2>2. n < Len(q) /\ Head(queue') = q[n + 1]
    BY <1>1, <1>3, <1>4, <2>1, SMTT(40)
  <2> QED BY <1>1, <1>2, <2>2
<1>18. \A i \in 1 .. Len(queue') : \E j \in 1 .. Len(q) : queue'[i] = q[j]
  <2>1. \A i \in 1 .. Len(queue') : n + i \in 1 .. Len(q)
    BY <1>1, <1>3, <1>4
  <2> QED BY <1>4, <2>1
<1>19. \A i \in 1 .. n : i \in 1 .. Len(q)
  BY <1>1, <1>3
<1>20. ASSUME NEW c \in held' \ h, NEW i \in 1 .. Len(queue')
       PROVE  \E j, l \in 1 .. Len(q) : j < l /\ q[j] = c /\ q[l] = queue'[i]
  <2>1. PICK j \in 1 .. n : c = q[j]
    BY <1>2
  <2>2. j \in 1 .. Len(q) /\ n + i \in 1 .. Len(q) /\ j < n + i
    BY <1>1, <1>3, <1>4, SMTT(40)
  <2> QED BY <1>4, <2>1, <2>2
<1>21. SchedulerInv'
  BY <1>15, <1>16, <1>17 DEF SchedulerInv
<1>22. \A c \in held' : c \in h \/ \E j \in 1 .. Len(q) : c = q[j]
  BY <1>2, <1>19
<1>23. h \subseteq held'
  BY <1>2
<1> QED BY <1>4, <1>5, <1>7, <1>18, <1>20, <1>21, <1>22, <1>23
     DEF GrantedFrom, TicketsTyped
\* p is q, or q without one entry.
OneRemoved(p, q) ==
    \E k \in Nat : \A i \in 1 .. Len(p) :
       IF i < k THEN i \in 1 .. Len(q) /\ p[i] = q[i]
                ELSE i + 1 \in 1 .. Len(q) /\ p[i] = q[i + 1]

\* list.remove on a queue without duplicates: the entries that stay keep their
\* order, and the removed one is gone.
LEMMA RemoveFirstKeeps ==
    ASSUME NEW q \in Seq(Calls), Distinct(q), NEW c, NEW p,
           p = RemoveFirst(q, c)
    PROVE  /\ p \in Seq(Calls)
           /\ \A i \in 1 .. Len(p) : p[i] # c
           /\ OneRemoved(p, q)
<1>1. CASE ~ \E i \in 1 .. Len(q) : q[i] = c
  <2>1. p = q
    BY <1>1 DEF RemoveFirst
  <2>2. Len(q) + 1 \in Nat
    OBVIOUS
  <2>3. \A i \in 1 .. Len(p) :
           IF i < Len(q) + 1 THEN i \in 1 .. Len(q) /\ p[i] = q[i]
                             ELSE i + 1 \in 1 .. Len(q) /\ p[i] = q[i + 1]
    BY <2>1
  <2> QED BY <1>1, <2>1, <2>2, <2>3 DEF OneRemoved
<1>2. CASE \E i \in 1 .. Len(q) : q[i] = c
  <2> DEFINE I == {i \in 1 .. Len(q) : q[i] = c}
  <2>1. PICK k \in I : TRUE
    BY <1>2
  <2>2. k \in 1 .. Len(q) /\ q[k] = c
    BY <2>1
  <2>3. I = {k}
    BY <2>2 DEF Distinct
  <2>4. Min(I) = k
    BY <2>2, <2>3 DEF Min
  <2> DEFINE A == SubSeq(q, 1, k - 1)
             B == SubSeq(q, k + 1, Len(q))
  <2>5. p = A \o B
    <3>1. SelectInSeq(q, LAMBDA v : v = c) = k
      BY <2>1, <2>4 DEF SelectInSeq
    <3> HIDE DEF I
    <3> QED BY <1>2, <3>1 DEF RemoveFirst, RemoveAt
  <2> HIDE DEF I
  <2>6. /\ A \in Seq(Calls)
        /\ Len(A) = k - 1
        /\ \A i \in 1 .. k - 1 : A[i] = q[i]
    BY <2>2
  <2>7. /\ B \in Seq(Calls)
        /\ Len(B) = Len(q) - k
        /\ \A i \in 1 .. Len(q) - k : B[i] = q[k + i]
    BY <2>2
  <2> HIDE DEF A, B
  <2>8. /\ p \in Seq(Calls)
        /\ Len(p) = Len(A) + Len(B)
        /\ \A i \in 1 .. Len(A) + Len(B) :
              p[i] = IF i <= Len(A) THEN A[i] ELSE B[i - Len(A)]
    <3>1. A \in Seq(Calls) /\ B \in Seq(Calls)
      BY <2>6, <2>7
    <3>2. A \o B \in Seq(Calls) /\ Len(A \o B) = Len(A) + Len(B)
      BY ONLY <3>1, ConcatProperties
    <3>3. \A i \in 1 .. Len(A) + Len(B) :
             (A \o B)[i] = IF i <= Len(A) THEN A[i] ELSE B[i - Len(A)]
      BY ONLY <3>1, ConcatProperties
    <3> QED BY <2>5, <3>2, <3>3
  <2>9. ASSUME NEW i \in 1 .. Len(p)
        PROVE  IF i < k THEN i \in 1 .. Len(q) /\ p[i] = q[i]
                        ELSE i + 1 \in 1 .. Len(q) /\ p[i] = q[i + 1]
    <3>1. Len(q) \in Nat /\ Len(p) = Len(q) - 1
      BY <2>2, <2>6, <2>7, <2>8, SMTT(40)
    <3>2. CASE i < k
      <4>1. i \in 1 .. k - 1 /\ i <= Len(A)
        BY <2>2, <2>6, <3>2
      <4> QED BY <2>2, <2>6, <2>8, <3>1, <3>2, <4>1
    <3>3. CASE ~(i < k)
      <4>1. i - (k - 1) \in 1 .. Len(q) - k /\ k + (i - (k - 1)) = i + 1
        BY <2>2, <3>1, <3>3
      <4>2. ~(i <= Len(A)) /\ i \in 1 .. Len(A) + Len(B)
        BY <2>2, <2>6, <2>8, <3>3
      <4>3. p[i] = B[i - (k - 1)]
        BY <2>6, <2>8, <4>2
      <4>4. B[i - (k - 1)] = q[i + 1]
        BY <2>7, <4>1
      <4>5. i + 1 \in 1 .. Len(q)
        BY <3>1
      <4> QED BY <3>3, <4>3, <4>4, <4>5
    <3> QED BY <3>2, <3>3
  <2>10. \A i \in 1 .. Len(p) : p[i] # c
    BY <2>2, <2>9 DEF Distinct
  <2>11. k \in Nat
    BY <2>2
  <2> QED BY <2>8, <2>9, <2>10, <2>11 DEF OneRemoved
<1> QED BY <1>1, <1>2
\* Every granted or waiting ticket belongs to a call that was read.
Known ==
    /\ \A i \in 1 .. Len(queue) : info[queue[i]] # NoCall
    /\ \A c \in held : info[c] # NoCall

\* The ticket of c has been given back, and of that only.
GivenBack(c) ==
    /\ GrantedFrom(queue, held \ {c})
    /\ c \notin held' /\ \A i \in 1 .. Len(queue') : queue'[i] # c

\* Without c the granted tickets are still compatible.
LEMMA CountersWithout ==
    ASSUME Typed, Counters(held, reads, writer), NEW c \in held, info[c] # NoCall
    PROVE  /\ Writer(c) => Counters(held \ {c}, reads, FALSE)
           /\ Reader(c) => Less(reads) \in Nat
                           /\ Counters(held \ {c}, Less(reads), writer)
<1> DEFINE R == {d \in held : Reader(d)}
           S == {d \in held \ {c} : Reader(d)}
<1>1. IsFiniteSet(R) /\ Cardinality(R) = reads
  BY FS_Subset DEF Typed, Counters
<1>2. CASE Writer(c)
  <2>1. S = R
    BY <1>2 DEF Reader, Writer
  <2> QED BY <1>1, <1>2, <2>1 DEF Counters, Reader, Writer
<1>3. CASE Reader(c)
  <2>1. S = R \ {c} /\ c \in R
    BY <1>3
  <2> HIDE DEF R, S
  <2>2. Cardinality(S) = Less(reads) /\ reads # 0 /\ Less(reads) \in Nat
    <3>1. Cardinality(S) = reads - 1
      BY <1>1, <2>1, FS_RemoveElement
    <3>2. reads # 0
      BY <1>1, <2>1, FS_EmptySet
    <3> QED BY <3>1, <3>2 DEF Less, Typed
  <2>3. Less(reads) <= MaxParallel
    BY <2>2 DEF Less, Typed, Counters
  <2>4. ~Writer(c)
    BY <1>3 DEF Reader, Writer
  <2>5. Counters(held \ {c}, Less(reads), writer)
    BY <2>2, <2>3, <2>4 DEF Counters, S
  <2> QED BY <2>2, <2>4, <2>5
<1>4. Reader(c) \/ Writer(c)
  BY DEF Typed, NoCall, Kinds, Reader, Writer
<1> QED BY <1>2, <1>3 DEF Reader, Writer

\* A released ticket leaves the scheduler as it should be.
LEMMA ReleaseKeeps ==
    ASSUME Typed, SchedulerInv, Known, NEW c \in held, Release(c), UNCHANGED info
    PROVE  GivenBack(c)
<1>1. ASSUME NEW a \in Nat, NEW w \in BOOLEAN,
             Counters(held \ {c}, a, w), Grant(queue, held \ {c}, a, w)
      PROVE  GivenBack(c)
  <2>1. queue \in Seq(Calls) /\ held \ {c} \in SUBSET Calls
    BY DEF Typed
  <2>2. Waiting(queue, held \ {c})
    BY DEF SchedulerInv, Waiting
  <2>3. \A i \in 1 .. Len(queue) : info[queue[i]] # NoCall
    BY DEF Known
  <2>4. \A d \in held \ {c} : info[d] # NoCall
    BY DEF Known
  <2>5. GrantedFrom(queue, held \ {c})
    BY <1>1, <2>1, <2>2, <2>3, <2>4, GrantKeeps
  <2>6. \A i \in 1 .. Len(queue) : queue[i] # c
    BY DEF SchedulerInv, Waiting
  <2> QED BY <2>5, <2>6 DEF GivenBack, GrantedFrom
<1>2. Reader(c) \/ Writer(c)
  BY DEF Typed, NoCall, Kinds, Reader, Writer, Known
<1>3. /\ Writer(c) => Counters(held \ {c}, reads, FALSE)
      /\ Reader(c) => Less(reads) \in Nat /\ Counters(held \ {c}, Less(reads), writer)
  BY CountersWithout DEF SchedulerInv, Known
<1>4. CASE Writer(c)
  <2>1. Grant(queue, held \ {c}, reads, FALSE)
    BY <1>4 DEF Release, Writer
  <2> QED BY <1>1, <1>3, <1>4, <2>1 DEF Typed
<1>5. CASE Reader(c)
  <2>1. Grant(queue, held \ {c}, Less(reads), writer)
    BY <1>5 DEF Release, Reader
  <2> QED BY <1>1, <1>3, <1>5, <2>1 DEF Typed
<1> QED BY <1>2, <1>4, <1>5

\* An abandoned ticket leaves the scheduler as it should be.
LEMMA AbandonKeeps ==
    ASSUME Typed, SchedulerInv, Known, NEW c \in Calls, Abandon(c), UNCHANGED info
    PROVE  GivenBack(c)
<1>1. CASE c \in held
  BY <1>1, ReleaseKeeps DEF Abandon
<1>2. CASE c \notin held
  <2> DEFINE p == RemoveFirst(queue, c)
  <2>1. Grant(p, held, reads, writer)
    BY <1>2 DEF Abandon
  <2>2. queue \in Seq(Calls) /\ Distinct(queue)
    BY DEF Typed, SchedulerInv, Waiting
  <2> HIDE DEF p
  <2>3. p \in Seq(Calls) /\ OneRemoved(p, queue) /\ \A i \in 1 .. Len(p) : p[i] # c
    BY <2>2, RemoveFirstKeeps DEF p
  <2>4. PICK k \in Nat : \A i \in 1 .. Len(p) :
              IF i < k THEN i \in 1 .. Len(queue) /\ p[i] = queue[i]
                       ELSE i + 1 \in 1 .. Len(queue) /\ p[i] = queue[i + 1]
    BY <2>3 DEF OneRemoved
  <2> DEFINE at == [i \in 1 .. Len(p) |-> IF i < k THEN i ELSE i + 1]
  <2>5. \A i \in 1 .. Len(p) : at[i] \in 1 .. Len(queue) /\ p[i] = queue[at[i]]
    BY <2>4
  <2>6. \A i, j \in 1 .. Len(p) : i < j => at[i] < at[j]
    OBVIOUS
  <2> HIDE DEF at
  <2>7. \A i, j \in 1 .. Len(p) : at[i] = at[j] => i = j
    <3>1. SUFFICES ASSUME NEW i \in 1 .. Len(p), NEW j \in 1 .. Len(p), at[i] = at[j]
                   PROVE  i = j
      OBVIOUS
    <3>2. ~(i < j) /\ ~(j < i)
      BY <2>5, <2>6, <3>1
    <3> QED BY <3>2
  <2>8. Waiting(p, held)
    BY <2>5, <2>7, <2>2, ZenonT(40) DEF Waiting, Distinct, SchedulerInv
  <2>9. \A i \in 1 .. Len(p) : info[p[i]] # NoCall
    BY <2>5 DEF Known
  <2>10. /\ held \in SUBSET Calls /\ reads \in Nat /\ writer \in BOOLEAN
         /\ Counters(held, reads, writer)
         /\ \A d \in held : info[d] # NoCall
    BY DEF Typed, SchedulerInv, Known
  <2>11. GrantedFrom(p, held)
    BY <2>1, <2>3, <2>8, <2>9, <2>10, GrantKeeps
  <2>12. \A d \in held' \ held, i \in 1 .. Len(queue') :
            \E j, l \in 1 .. Len(queue) :
               j < l /\ queue[j] = d /\ queue[l] = queue'[i]
    <3>1. SUFFICES ASSUME NEW d \in held' \ held, NEW i \in 1 .. Len(queue')
                   PROVE  \E j, l \in 1 .. Len(queue) :
                             j < l /\ queue[j] = d /\ queue[l] = queue'[i]
      OBVIOUS
    <3>2. PICK j \in 1 .. Len(p), l \in 1 .. Len(p) :
             j < l /\ p[j] = d /\ p[l] = queue'[i]
      BY <2>11 DEF GrantedFrom
    <3> QED BY <2>5, <2>6, <3>2
  <2>13. \A i \in 1 .. Len(queue') : \E j \in 1 .. Len(queue) : queue'[i] = queue[j]
    <3>1. SUFFICES ASSUME NEW i \in 1 .. Len(queue')
                   PROVE  \E j \in 1 .. Len(queue) : queue'[i] = queue[j]
      OBVIOUS
    <3>2. PICK l \in 1 .. Len(p) : queue'[i] = p[l]
      BY <2>11 DEF GrantedFrom
    <3> QED BY <2>5, <3>2
  <2>14. \A d \in held' : d \in held \/ \E j \in 1 .. Len(queue) : d = queue[j]
    <3>1. SUFFICES ASSUME NEW d \in held', d \notin held
                   PROVE  \E j \in 1 .. Len(queue) : d = queue[j]
      OBVIOUS
    <3>2. PICK l \in 1 .. Len(p) : d = p[l]
      BY <2>11, <3>1 DEF GrantedFrom
    <3> QED BY <2>5, <3>2
  <2>15. c \notin held' /\ \A i \in 1 .. Len(queue') : queue'[i] # c
    BY <1>2, <2>3, <2>11 DEF GrantedFrom
  <2>16. held \ {c} = held
    BY <1>2
  <2> QED BY <2>11, <2>12, <2>13, <2>14, <2>15, <2>16 DEF GivenBack, GrantedFrom
<1> QED BY <1>1, <1>2
-----------------------------------------------------------------------------
(* The invariant *)

\* Tickets, and only they, are in the hands of a task or a future.
LEMMA TicketsKnown ==
    ASSUME Typed, OwnerInv
    PROVE  Known
<1>1. \A i \in 1 .. Len(queue) : queue[i] \in Calls
  BY DEF Typed
<1>2. \A c \in Calls : job[c] \in Live => task[c] # "none"
  BY DEF OwnerInv, Owned, Live
<1> QED BY <1>1, <1>2 DEF OwnerInv, Owned, Known, Typed

\* A step that leaves the scheduler alone, and what its tickets ask for.
LEMMA SchedulerFrame ==
    ASSUME Typed, SchedulerInv, OwnerInv, UNCHANGED ticketVars,
           \A c \in Calls : info[c] # NoCall => info'[c] = info[c]
    PROVE  TicketsTyped' /\ SchedulerInv'
<1>1. Known
  BY TicketsKnown
<1>2. /\ \A c \in held : info'[c] = info[c]
      /\ \A i \in 1 .. Len(queue) : info'[queue[i]] = info[queue[i]]
  BY <1>1 DEF Known, Typed
<1>3. UNCHANGED <<queue, held, reads, writer>>
  BY DEF ticketVars
<1>4. {c \in held' : Reader(c)'} = {c \in held : Reader(c)}
  BY <1>2, <1>3 DEF Reader
<1>5. \A c \in held : Writer(c)' <=> Writer(c)
  BY <1>2 DEF Writer
<1>6. Counters(held, reads, writer)'
  BY <1>3, <1>4, <1>5 DEF SchedulerInv, Counters
<1>7. Waiting(queue, held)'
  BY <1>3 DEF SchedulerInv, Waiting, Distinct
<1>8. NoLostWakeup'
  <2>1. queue # <<>> => Head(queue) = queue[1] /\ 1 \in 1 .. Len(queue)
    BY DEF Typed
  <2> QED BY <1>2, <1>3, <2>1 DEF SchedulerInv, NoLostWakeup, CanStart
<1> QED BY <1>3, <1>6, <1>7, <1>8 DEF SchedulerInv, TicketsTyped, Typed

\* Everything but the scheduler and the run's own record stays.
HostStep == UNCHANGED <<info, settled, ticketVars, poolVars>>

\* The read loop of r ends with an outcome.
LEMMA StopKeeps ==
    ASSUME IInv, NEW r \in Runs, NEW outcome \in Outcomes \ {"none"},
           run[r].phase \in {"reading", "blocked"},
           outcome = "ok" => \A c \in CallsOf(r) : c \in settled \/ task[c] = "quit",
           Stop(r, outcome), HostStep
    PROVE  IInv'
<1> USE DEF IInv
<1>1. Typed'
  BY ZenonT(40) DEF Typed, Stop, HostStep, ticketVars, poolVars, TasksOf, CallsOf, Phases,
         TaskStates
<1>2. SchedulerInv'
  BY SchedulerFrame DEF HostStep
<1>3. \A c \in Calls : task'[c] # task[c] =>
         task[c] = "unslotted" /\ task'[c] = "done" /\ info[c].run = r
  BY DEF Stop, CallsOf
<1>4. UNCHANGED <<info, settled, queue, held, job, inflight>>
  BY DEF HostStep, ticketVars, poolVars
<1>5. OwnerInv'
  <2>1. LiveJobs' = LiveJobs
    BY <1>4 DEF LiveJobs
  <2>2. \A i \in 1 .. Len(queue) : queue[i] \in Calls
    BY DEF Typed
  <2>3. \A d \in cancel' : d \in cancel \/ Alive(d)
    BY DEF Stop, TasksOf
  <2>4. \A d \in Calls : Owned(d)'
    BY <1>3, <1>4, <2>3 DEF OwnerInv, Owned, Live, Alive
  <2> QED BY <1>3, <1>4, <2>1, <2>2, <2>4 DEF OwnerInv, Typed
<1>6. PhaseInv'
  <2>1. /\ run'[r].phase = "stopping" /\ run'[r].outcome = outcome
        /\ \A s \in Runs \ {r} : run'[s] = run[s]
    BY DEF Stop, Typed
  <2>2. \A s \in Runs \ {r} : \A c \in CallsOf(s) : task'[c] = task[c]
    BY <1>3 DEF CallsOf
  <2>3. \A s \in Runs \ {r} : \A c \in CallsOf(s) : c \in cancel' <=> c \in cancel
    BY DEF Stop, TasksOf, CallsOf
  <2>4. \A s \in Runs : CallsOf(s)' = CallsOf(s)
    BY <1>4 DEF CallsOf
  <2>5. \A c \in CallsOf(r) : task'[c] # "unslotted"
    BY DEF Stop, CallsOf
  <2>6. \A c \in CallsOf(r) : task[c] = "quit" => task'[c] = "quit"
    BY <1>3 DEF CallsOf
  <2>7. ASSUME NEW c \in CallsOf(r) PROVE InPhase(r, c)'
    <3>1. run'[r].outcome = "ok" => c \in settled' \/ task'[c] = "quit"
      BY <1>4, <2>1, <2>6
    <3> QED BY <2>1, <2>5, <3>1 DEF InPhase
  <2>8. ASSUME NEW t \in Runs \ {r}, NEW c \in CallsOf(t) PROVE InPhase(t, c)'
    <3>1. InPhase(t, c) /\ c \in Calls
      BY DEF PhaseInv, CallsOf
    <3> QED BY <1>4, <2>1, <2>2, <2>3, <3>1 DEF InPhase
  <2> QED BY <2>1, <2>4, <2>7, <2>8 DEF PhaseInv
<1> QED BY <1>1, <1>2, <1>5, <1>6

\* The record of r after a step that changes no other.
RunBecomes(r, ph, oc, wn) ==
    /\ run' \in [Runs -> [phase : Phases, outcome : Outcomes, warned : BOOLEAN]]
    /\ run'[r].phase = ph /\ run'[r].outcome = oc /\ run'[r].warned = wn
    /\ \A s \in Runs \ {r} : run'[s] = run[s]

\* Only the phase, the outcome and the warning of r change.
LEMMA PhaseKeeps ==
    ASSUME IInv, NEW r \in Runs, UNCHANGED <<task, cancel>>, HostStep,
           NEW ph \in Phases, NEW oc \in Outcomes, NEW wn \in BOOLEAN,
           RunBecomes(r, ph, oc, wn),
           oc = "none" <=> ph \in {"off", "reading", "blocked"},
           ph \in {"reading", "blocked"} => run[r].phase = "off",
           ph # "off" \/ CallsOf(r) = {},
           oc = "ok" => run[r].outcome = "ok" \/ CallsOf(r) = {},
           run[r].phase = "blocked" => CallsOf(r) = {},
           ph \in {"closing", "closed"} =>
               \A c \in CallsOf(r) : task[c] \in {"running", "draining", "quit", "done"},
           ph = "closed" /\ oc # "cancelled" =>
               \A c \in CallsOf(r) : job[c] = "running" => wn
    PROVE  IInv'
<1> USE DEF IInv
<1>1. Typed'
  BY DEF Typed, HostStep, ticketVars, poolVars, RunBecomes
<1>2. SchedulerInv'
  BY SchedulerFrame DEF HostStep
<1>3. UNCHANGED <<info, settled, queue, held, job, inflight>>
  BY DEF HostStep, ticketVars, poolVars
<1>4. OwnerInv'
  <2>1. LiveJobs' = LiveJobs
    BY <1>3 DEF LiveJobs
  <2> QED BY <1>3, <2>1 DEF OwnerInv, Owned
<1>5. PhaseInv'
  <2>1. /\ run'[r].phase = ph /\ run'[r].outcome = oc /\ run'[r].warned = wn
        /\ \A s \in Runs \ {r} : run'[s] = run[s]
    BY DEF RunBecomes
  <2>2. \A s \in Runs : CallsOf(s)' = CallsOf(s)
    BY <1>3 DEF CallsOf
  <2>3. CallsOf(r) # {} => run[r].phase # "off"
    BY DEF PhaseInv, InPhase
  <2> QED BY <1>3, <2>1, <2>2, <2>3 DEF PhaseInv, InPhase
<1> QED BY <1>1, <1>2, <1>4, <1>5
\* A call of a run was read from it.
LEMMA CallHasTask ==
    ASSUME IInv, NEW r \in Runs, NEW c \in CallsOf(r)
    PROVE  c \in Calls /\ info[c] # NoCall /\ task[c] # "none" /\ task[c] \in TaskStates
BY DEF IInv, CallsOf, NoCall, OwnerInv, Owned, Typed

\* The read loop: each way in which it starts and ends, and a slot that is freed.
LEMMA LoopKeeps ==
    ASSUME IInv, NEW r \in Runs,
           \/ Start(r) \/ SpawnFails(r) \/ ReadCallOverBudget(r)
           \/ ReadSuccess(r) \/ ReadFailure(r)
    PROVE  IInv'
<1>1. ASSUME Start(r) PROVE IInv'
  <2>1. /\ RunBecomes(r, "reading", run[r].outcome, run[r].warned)
        /\ run[r].outcome \in Outcomes /\ run[r].warned \in BOOLEAN
    BY <1>1 DEF Start, RunBecomes, IInv, Typed, Phases
  <2>2. run[r].phase = "off" /\ run[r].outcome = "none" /\ CallsOf(r) = {}
    BY <1>1 DEF Start, IInv, PhaseInv, InPhase
  <2>3. UNCHANGED <<task, cancel>> /\ HostStep
    BY <1>1 DEF Start, HostStep, taskVars
  <2> HIDE DEF IInv
  <2> QED BY <2>1, <2>2, <2>3, PhaseKeeps DEF Phases
<1>2. ASSUME SpawnFails(r) PROVE IInv'
  <2>1. /\ RunBecomes(r, "closing", "error", run[r].warned)
        /\ run[r].warned \in BOOLEAN
    BY <1>2 DEF SpawnFails, RunBecomes, IInv, Typed, Phases, Outcomes
  <2>2. run[r].phase = "off" /\ CallsOf(r) = {}
    BY <1>2 DEF SpawnFails, IInv, PhaseInv, InPhase
  <2>3. UNCHANGED <<task, cancel>> /\ HostStep
    BY <1>2 DEF SpawnFails, HostStep, taskVars
  <2> QED BY <2>1, <2>2, <2>3, PhaseKeeps DEF Phases, Outcomes
<1>3. ASSUME ReadCallOverBudget(r) PROVE IInv'
  BY <1>3, StopKeeps DEF ReadCallOverBudget, HostStep, Outcomes
<1>4. ASSUME ReadSuccess(r) PROVE IInv'
  <2>1. ASSUME Unfinished(r) = {}, NEW c \in CallsOf(r)
        PROVE  c \in settled \/ task[c] = "quit"
    <3>1. task[c] = "done" => c \in settled
      BY <1>4 DEF ReadSuccess, IInv, PhaseInv, InPhase
    <3>2. task[c] # "unslotted"
      BY <1>4 DEF ReadSuccess, IInv, PhaseInv, InPhase
    <3>3. Alive(c) => c \in settled
      BY <2>1 DEF Unfinished, TasksOf
    <3> QED BY <3>1, <3>2, <3>3, CallHasTask DEF Alive, TaskStates
  <2> DEFINE oc == IF Unfinished(r) = {} THEN "ok" ELSE "error"
  <2>2. /\ oc \in Outcomes \ {"none"}
        /\ oc = "ok" => \A c \in CallsOf(r) : c \in settled \/ task[c] = "quit"
    BY <2>1 DEF Outcomes
  <2>3. run[r].phase = "reading" /\ Stop(r, oc) /\ HostStep
    BY <1>4 DEF ReadSuccess, HostStep
  <2> HIDE DEF oc
  <2> QED BY <2>2, <2>3, StopKeeps
<1>5. ASSUME ReadFailure(r) PROVE IInv'
  BY <1>5, StopKeeps DEF ReadFailure, HostStep, Outcomes
<1> QED BY <1>1, <1>2, <1>3, <1>4, <1>5

\* A run stops to wait for its tasks: those that are left have a handler that
\* runs on the loop.
LEMMA ClosingKeeps ==
    ASSUME IInv, NEW r \in Runs, NEW oc \in Outcomes,
           run[r].phase \in {"stopping", "closing"},
           run[r].phase = "stopping" => \A c \in TasksOf(r) : task[c] = "running",
           oc \in {run[r].outcome, "timeout", "cancelled"},
           RunBecomes(r, "closing", oc, run[r].warned),
           UNCHANGED <<task, cancel>>, HostStep
    PROVE  IInv'
<1>1. ASSUME NEW c \in CallsOf(r)
      PROVE  task[c] \in {"running", "draining", "quit", "done"}
  <2>1. task[c] # "unslotted"
    BY DEF IInv, PhaseInv, InPhase
  <2>2. run[r].phase = "stopping" /\ Alive(c) => task[c] = "running"
    BY DEF TasksOf
  <2>3. run[r].phase = "closing" => task[c] \in {"running", "draining", "quit", "done"}
    BY DEF IInv, PhaseInv, InPhase
  <2> QED BY <2>1, <2>2, <2>3, CallHasTask DEF Alive, TaskStates
<1>2. run[r].outcome # "none" /\ run[r].warned \in BOOLEAN
  BY DEF IInv, PhaseInv, InPhase, Typed
<1>3. oc = "ok" => run[r].outcome = "ok"
  OBVIOUS
<1>4. oc # "none"
  BY <1>2
<1> QED BY <1>1, <1>2, <1>3, <1>4, PhaseKeeps DEF Phases

\* The end of a run keeps the invariant.
LEMMA EndKeeps ==
    ASSUME IInv, NEW r \in Runs, Timeout(r) \/ Cancel(r) \/ Stopped(r) \/ Close(r)
    PROVE  IInv'
<1>1. run[r].outcome \in Outcomes /\ run[r].warned \in BOOLEAN
  BY DEF IInv, Typed
<1>2. ASSUME Timeout(r) PROVE IInv'
  <2>1. HostStep
    BY <1>2 DEF Timeout, HostStep
  <2>2. CASE run[r].phase \in {"reading", "blocked"} /\ Stop(r, "timeout")
    BY <2>1, <2>2, StopKeeps DEF Outcomes
  <2>3. CASE /\ run[r].phase = "stopping"
             /\ \A c \in TasksOf(r) : task[c] = "running"
             /\ run' = [run EXCEPT ![r].phase = "closing", ![r].outcome = "timeout"]
             /\ UNCHANGED <<task, cancel>>
    <3>1. RunBecomes(r, "closing", "timeout", run[r].warned)
      BY <2>3 DEF RunBecomes, IInv, Typed, Phases, Outcomes
    <3> QED BY <2>1, <2>3, <3>1, ClosingKeeps DEF Outcomes
  <2> QED BY <1>2, <2>2, <2>3 DEF Timeout
<1>3. ASSUME Cancel(r) PROVE IInv'
  <2>1. HostStep
    BY <1>3 DEF Cancel, HostStep
  <2>2. CASE run[r].phase \in {"reading", "blocked"} /\ Stop(r, "cancelled")
    BY <2>1, <2>2, StopKeeps DEF Outcomes
  <2>3. CASE /\ run[r].phase = "stopping"
             /\ \A c \in TasksOf(r) : task[c] = "running"
             /\ run' = [run EXCEPT ![r].phase = "closing", ![r].outcome = "cancelled"]
             /\ UNCHANGED <<task, cancel>>
    <3>1. RunBecomes(r, "closing", "cancelled", run[r].warned)
      BY <2>3 DEF RunBecomes, IInv, Typed, Phases, Outcomes
    <3> QED BY <2>1, <2>3, <3>1, ClosingKeeps DEF Outcomes
  <2>4. CASE /\ run[r].phase = "closing"
             /\ run' = [run EXCEPT ![r].outcome = "cancelled"]
             /\ UNCHANGED <<task, cancel>>
    <3>1. RunBecomes(r, "closing", "cancelled", run[r].warned)
      BY <2>4 DEF RunBecomes, IInv, Typed, Phases, Outcomes
    <3> QED BY <2>1, <2>4, <3>1, ClosingKeeps DEF Outcomes
  <2> QED BY <1>3, <2>2, <2>3, <2>4 DEF Cancel
<1>4. ASSUME Stopped(r) PROVE IInv'
  <2>1. RunBecomes(r, "closing", run[r].outcome, run[r].warned)
    BY <1>4 DEF Stopped, RunBecomes, IInv, Typed, Phases
  <2>2. UNCHANGED <<task, cancel>> /\ HostStep
    BY <1>4 DEF Stopped, HostStep, taskVars
  <2> QED BY <1>1, <1>4, <2>1, <2>2, ClosingKeeps DEF Stopped
<1>5. ASSUME Close(r) PROVE IInv'
  <2>1. RunBecomes(r, "closed", run[r].outcome, Warn(r))
    BY <1>5 DEF Close, Warn, RunBecomes, IInv, Typed, Phases
  <2>2. UNCHANGED <<task, cancel>> /\ HostStep /\ run[r].phase = "closing"
    BY <1>5 DEF Close, HostStep, taskVars
  <2>3. Warn(r) \in BOOLEAN
    BY DEF Warn
  <2>4. ASSUME NEW c \in CallsOf(r), job[c] = "running", run[r].outcome # "cancelled"
        PROVE  Warn(r)
    <3>1. c \in LiveJobs /\ IsFiniteSet(LiveJobs)
      BY <2>4, CallHasTask, FS_Subset DEF LiveJobs, Live
    <3>2. inflight # 0
      BY <3>1, FS_EmptySet DEF IInv, OwnerInv, Owned
    <3> QED BY <2>4, <3>2 DEF Warn, IInv, Typed
  <2>5. \A c \in CallsOf(r) : task[c] \in {"running", "draining", "quit", "done"}
    BY <2>2 DEF IInv, PhaseInv, InPhase
  <2>6. run[r].outcome # "none"
    BY <2>2 DEF IInv, PhaseInv, InPhase
  <2> HIDE DEF Warn
  <2> QED BY <1>1, <2>1, <2>2, <2>3, <2>4, <2>5, <2>6, PhaseKeeps DEF Phases
<1> QED BY <1>2, <1>3, <1>4, <1>5
\* No other ticket than that of c is given back or asked for.
TicketsMove(c) ==
    /\ TicketsTyped' /\ SchedulerInv'
    /\ held \ {c} \subseteq held'
    /\ \A d \in held' \ {c} : d \in held \/ \E j \in 1 .. Len(queue) : d = queue[j]
    /\ \A i \in 1 .. Len(queue') :
          queue'[i] = c \/ \E j \in 1 .. Len(queue) : queue'[i] = queue[j]

\* No other call than c makes a step.
OnlyCall(c) ==
    /\ UNCHANGED hostVars
    /\ \A d \in Calls \ {c} :
          /\ task'[d] = task[d] /\ job'[d] = job[d]
          /\ (d \in cancel' <=> d \in cancel) /\ (d \in settled' <=> d \in settled)

\* A step of one call keeps the invariant when it does so for that call.
LEMMA CallKeeps ==
    ASSUME IInv, NEW c \in Calls, OnlyCall(c), TicketsMove(c),
           task'[c] \in TaskStates, job'[c] \in JobStates,
           task' \in [Calls -> TaskStates], job' \in [Calls -> JobStates],
           cancel' \subseteq Calls, settled' \subseteq Calls, inflight' \in Nat,
           Owned(c)', \A i \in 1 .. Len(queue') : queue'[i] = c => task'[c] = "queued",
           inflight' = Cardinality(LiveJobs'),
           \A r \in Runs : c \in CallsOf(r) => InPhase(r, c)'
    PROVE  IInv'
<1>1. Typed'
  BY DEF IInv, Typed, OnlyCall, hostVars, TicketsMove, TicketsTyped
<1>2. ASSUME NEW d \in Calls PROVE Owned(d)'
  <2>1. d \in held' /\ d # c => d \in held \/ task[d] = "queued"
    BY DEF TicketsMove, IInv, OwnerInv
  <2>2. d \in held /\ d # c => d \in held'
    BY DEF TicketsMove
  <2>3. d # c => Owned(d)
    BY DEF IInv, OwnerInv
  <2> QED BY <2>1, <2>2, <2>3 DEF OnlyCall, hostVars, Owned
<1>3. \A i \in 1 .. Len(queue') : task'[queue'[i]] = "queued"
  <2>1. SUFFICES ASSUME NEW i \in 1 .. Len(queue'), queue'[i] # c
                 PROVE  task'[queue'[i]] = "queued"
    OBVIOUS
  <2>2. queue'[i] \in Calls
    BY DEF TicketsMove, TicketsTyped
  <2>3. task[queue'[i]] = "queued"
    BY <2>1 DEF TicketsMove, IInv, OwnerInv
  <2> QED BY <2>1, <2>2, <2>3 DEF OnlyCall
<1>4. OwnerInv'
  BY <1>2, <1>3 DEF OwnerInv
<1>5. PhaseInv'
  <2>1. \A r \in Runs : CallsOf(r)' = CallsOf(r) /\ CallsOf(r) \subseteq Calls
    BY DEF OnlyCall, hostVars, CallsOf
  <2>2. ASSUME NEW r \in Runs, NEW d \in CallsOf(r), d # c PROVE InPhase(r, d)'
    <3>1. InPhase(r, d) /\ d \in Calls
      BY <2>1, <2>2 DEF IInv, PhaseInv
    <3> QED BY <2>2, <3>1 DEF OnlyCall, hostVars, InPhase
  <2> QED BY <2>1, <2>2 DEF IInv, PhaseInv, OnlyCall, hostVars
<1> QED BY <1>1, <1>4, <1>5 DEF IInv, TicketsMove

\* A ticket that is given back, and a step without tickets.
LEMMA GivenBackMoves ==
    ASSUME NEW c \in Calls, GivenBack(c)
    PROVE  /\ TicketsMove(c) /\ c \notin held'
           /\ \A i \in 1 .. Len(queue') : queue'[i] # c
BY DEF GivenBack, GrantedFrom, TicketsMove

\* A step that leaves the scheduler alone moves no ticket.
LEMMA NoTicketMoves ==
    ASSUME IInv, NEW c \in Calls, UNCHANGED <<info, ticketVars>>
    PROVE  TicketsMove(c) /\ UNCHANGED <<queue, held, reads, writer>>
<1>1. TicketsTyped' /\ SchedulerInv'
  BY SchedulerFrame DEF IInv
<1> QED BY <1>1 DEF TicketsMove, ticketVars

\* How the live futures change.
LEMMA LiveJobsCount ==
    ASSUME IInv, NEW c \in Calls
    PROVE  /\ (\A d \in Calls : job'[d] \in Live <=> job[d] \in Live)
              => Cardinality(LiveJobs') = inflight
           /\ /\ \A d \in Calls \ {c} : job'[d] = job[d]
              /\ job[c] \notin Live /\ job'[c] \in Live
              => Cardinality(LiveJobs') = inflight + 1
           /\ /\ \A d \in Calls \ {c} : job'[d] = job[d]
              /\ job[c] \in Live /\ job'[c] \notin Live
              => Cardinality(LiveJobs') = Less(inflight) /\ Less(inflight) \in Nat
<1>1. IsFiniteSet(LiveJobs) /\ Cardinality(LiveJobs) = inflight /\ inflight \in Nat
  BY FS_Subset DEF LiveJobs, IInv, OwnerInv, Typed
<1>2. (\A d \in Calls : job'[d] \in Live <=> job[d] \in Live) => LiveJobs' = LiveJobs
  BY DEF LiveJobs
<1>3. ASSUME \A d \in Calls \ {c} : job'[d] = job[d],
             job[c] \notin Live, job'[c] \in Live
      PROVE  Cardinality(LiveJobs') = inflight + 1
  <2>1. LiveJobs' = LiveJobs \cup {c} /\ c \notin LiveJobs
    BY <1>3 DEF LiveJobs
  <2> QED BY <1>1, <2>1, FS_AddElement
<1>4. ASSUME \A d \in Calls \ {c} : job'[d] = job[d],
             job[c] \in Live, job'[c] \notin Live
      PROVE  Cardinality(LiveJobs') = Less(inflight) /\ Less(inflight) \in Nat
  <2>1. LiveJobs' = LiveJobs \ {c} /\ c \in LiveJobs
    BY <1>4 DEF LiveJobs
  <2>2. Cardinality(LiveJobs') = inflight - 1
    BY <1>1, <2>1, FS_RemoveElement
  <2>3. inflight # 0
    BY <1>1, <2>1, FS_EmptySet
  <2> QED BY <1>1, <2>2, <2>3 DEF Less
<1> QED BY <1>1, <1>2, <1>3, <1>4
\* A task that asks for a ticket joins the end of the queue.
LEMMA AcquireKeeps ==
    ASSUME IInv, NEW c \in Calls, task[c] = "created",
           Grant(Append(queue, c), held, reads, writer), UNCHANGED info
    PROVE  /\ TicketsMove(c)
           /\ \A d \in held' \ held, i \in 1 .. Len(queue') :
                 queue'[i] # c =>
                    \E j, l \in 1 .. Len(queue) :
                       j < l /\ queue[j] = d /\ queue[l] = queue'[i]
<1> DEFINE q == Append(queue, c)
<1>1. c \notin held /\ \A i \in 1 .. Len(queue) : queue[i] # c
  BY DEF IInv, OwnerInv, Owned, Live
<1>2. Known /\ info[c] # NoCall
  BY TicketsKnown DEF IInv, OwnerInv, Owned
<1>3. /\ queue \in Seq(Calls) /\ Len(queue) \in Nat
      /\ q \in Seq(Calls) /\ Len(q) = Len(queue) + 1
      /\ \A i \in 1 .. Len(queue) : q[i] = queue[i]
      /\ q[Len(queue) + 1] = c
  BY DEF IInv, Typed
<1>4. Grant(q, held, reads, writer)
  OBVIOUS
<1> HIDE DEF q
<1>5. \A i \in 1 .. Len(q) : i \in 1 .. Len(queue) \/ i = Len(queue) + 1
  BY <1>3
<1>6. Waiting(q, held)
  BY <1>1, <1>3, <1>5 DEF IInv, SchedulerInv, Waiting, Distinct
<1>7. \A i \in 1 .. Len(q) : info[q[i]] # NoCall
  BY <1>2, <1>3, <1>5 DEF Known
<1>8. /\ held \in SUBSET Calls /\ reads \in Nat /\ writer \in BOOLEAN
      /\ Counters(held, reads, writer)
      /\ \A d \in held : info[d] # NoCall
  BY <1>2 DEF IInv, Typed, SchedulerInv, Known
<1>9. GrantedFrom(q, held)
  BY <1>3, <1>4, <1>6, <1>7, <1>8, GrantKeeps DEF IInv
<1>10. TicketsMove(c)
  <2>1. TicketsTyped' /\ SchedulerInv' /\ held \subseteq held'
    BY <1>9 DEF GrantedFrom
  <2>2. \A d \in held' \ {c} : d \in held \/ \E j \in 1 .. Len(queue) : d = queue[j]
    BY <1>3, <1>5, <1>9 DEF GrantedFrom
  <2>3. \A i \in 1 .. Len(queue') :
           queue'[i] = c \/ \E j \in 1 .. Len(queue) : queue'[i] = queue[j]
    BY <1>3, <1>5, <1>9 DEF GrantedFrom
  <2> QED BY <2>1, <2>2, <2>3 DEF TicketsMove
<1>11. ASSUME NEW d \in held' \ held, NEW i \in 1 .. Len(queue'), queue'[i] # c
       PROVE  \E j, l \in 1 .. Len(queue) :
                 j < l /\ queue[j] = d /\ queue[l] = queue'[i]
  <2>1. PICK j \in 1 .. Len(q), l \in 1 .. Len(q) :
           j < l /\ q[j] = d /\ q[l] = queue'[i]
    BY <1>9 DEF GrantedFrom
  <2>2. l \in 1 .. Len(queue)
    BY <1>3, <1>5, <1>11, <2>1
  <2>3. j \in 1 .. Len(queue)
    BY <1>3, <2>1, <2>2
  <2> QED BY <1>3, <2>1, <2>2, <2>3
<1> QED BY <1>10, <1>11

\* The steps of a task that neither give a ticket back nor touch the pool.
LEMMA TaskKeeps ==
    ASSUME IInv, NEW c \in Calls,
           Dispatch(c) \/ RunOnLoop(c) \/ Delivered(c) \/ Drained(c)
    PROVE  IInv'
<1> USE DEF Live, TaskStates
<1>1. /\ task \in [Calls -> TaskStates] /\ job \in [Calls -> JobStates]
      /\ cancel \subseteq Calls /\ settled \subseteq Calls /\ inflight \in Nat
  BY DEF IInv, Typed
<1>2. Owned(c) /\ \A i \in 1 .. Len(queue) : task[queue[i]] = "queued"
  BY DEF IInv, OwnerInv
<1>3. \A r \in Runs : c \in CallsOf(r) => InPhase(r, c)
  BY DEF IInv, PhaseInv
<1>4. UNCHANGED <<run, info, cancel, job, inflight>>
  BY DEF Dispatch, RunOnLoop, Delivered, Drained, hostVars, poolVars
<1>5. inflight' = Cardinality(LiveJobs')
  BY <1>4, LiveJobsCount
<1>6. ASSUME Dispatch(c) PROVE IInv'
  <2>1. CASE /\ task' = [task EXCEPT ![c] = "draining"]
             /\ settled' = settled \cup {c} /\ UNCHANGED ticketVars
    <3>1. TicketsMove(c) /\ UNCHANGED <<queue, held>>
      BY <1>4, <2>1, NoTicketMoves
    <3>2. OnlyCall(c)
      BY <1>1, <1>4, <2>1 DEF OnlyCall, hostVars
    <3>3. Owned(c)'
      BY <1>1, <1>2, <1>4, <1>6, <2>1, <3>1 DEF Owned, Dispatch
    <3>4. \A r \in Runs : c \in CallsOf(r) => InPhase(r, c)'
      BY <1>1, <1>3, <1>4, <1>6, <2>1 DEF InPhase, Dispatch
    <3> QED BY <1>1, <1>2, <1>4, <1>5, <1>6, <2>1, <3>1, <3>2, <3>3, <3>4, CallKeeps
         DEF Dispatch
  <2>2. CASE /\ task' = [task EXCEPT ![c] = "queued"]
             /\ Grant(Append(queue, c), held, reads, writer) /\ UNCHANGED settled
    <3>1. TicketsMove(c)
      BY <1>4, <1>6, <2>2, AcquireKeeps DEF Dispatch
    <3>2. OnlyCall(c)
      BY <1>1, <1>4, <2>2 DEF OnlyCall, hostVars
    <3>3. Owned(c)'
      BY <1>1, <1>2, <1>4, <1>6, <2>2 DEF Owned, Dispatch
    <3>4. \A r \in Runs : c \in CallsOf(r) => InPhase(r, c)'
      BY <1>1, <1>3, <1>4, <1>6, <2>2 DEF InPhase, Dispatch
    <3> QED BY <1>1, <1>4, <1>5, <2>2, <3>1, <3>2, <3>3, <3>4, CallKeeps
  <2> QED BY <1>6, <2>1, <2>2 DEF Dispatch
<1>7. ASSUME RunOnLoop(c) \/ Delivered(c) \/ Drained(c) PROVE IInv'
  <2>1. TicketsMove(c) /\ UNCHANGED <<queue, held>>
    BY <1>4, <1>7, NoTicketMoves DEF RunOnLoop, Delivered, Drained
  <2>2. OnlyCall(c)
    BY <1>1, <1>4, <1>7 DEF OnlyCall, hostVars, RunOnLoop, Delivered, Drained,
       Settle
  <2>3. Owned(c)'
    BY <1>1, <1>2, <1>4, <1>7, <2>1 DEF Owned, RunOnLoop, Delivered, Drained, Settle
  <2>4. \A r \in Runs : c \in CallsOf(r) => InPhase(r, c)'
    BY <1>1, <1>2, <1>3, <1>4, <1>7
       DEF InPhase, Owned, RunOnLoop, Delivered, Drained, Settle
  <2>5. \A i \in 1 .. Len(queue') : queue'[i] # c
    <3>1. ASSUME RunOnLoop(c), NEW i \in 1 .. Len(queue) PROVE queue[i] # c
      BY <3>1 DEF RunOnLoop, IInv, SchedulerInv, Waiting
    <3> QED BY <1>2, <1>7, <2>1, <3>1 DEF Delivered, Drained
  <2>6. task' \in [Calls -> TaskStates] /\ settled' \subseteq Calls
    BY <1>1, <1>7 DEF RunOnLoop, Delivered, Drained, Settle
  <2> QED BY <1>1, <1>4, <1>5, <2>1, <2>2, <2>3, <2>4, <2>5, <2>6, CallKeeps
<1> QED BY <1>6, <1>7
\* The steps that give a ticket back, on the loop and on a thread of the pool, and
\* the steps of the pool that touch no ticket.
LEMMA GiveBackKeeps ==
    ASSUME IInv, NEW c \in Calls,
           OffloadRefused(c) \/ HandlerEnds(c) \/ PoolEnd(c) \/ SeeCancel(c)
    PROVE  IInv'
<1> USE DEF Live, TaskStates, JobStates
<1>1. /\ task \in [Calls -> TaskStates] /\ job \in [Calls -> JobStates]
      /\ cancel \subseteq Calls /\ settled \subseteq Calls /\ inflight \in Nat
  BY DEF IInv, Typed
<1>2. Owned(c) /\ \A i \in 1 .. Len(queue) : task[queue[i]] = "queued"
  BY DEF IInv, OwnerInv
<1>3. \A r \in Runs : c \in CallsOf(r) => InPhase(r, c)
  BY DEF IInv, PhaseInv
<1>4. UNCHANGED <<run, info>>
  BY DEF OffloadRefused, HandlerEnds, PoolEnd, SeeCancel, hostVars
<1>5. Typed /\ SchedulerInv /\ Known
  BY TicketsKnown DEF IInv
<1>6. Release(c) /\ c \in held => TicketsMove(c) /\ c \notin held'
                                  /\ \A i \in 1 .. Len(queue') : queue'[i] # c
  BY <1>4, <1>5, ReleaseKeeps, GivenBackMoves
<1>7. ASSUME OffloadRefused(c) PROVE IInv'
  <2>1. TicketsMove(c) /\ c \notin held' /\ \A i \in 1 .. Len(queue') : queue'[i] # c
    BY <1>6, <1>7 DEF OffloadRefused
  <2>2. UNCHANGED <<cancel, job, inflight>>
    BY <1>7 DEF OffloadRefused
  <2>3. inflight' = Cardinality(LiveJobs')
    BY <2>2, LiveJobsCount
  <2>4. OnlyCall(c) /\ task' \in [Calls -> TaskStates] /\ settled' \subseteq Calls
    BY <1>1, <1>4, <1>7 DEF OnlyCall, hostVars, OffloadRefused
  <2>5. Owned(c)'
    BY <1>1, <1>2, <1>4, <1>7, <2>1 DEF Owned, OffloadRefused
  <2>6. \A r \in Runs : c \in CallsOf(r) => InPhase(r, c)'
    BY <1>1, <1>2, <1>3, <1>4, <1>7 DEF InPhase, Owned, OffloadRefused
  <2> QED BY <1>1, <2>1, <2>2, <2>3, <2>4, <2>5, <2>6, CallKeeps
<1>8. ASSUME HandlerEnds(c) PROVE IInv'
  <2>1. TicketsMove(c) /\ c \notin held' /\ \A i \in 1 .. Len(queue') : queue'[i] # c
    BY <1>2, <1>6, <1>8 DEF HandlerEnds, Owned
  <2>2. /\ inflight' = inflight /\ job[c] \notin Live
        /\ job' = job \/ job' = [job EXCEPT ![c] = "adrift"]
    BY <1>2, <1>8 DEF HandlerEnds, LeaveThread, Owned
  <2>3. /\ job' \in [Calls -> JobStates] /\ job'[c] \in {job[c], "adrift"}
        /\ \A d \in Calls \ {c} : job'[d] = job[d]
    BY <1>1, <2>2
  <2>4. inflight' = Cardinality(LiveJobs')
    <3>1. \A d \in Calls : job'[d] \in Live <=> job[d] \in Live
      BY <2>2, <2>3
    <3> QED BY <2>2, <3>1, LiveJobsCount
  <2>5. /\ task'[c] \in {"draining", "quit"} /\ task' \in [Calls -> TaskStates]
        /\ task'[c] = "draining" <=> c \in settled'
        /\ settled' \subseteq Calls
        /\ \A d \in Calls \ {c} : /\ task'[d] = task[d]
                                  /\ d \in settled' <=> d \in settled
    BY <1>1, <1>2, <1>8 DEF HandlerEnds, Settle, Owned
  <2>6. cancel' = cancel \ {c}
    BY <1>8 DEF HandlerEnds
  <2>7. OnlyCall(c)
    BY <1>4, <2>3, <2>5, <2>6 DEF OnlyCall, hostVars
  <2>8. Owned(c)'
    BY <1>2, <1>4, <1>8, <2>1, <2>2, <2>3, <2>5, <2>6 DEF Owned, HandlerEnds
  <2>9. \A r \in Runs : c \in CallsOf(r) => InPhase(r, c)'
    BY <1>3, <1>4, <1>8, <2>2, <2>3, <2>5, <2>6 DEF InPhase, HandlerEnds
  <2> QED BY <1>1, <2>1, <2>2, <2>3, <2>4, <2>5, <2>6, <2>7, <2>8, <2>9, CallKeeps
<1>9. ASSUME PoolEnd(c) PROVE IInv'
  <2>1. TicketsMove(c) /\ c \notin held' /\ \A i \in 1 .. Len(queue') : queue'[i] # c
    BY <1>2, <1>6, <1>9 DEF PoolEnd, Owned
  <2>2. UNCHANGED <<task, cancel, settled>> /\ job' = [job EXCEPT ![c] = "finished"]
    BY <1>9 DEF PoolEnd, taskVars
  <2>3. inflight' = Cardinality(LiveJobs') /\ inflight' \in Nat
    BY <1>1, <1>9, <2>2, LiveJobsCount DEF PoolEnd
  <2>4. OnlyCall(c) /\ job' \in [Calls -> JobStates]
    BY <1>1, <1>4, <2>2 DEF OnlyCall, hostVars
  <2>5. Owned(c)'
    BY <1>1, <1>2, <1>4, <1>9, <2>1, <2>2 DEF Owned, PoolEnd
  <2>6. \A r \in Runs : c \in CallsOf(r) => InPhase(r, c)'
    BY <1>1, <1>3, <1>4, <2>2 DEF InPhase
  <2> QED BY <1>1, <2>1, <2>2, <2>3, <2>4, <2>5, <2>6, CallKeeps
\* The cancellation of a task: its ticket, and the work it may have offloaded.
<1>10. ASSUME SeeCancel(c) PROVE IInv'
  <2>1. task' = [task EXCEPT ![c] = "done"] /\ cancel' = cancel \ {c}
        /\ UNCHANGED settled /\ c \in cancel
    BY <1>10 DEF SeeCancel
  <2>2. /\ task' \in [Calls -> TaskStates]
        /\ settled' \subseteq Calls /\ cancel' \subseteq Calls /\ task'[c] = "done"
    BY <1>1, <2>1
  <2>3. ASSUME c \notin settled, NEW r \in Runs, c \in CallsOf(r)
        PROVE  run[r].phase \notin {"reading", "blocked"}
    BY <1>3, <2>1, <2>3 DEF InPhase
  <2>4. ASSUME OnlyCall(c), TicketsMove(c), Owned(c)',
               \A i \in 1 .. Len(queue') : queue'[i] # c,
               job' \in [Calls -> JobStates], inflight' \in Nat,
               inflight' = Cardinality(LiveJobs'),
               job'[c] = "running" => job[c] = "running"
        PROVE  IInv'
    <3>1. \A r \in Runs : c \in CallsOf(r) => InPhase(r, c)'
      <4>1. task[c] # "quit"
        BY <1>2, <2>1 DEF Owned
      <4> QED BY <1>1, <1>3, <1>4, <2>1, <2>2, <2>3, <2>4, <4>1 DEF InPhase
    <3> QED BY <2>2, <2>4, <3>1, CallKeeps
  <2>5. CASE task[c] = "queued" /\ Abandon(c) /\ UNCHANGED poolVars
    <3>1. TicketsMove(c) /\ c \notin held' /\ \A i \in 1 .. Len(queue') : queue'[i] # c
      BY <1>4, <1>5, <2>5, AbandonKeeps, GivenBackMoves
    <3>2. UNCHANGED <<job, inflight>>
      BY <2>5 DEF poolVars
    <3>3. inflight' = Cardinality(LiveJobs')
      BY <3>2, LiveJobsCount
    <3>4. OnlyCall(c)
      BY <1>1, <1>4, <2>1, <3>2 DEF OnlyCall, hostVars
    <3>5. Owned(c)'
      BY <1>2, <1>4, <2>1, <2>2, <2>5, <3>1, <3>2 DEF Owned
    <3> QED BY <1>1, <2>4, <3>1, <3>2, <3>3, <3>4, <3>5
  <2>6. CASE /\ task[c] = "waiting" /\ job[c] \in {"queued", "taken"}
             /\ job' = [job EXCEPT ![c] = "cancelled"]
             /\ inflight' = Less(inflight) /\ Release(c)
    <3>1. TicketsMove(c) /\ c \notin held' /\ \A i \in 1 .. Len(queue') : queue'[i] # c
      BY <1>2, <1>6, <2>6 DEF Owned
    <3>2. inflight' = Cardinality(LiveJobs') /\ inflight' \in Nat
      BY <1>1, <2>6, LiveJobsCount
    <3>3. OnlyCall(c) /\ job' \in [Calls -> JobStates]
      BY <1>1, <1>4, <2>1, <2>6 DEF OnlyCall, hostVars
    <3>4. Owned(c)'
      BY <1>1, <1>2, <1>4, <2>1, <2>2, <2>6, <3>1 DEF Owned
    <3> QED BY <1>1, <2>4, <2>6, <3>1, <3>2, <3>3, <3>4
  <2>7. CASE /\ task[c] \in {"waiting", "created", "draining"}
             /\ job[c] \notin {"queued", "taken"}
             /\ UNCHANGED <<job, inflight, ticketVars>>
    <3>1. TicketsMove(c) /\ UNCHANGED <<queue, held>>
      BY <1>4, <2>7, NoTicketMoves
    <3>2. inflight' = Cardinality(LiveJobs')
      BY <2>7, LiveJobsCount
    <3>3. OnlyCall(c)
      BY <1>1, <1>4, <2>1, <2>7 DEF OnlyCall, hostVars
    <3>4. Owned(c)'
      BY <1>1, <1>2, <1>4, <2>1, <2>2, <2>7, <3>1 DEF Owned
    <3>5. \A i \in 1 .. Len(queue') : queue'[i] # c
      BY <1>2, <2>7, <3>1
    <3> QED BY <1>1, <2>4, <2>7, <3>1, <3>2, <3>3, <3>4, <3>5
  <2>8. CASE task[c] = "running" /\ Release(c) /\ LeaveThread(c)
    <3>1. TicketsMove(c) /\ c \notin held' /\ \A i \in 1 .. Len(queue') : queue'[i] # c
      BY <1>2, <1>6, <2>8 DEF Owned
    <3>2. /\ inflight' = inflight /\ job[c] \notin Live
          /\ job' = job \/ job' = [job EXCEPT ![c] = "adrift"]
      BY <1>2, <2>8 DEF LeaveThread, Owned
    <3>3. /\ job' \in [Calls -> JobStates] /\ job'[c] \in {job[c], "adrift"}
          /\ \A d \in Calls \ {c} : job'[d] = job[d]
      BY <1>1, <3>2
    <3>4. inflight' = Cardinality(LiveJobs')
      <4>1. \A d \in Calls : job'[d] \in Live <=> job[d] \in Live
        BY <3>2, <3>3
      <4> QED BY <3>2, <4>1, LiveJobsCount
    <3>5. OnlyCall(c)
      BY <1>1, <1>4, <2>1, <3>3 DEF OnlyCall, hostVars
    <3>6. Owned(c)'
      BY <1>2, <1>4, <2>1, <2>2, <2>8, <3>1, <3>2, <3>3 DEF Owned
    <3> QED BY <1>1, <2>4, <3>1, <3>2, <3>3, <3>4, <3>5, <3>6
  <2>9. task[c] \in {"created", "draining"} => job[c] \notin {"queued", "taken"}
    BY <1>2 DEF Owned
  <2> QED BY <1>10, <2>5, <2>6, <2>7, <2>8, <2>9
       DEF SeeCancel, CancelAcquire, CancelOffloaded, poolVars
<1> QED BY <1>7, <1>8, <1>9, <1>10
\* Nothing changes but the pool's queue.
LEMMA StutterKeeps ==
    ASSUME IInv, UNCHANGED <<hostVars, taskVars, ticketVars, job, inflight>>
    PROVE  IInv'
<1>1. UNCHANGED <<run, info, task, cancel, settled, queue, held, reads, writer, job,
                  inflight>>
  BY DEF hostVars, taskVars, ticketVars
<1>2. TicketsTyped' /\ SchedulerInv'
  BY <1>1, SchedulerFrame DEF IInv
<1>3. Typed'
  BY <1>1 DEF IInv, Typed
<1>4. OwnerInv'
  BY <1>1 DEF IInv, OwnerInv, Owned, LiveJobs
<1>5. PhaseInv'
  BY <1>1 DEF IInv, PhaseInv, InPhase, CallsOf
<1> QED BY <1>2, <1>3, <1>4, <1>5 DEF IInv

\* The steps of threads that give no ticket back: a call is submitted, taken and
\* started, and a thread that was left behind ends.
LEMMA PoolKeeps ==
    ASSUME IInv, NEW c \in Calls,
           \/ Offload(c) \/ PoolRun(c) \/ AdriftEnds(c)
           \/ (PoolTake /\ c = Head(work))
    PROVE  IInv'
<1> USE DEF Live, TaskStates, JobStates
<1>1. /\ task \in [Calls -> TaskStates] /\ job \in [Calls -> JobStates]
      /\ cancel \subseteq Calls /\ settled \subseteq Calls /\ inflight \in Nat
  BY DEF IInv, Typed
<1>2. Owned(c) /\ \A i \in 1 .. Len(queue) : task[queue[i]] = "queued"
  BY DEF IInv, OwnerInv
<1>3. \A r \in Runs : c \in CallsOf(r) => InPhase(r, c)
  BY DEF IInv, PhaseInv
<1>4. UNCHANGED <<run, info, cancel, settled, ticketVars>>
  BY DEF Offload, PoolRun, AdriftEnds, PoolTake, hostVars, taskVars
<1>5. TicketsMove(c) /\ UNCHANGED <<queue, held>>
  BY <1>4, NoTicketMoves
<1>6. ASSUME Offload(c) PROVE IInv'
  <2>1. job[c] \notin Live
    BY <1>2, <1>6 DEF Owned, Offload
  <2>2. inflight' = Cardinality(LiveJobs') /\ inflight' \in Nat
    BY <1>1, <1>6, <2>1, LiveJobsCount DEF Offload
  <2>3. OnlyCall(c) /\ task' \in [Calls -> TaskStates] /\ job' \in [Calls -> JobStates]
    BY <1>1, <1>4, <1>6 DEF OnlyCall, hostVars, Offload
  <2>4. Owned(c)'
    BY <1>1, <1>2, <1>4, <1>5, <1>6 DEF Owned, Offload
  <2>5. \A r \in Runs : c \in CallsOf(r) => InPhase(r, c)'
    BY <1>1, <1>3, <1>4, <1>6 DEF InPhase, Offload
  <2>6. \A i \in 1 .. Len(queue') : queue'[i] # c
    BY <1>5, <1>6 DEF Offload, IInv, SchedulerInv, Waiting
  <2> QED BY <1>1, <1>4, <1>5, <2>2, <2>3, <2>4, <2>5, <2>6, CallKeeps
<1>7. ASSUME PoolRun(c) \/ AdriftEnds(c) \/ (PoolTake /\ c = Head(work)) PROVE IInv'
  <2>1. UNCHANGED <<task, inflight>>
    BY <1>7 DEF PoolRun, AdriftEnds, PoolTake, taskVars
  <2>2. /\ \A d \in Calls : job'[d] \in Live <=> job[d] \in Live
        /\ job' \in [Calls -> JobStates] /\ \A d \in Calls \ {c} : job'[d] = job[d]
    BY <1>1, <1>7 DEF PoolRun, AdriftEnds, PoolTake
  <2>3. inflight' = Cardinality(LiveJobs')
    BY <2>1, <2>2, LiveJobsCount
  <2>4. OnlyCall(c)
    BY <1>4, <2>1, <2>2 DEF OnlyCall, hostVars
  <2>5. \/ job'[c] = job[c]
        \/ job[c] = "queued" /\ job'[c] = "taken"
        \/ job[c] = "taken" /\ job'[c] = "running"
        \/ job[c] = "adrift" /\ job'[c] = "none"
    BY <1>1, <1>7 DEF PoolRun, AdriftEnds, PoolTake
  <2>6. Owned(c)'
    BY <1>1, <1>2, <1>4, <1>5, <2>1, <2>5 DEF Owned
  <2>7. \A r \in Runs : c \in CallsOf(r) => InPhase(r, c)'
    BY <1>2, <1>3, <1>4, <2>1, <2>5 DEF InPhase, Owned
  <2> QED BY <1>1, <1>2, <1>4, <1>5, <2>1, <2>2, <2>3, <2>4, <2>6, <2>7, CallKeeps
<1> QED BY <1>6, <1>7

\* A call is read.  It had no task, no ticket and no future before.
LEMMA ReadCallKeeps ==
    ASSUME IInv, NEW r \in Runs, NEW c \in Calls, ReadCall(r, c)
    PROVE  IInv'
<1> USE DEF Live, TaskStates
<1>1. Typed /\ SchedulerInv /\ OwnerInv /\ PhaseInv /\ Owned(c)
  BY DEF IInv, OwnerInv
<1>2. /\ run[r].phase = "reading" /\ info[c] = NoCall
      /\ UNCHANGED <<cancel, queue, held, ticketVars, job, inflight>>
  BY DEF ReadCall, ticketVars, poolVars
<1>3. PICK k \in Kinds, p \in Places :
         info' = [info EXCEPT ![c] = [run |-> r, kind |-> k, place |-> p]]
  BY DEF ReadCall
<1>4. info'[c] = [run |-> r, kind |-> k, place |-> p] /\ info'[c].run = r
  BY <1>1, <1>3 DEF Typed
<1>5. info'[c] # NoCall
  BY <1>4 DEF NoCall
<1>6. \A d \in Calls \ {c} : info'[d] = info[d]
  BY <1>1, <1>3 DEF Typed
<1>7. \/ /\ task' = [task EXCEPT ![c] = "created"] /\ UNCHANGED <<run, settled>>
      \/ /\ task' = [task EXCEPT ![c] = "unslotted"] /\ UNCHANGED settled
         /\ run' = [run EXCEPT ![r].phase = "blocked"]
      \/ /\ task' = [task EXCEPT ![c] = "done"] /\ UNCHANGED run
         /\ settled' = settled \cup {c}
  BY DEF ReadCall
<1>8. /\ task' \in [Calls -> TaskStates] /\ settled' \subseteq Calls
      /\ task'[c] \in {"created", "unslotted", "done"}
      /\ \A d \in Calls \ {c} : task'[d] = task[d] /\ (d \in settled' <=> d \in settled)
      /\ task'[c] = "done" => c \in settled'
      /\ c \in settled' => c \in settled \/ task'[c] = "done"
  BY <1>1, <1>7 DEF Typed
<1>9. /\ run' \in [Runs -> [phase : Phases, outcome : Outcomes, warned : BOOLEAN]]
      /\ \A s \in Runs \ {r} : run'[s] = run[s]
      /\ run'[r].phase = IF task'[c] = "unslotted" THEN "blocked" ELSE "reading"
      /\ run'[r].outcome = run[r].outcome /\ run'[r].warned = run[r].warned
  <2>1. run \in [Runs -> [phase : Phases, outcome : Outcomes, warned : BOOLEAN]]
    BY <1>1 DEF Typed
  <2>2. task'[c] = "unslotted" <=> task' = [task EXCEPT ![c] = "unslotted"]
    BY <1>1, <1>7 DEF Typed
  <2> QED BY <1>1, <1>2, <1>7, <2>1, <2>2 DEF Phases, Typed
<1>10. Typed'
  <2>1. info' \in [Calls -> {NoCall} \cup [run : Runs, kind : Kinds, place : Places]]
    BY <1>1, <1>3 DEF Typed
  <2> QED BY <1>1, <1>2, <1>8, <1>9, <2>1 DEF Typed, ticketVars
<1>11. SchedulerInv'
  BY <1>1, <1>2, <1>6, SchedulerFrame
<1>12. task[c] = "none" /\ job[c] = "none" /\ c \notin held /\ c \notin cancel
       /\ c \notin settled /\ \A i \in 1 .. Len(queue) : queue[i] # c
  BY <1>1, <1>2 DEF OwnerInv, Owned, Typed, JobStates
<1>13. OwnerInv'
  <2>1. LiveJobs' = LiveJobs
    BY <1>2 DEF LiveJobs
  <2>2. Owned(c)'
    BY <1>2, <1>5, <1>8, <1>12 DEF Owned
  <2>3. ASSUME NEW d \in Calls \ {c} PROVE Owned(d)'
    BY <1>1, <1>2, <1>6, <1>8 DEF Owned, OwnerInv
  <2>4. \A i \in 1 .. Len(queue) : queue[i] \in Calls
    BY <1>1 DEF Typed
  <2> QED BY <1>1, <1>2, <1>8, <1>12, <2>1, <2>2, <2>3, <2>4 DEF OwnerInv
<1>14. PhaseInv'
  <2>1. \A s \in Runs : CallsOf(s) \subseteq Calls /\ c \notin CallsOf(s)
    BY <1>2 DEF CallsOf, NoCall
  <2>2. /\ CallsOf(r)' = CallsOf(r) \cup {c}
        /\ \A s \in Runs \ {r} : CallsOf(s)' = CallsOf(s)
    BY <1>4, <1>6, <1>2 DEF CallsOf, NoCall
  <2>3. run[r].outcome = "none"
    BY <1>1, <1>2 DEF PhaseInv
  <2>4. InPhase(r, c)'
    BY <1>2, <1>8, <1>9, <1>12, <2>3 DEF InPhase
  <2>5. ASSUME NEW d \in CallsOf(r) PROVE InPhase(r, d)'
    <3>1. InPhase(r, d) /\ d \in Calls \ {c}
      BY <1>1, <2>1 DEF PhaseInv
    <3> QED BY <1>2, <1>8, <1>9, <2>3, <3>1 DEF InPhase
  <2>6. ASSUME NEW s \in Runs \ {r}, NEW d \in CallsOf(s) PROVE InPhase(s, d)'
    <3>1. InPhase(s, d) /\ d \in Calls \ {c}
      BY <1>1, <2>1 DEF PhaseInv
    <3> QED BY <1>2, <1>8, <1>9, <3>1 DEF InPhase
  <2> QED BY <1>1, <1>9, <2>2, <2>3, <2>4, <2>5, <2>6 DEF PhaseInv
<1> QED BY <1>10, <1>11, <1>13, <1>14 DEF IInv

\* The waiting read loop gets its slot.
LEMMA TakeSlotKeeps ==
    ASSUME IInv, NEW r \in Runs, TakeSlot(r)
    PROVE  IInv'
<1>1. Typed /\ SchedulerInv /\ OwnerInv /\ PhaseInv
  BY DEF IInv
<1>2. /\ run[r].phase = "blocked"
      /\ UNCHANGED <<info, cancel, settled, queue, held, reads, writer, job, inflight>>
  BY DEF TakeSlot, ticketVars, poolVars
<1>3. /\ run' \in [Runs -> [phase : Phases, outcome : Outcomes, warned : BOOLEAN]]
      /\ \A s \in Runs \ {r} : run'[s] = run[s]
      /\ run'[r].phase = "reading" /\ run'[r].outcome = run[r].outcome
  BY <1>1 DEF TakeSlot, Typed, Phases
<1>4. /\ task' \in [Calls -> TaskStates]
      /\ \A d \in Calls : \/ task'[d] = task[d]
                          \/ /\ d \in CallsOf(r) /\ task[d] = "unslotted"
                             /\ task'[d] = "created"
      /\ \A d \in CallsOf(r) : task'[d] # "unslotted"
  BY <1>1 DEF TakeSlot, Typed, TaskStates, CallsOf
<1>5. Typed'
  BY <1>1, <1>2, <1>3, <1>4 DEF Typed
<1>6. SchedulerInv'
  BY <1>1, <1>2, SchedulerFrame DEF ticketVars
<1>7. OwnerInv'
  <2>1. LiveJobs' = LiveJobs
    BY <1>2 DEF LiveJobs
  <2>2. \A d \in Calls : Owned(d)'
    BY <1>1, <1>2, <1>4 DEF OwnerInv, Owned, Live
  <2>3. \A i \in 1 .. Len(queue) : queue[i] \in Calls
    BY <1>1 DEF Typed
  <2> QED BY <1>1, <1>2, <1>4, <2>1, <2>2, <2>3 DEF OwnerInv
<1>8. PhaseInv'
  <2>1. \A s \in Runs : CallsOf(s)' = CallsOf(s) /\ CallsOf(s) \subseteq Calls
    BY <1>2 DEF CallsOf
  <2>2. run[r].outcome = "none"
    BY <1>1, <1>2 DEF PhaseInv
  <2>3. ASSUME NEW d \in CallsOf(r) PROVE InPhase(r, d)'
    <3>1. InPhase(r, d)
      BY <1>1 DEF PhaseInv
    <3> QED BY <1>2, <1>3, <1>4, <2>1, <2>2, <3>1 DEF InPhase
  <2>4. ASSUME NEW s \in Runs \ {r}, NEW d \in CallsOf(s) PROVE InPhase(s, d)'
    <3>1. InPhase(s, d) /\ d \in Calls /\ d \notin CallsOf(r)
      BY <1>1, <2>1 DEF PhaseInv, CallsOf
    <3> QED BY <1>2, <1>3, <1>4, <3>1 DEF InPhase
  <2> QED BY <1>1, <1>3, <2>1, <2>2, <2>3, <2>4 DEF PhaseInv
<1> QED BY <1>5, <1>6, <1>7, <1>8 DEF IInv
-----------------------------------------------------------------------------
(* The theorems *)

\* The runs start in the invariant.
LEMMA InitHolds == Init => IInv
<1> SUFFICES ASSUME Init PROVE IInv
  OBVIOUS
<1>1. MaxParallel \in Nat \ {0}
  OBVIOUS
<1>2. Typed
  <2>1. run \in [Runs -> [phase : Phases, outcome : Outcomes, warned : BOOLEAN]]
    BY DEF Init, Phases, Outcomes
  <2>2. info \in [Calls -> {NoCall} \cup [run : Runs, kind : Kinds, place : Places]]
    BY DEF Init
  <2>3. /\ task \in [Calls -> TaskStates] /\ job \in [Calls -> JobStates]
        /\ cancel \subseteq Calls /\ settled \subseteq Calls /\ held \subseteq Calls
    BY DEF Init, TaskStates, JobStates
  <2>4. queue \in Seq(Calls) /\ reads \in Nat /\ inflight \in Nat
    BY DEF Init
  <2>5. writer \in BOOLEAN
    BY Zenon DEF Init
  <2> QED BY <2>1, <2>2, <2>3, <2>4, <2>5 DEF Typed
<1>3. SchedulerInv
  <2>1. Cardinality({c \in held : Reader(c)}) = 0
    BY FS_EmptySet DEF Init
  <2> QED BY <1>1, <2>1 DEF Init, SchedulerInv, Waiting, Distinct, Counters, NoLostWakeup
<1>4. OwnerInv
  <2>1. LiveJobs = {}
    BY DEF Init, LiveJobs, Live
  <2> QED BY <2>1, FS_EmptySet DEF Init, OwnerInv, Owned, Live
<1>5. PhaseInv
  <2>1. \A r \in Runs : CallsOf(r) = {}
    BY DEF Init, CallsOf, NoCall
  <2> QED BY <2>1 DEF Init, PhaseInv
<1> QED BY <1>2, <1>3, <1>4, <1>5 DEF IInv

\* Every step of the host, of a task and of the pool keeps the invariant.
LEMMA StepKeeps ==
    ASSUME IInv, Next PROVE IInv'
<1>1. ASSUME NEW r \in Runs,
             \/ Start(r) \/ SpawnFails(r) \/ ReadCallOverBudget(r)
             \/ ReadSuccess(r) \/ ReadFailure(r)
      PROVE  IInv'
  BY <1>1, LoopKeeps
<1>2. ASSUME NEW r \in Runs, Timeout(r) \/ Cancel(r) \/ Stopped(r) \/ Close(r)
      PROVE  IInv'
  BY <1>2, EndKeeps
<1>3. ASSUME NEW r \in Runs, TakeSlot(r) PROVE IInv'
  BY <1>3, TakeSlotKeeps
<1>4. ASSUME NEW r \in Runs, NEW c \in Calls, ReadCall(r, c) PROVE IInv'
  BY <1>4, ReadCallKeeps
<1>5. ASSUME NEW c \in Calls,
             Dispatch(c) \/ RunOnLoop(c) \/ Delivered(c) \/ Drained(c)
      PROVE  IInv'
  BY <1>5, TaskKeeps
<1>6. ASSUME NEW c \in Calls,
             OffloadRefused(c) \/ HandlerEnds(c) \/ PoolEnd(c) \/ SeeCancel(c)
      PROVE  IInv'
  BY <1>6, GiveBackKeeps
<1>7. ASSUME NEW c \in Calls, Offload(c) \/ PoolRun(c) \/ AdriftEnds(c) PROVE IInv'
  BY <1>7, PoolKeeps
<1>8. ASSUME PoolTake PROVE IInv'
  <2>1. CASE Head(work) \in Calls
    BY <1>8, <2>1, PoolKeeps
  <2>2. CASE Head(work) \notin Calls
    <3>1. job' = job
      BY <1>8, <2>2 DEF PoolTake, IInv, Typed
    <3> QED BY <1>8, <3>1, StutterKeeps DEF PoolTake
  <2> QED BY <2>1, <2>2
<1> QED BY <1>1, <1>2, <1>3, <1>4, <1>5, <1>6, <1>7, <1>8 DEF Next

\* The inductive invariant holds in every behaviour of the bridge.
THEOREM Invariance == Spec => []IInv
<1>1. IInv /\ [Next]_vars => IInv'
  <2>1. ASSUME IInv, UNCHANGED vars PROVE IInv'
    BY <2>1, StutterKeeps DEF vars, hostVars, taskVars, ticketVars
  <2> QED BY <2>1, StepKeeps
<1> QED BY <1>1, InitHolds, PTL DEF Spec

\* The variables of the session, of the scheduler and of the pool keep their types
\* (all but the list of entries in the pool's queue).
THEOREM TypesHold == Spec => []Typed
BY Invariance, PTL DEF IInv

\* No ticket leaks, is counted twice or is left without an owner, whichever way a
\* call is refused, cancelled, timed out or finished late.
THEOREM TicketsAreOwned == Spec => []TicketsOwned
<1>1. IInv => TicketsOwned
  <2>1. SUFFICES ASSUME IInv PROVE TicketsOwned
    OBVIOUS
  <2>2. \A c \in held : task[c] \in {"queued", "running"} \/ job[c] \in Live
    BY <2>1 DEF IInv, Typed, OwnerInv, Owned
  <2> QED BY <2>1, <2>2
       DEF TicketsOwned, IInv, SchedulerInv, Counters, Reader, Writer, Live
<1> QED BY <1>1, Invariance, PTL

\* Of the handlers that execute on the loop or in the pool, for a run that goes on
\* or has ended, a write handler is alone and at most max_parallel others are
\* together.  Nothing is said of the threads that handlers on the loop have left
\* behind: these hold no ticket.
THEOREM ExclusionHolds == Spec => []Exclusive
<1>1. IInv => Exclusive
  <2>1. SUFFICES ASSUME IInv PROVE Exclusive
    OBVIOUS
  <2> DEFINE E == {c \in Calls : Covered(c)}
             R == {c \in held : Reader(c)}
  <2>2. \A c \in E : c \in held
    BY <2>1 DEF IInv, OwnerInv, Owned, Live, Executing, Covered
  <2>3. \A c, d \in E : Writer(c) => c = d
    BY <2>1, <2>2 DEF IInv, SchedulerInv, Counters
  <2>4. IsFiniteSet(E) /\ IsFiniteSet(R)
    BY <2>1, FS_Subset DEF IInv, Typed
  <2>5. Cardinality(E) <= MaxParallel
    <3>1. CASE \E c \in E : Writer(c)
      <4>1. PICK c \in E : Writer(c)
        BY <3>1
      <4>2. E = {c}
        BY <2>3, <4>1
      <4> QED BY <4>2, FS_Singleton
    <3>2. CASE \A c \in E : ~Writer(c)
      <4>1. Known
        BY <2>1, TicketsKnown DEF IInv
      <4>2. E \subseteq R
        BY <2>1, <2>2, <3>2, <4>1 DEF Known, IInv, Typed, NoCall, Kinds, Reader, Writer
      <4>3. Cardinality(R) = reads /\ reads <= MaxParallel /\ reads \in Nat
        BY <2>1 DEF IInv, SchedulerInv, Counters, Typed
      <4> HIDE DEF E, R
      <4>4. Cardinality(E) <= Cardinality(R) /\ Cardinality(E) \in Nat
        BY <2>4, <4>2, FS_Subset, FS_CardinalityType
      <4> QED BY <4>3, <4>4
    <3> QED BY <3>1, <3>2
  <2> QED BY <2>3, <2>5 DEF Exclusive, Writer
<1> QED BY <1>1, Invariance, PTL

\* The head of the queue never waits for a ticket it could have: no change that
\* lets it start forgets to wake it up.
THEOREM WakeupsAreNotLost == Spec => []NoLostWakeup
<1>1. IInv => NoLostWakeup
  BY DEF IInv, SchedulerInv
<1> QED BY <1>1, Invariance, PTL

\* A success is reported only when every call was answered, but for those whose
\* handler raised CancelledError, and none executes, but for threads left behind;
\* and a result that leaves a blocking handler behind in the pool warns about it.
THEOREM OutcomesAreHonest == Spec => []OutcomeHonest
<1>1. IInv => OutcomeHonest
  <2>1. SUFFICES ASSUME IInv PROVE OutcomeHonest
    OBVIOUS
  <2>2. \A r \in Runs : \A c \in CallsOf(r) : c \in Calls /\ Owned(c) /\ InPhase(r, c)
    BY <2>1 DEF IInv, OwnerInv, PhaseInv, CallsOf
  <2>3. HonestSuccess
    BY <2>2 DEF HonestSuccess, Owned, InPhase, Executing, Covered, Live
  <2>4. BackgroundWarned
    BY <2>2 DEF BackgroundWarned, InPhase, CallsOf
  <2> QED BY <2>3, <2>4 DEF OutcomeHonest
<1> QED BY <1>1, Invariance, PTL

\* A handler starts on the loop with its ticket, and on a thread from the queue.
LEMMA HandlerStarts ==
    ASSUME Typed, Next, NEW c \in Calls, ~Executing(c), Executing(c)'
    PROVE  task[c] = "queued" \/ job[c] = "taken"
<1>1. ASSUME NEW r \in Runs,
             \/ Start(r) \/ SpawnFails(r) \/ ReadCallOverBudget(r) \/ TakeSlot(r)
             \/ ReadSuccess(r) \/ ReadFailure(r) \/ Timeout(r) \/ Cancel(r)
             \/ Stopped(r) \/ Close(r)
      PROVE  FALSE
  <2>1. job' = job
    BY <1>1 DEF Start, SpawnFails, ReadCallOverBudget, TakeSlot, ReadSuccess,
                ReadFailure, Timeout, Cancel, Stopped, Close, poolVars
  <2>2. task'[c] \in {task[c], "done", "created"}
    BY <1>1 DEF Start, SpawnFails, ReadCallOverBudget, TakeSlot, ReadSuccess,
                ReadFailure, Timeout, Cancel, Stopped, Close, taskVars, Stop
  <2> QED BY <2>1, <2>2 DEF Executing
<1>2. ASSUME NEW r \in Runs, NEW d \in Calls, ReadCall(r, d) PROVE FALSE
  BY <1>2 DEF ReadCall, Executing, poolVars, Typed
<1>3. ASSUME NEW d \in Calls,
             \/ Dispatch(d) \/ Offload(d) \/ OffloadRefused(d) \/ HandlerEnds(d)
             \/ AdriftEnds(d) \/ Delivered(d) \/ Drained(d) \/ SeeCancel(d)
             \/ PoolEnd(d)
      PROVE  FALSE
  <2>1. task'[c] \in {task[c], "queued", "waiting", "draining", "quit", "done"}
    BY <1>3 DEF Dispatch, Offload, OffloadRefused, HandlerEnds, AdriftEnds, Delivered,
                Drained, SeeCancel, PoolEnd, Settle, taskVars, Typed
  <2>2. \/ job'[c] \in {job[c], "none", "queued", "cancelled", "finished"}
        \/ task[c] = "running"
    BY <1>3 DEF Dispatch, Offload, OffloadRefused, HandlerEnds, AdriftEnds, Delivered,
                Drained, SeeCancel, CancelAcquire, CancelOffloaded, LeaveThread,
                PoolEnd, poolVars, Typed
  <2> QED BY <1>3, <2>1, <2>2 DEF Executing
<1>4. ASSUME NEW d \in Calls, RunOnLoop(d)
      PROVE  task[c] = "queued" \/ job[c] = "taken"
  BY <1>4 DEF RunOnLoop, Executing, Typed, poolVars
<1>5. ASSUME NEW d \in Calls, PoolRun(d)
      PROVE  task[c] = "queued" \/ job[c] = "taken"
  BY <1>5 DEF PoolRun, Executing, Typed, taskVars
<1>6. ASSUME PoolTake PROVE FALSE
  BY <1>6 DEF PoolTake, Executing, Typed, taskVars
<1> QED BY <1>1, <1>2, <1>3, <1>4, <1>5, <1>6 DEF Next

\* No handler starts for a run that is being closed or has been: its cancelled
\* calls left neither a waiting ticket nor queued work that would still execute.
THEOREM NothingStartsLate == Spec => NoLateStart
<1> DEFINE A == \A c \in Calls : Executing(c)' /\ ~Executing(c) =>
                    run[info[c].run].phase \notin {"closing", "closed"}
<1>1. IInv /\ [Next]_vars => A
  <2>1. SUFFICES ASSUME IInv, [Next]_vars, NEW c \in Calls,
                        Executing(c)', ~Executing(c)
                 PROVE  run[info[c].run].phase \notin {"closing", "closed"}
    OBVIOUS
  <2>2. Next
    BY <2>1 DEF vars, Executing
  <2>3. task[c] = "queued" \/ job[c] = "taken"
    BY <2>1, <2>2, HandlerStarts DEF IInv
  <2>4. Owned(c)
    BY <2>1 DEF IInv, OwnerInv
  <2>5. task[c] \in {"queued", "waiting"} /\ info[c] # NoCall
    BY <2>3, <2>4 DEF Owned
  <2>6. info[c].run \in Runs /\ c \in CallsOf(info[c].run)
    BY <2>1, <2>5 DEF IInv, Typed, CallsOf
  <2>7. InPhase(info[c].run, c)
    BY <2>1, <2>6 DEF IInv, PhaseInv
  <2> QED BY <2>5, <2>7 DEF InPhase
<1> QED BY <1>1, Invariance, PTL DEF NoLateStart, Spec

\* What a step does to the scheduler: nothing, one ticket is given back, or one is
\* asked for.
LEMMA TicketSteps ==
    ASSUME IInv, Next
    PROVE  \/ UNCHANGED <<queue, held>>
           \/ \E c \in Calls : GivenBack(c)
           \/ \E c \in Calls : /\ task[c] = "created" /\ UNCHANGED info
                               /\ Grant(Append(queue, c), held, reads, writer)
<1>1. ASSUME NEW r \in Runs,
             \/ Start(r) \/ SpawnFails(r) \/ ReadCallOverBudget(r) \/ TakeSlot(r)
             \/ ReadSuccess(r) \/ ReadFailure(r) \/ Timeout(r) \/ Cancel(r)
             \/ Stopped(r) \/ Close(r) \/ \E c \in Calls : ReadCall(r, c)
      PROVE  UNCHANGED <<queue, held>>
  BY <1>1 DEF Start, SpawnFails, ReadCallOverBudget, TakeSlot, ReadSuccess,
              ReadFailure, Timeout, Cancel, Stopped, Close, ReadCall, ticketVars
<1>2. ASSUME NEW c \in Calls,
             \/ RunOnLoop(c) \/ Offload(c) \/ AdriftEnds(c) \/ Delivered(c)
             \/ Drained(c) \/ PoolRun(c)
      PROVE  UNCHANGED <<queue, held>>
  BY <1>2 DEF RunOnLoop, Offload, AdriftEnds, Delivered, Drained, PoolRun, ticketVars
<1>3. ASSUME PoolTake PROVE UNCHANGED <<queue, held>>
  BY <1>3 DEF PoolTake, ticketVars
<1>4. ASSUME NEW c \in Calls, Dispatch(c)
      PROVE  \/ UNCHANGED <<queue, held>>
             \/ /\ task[c] = "created" /\ UNCHANGED info
                /\ Grant(Append(queue, c), held, reads, writer)
  BY <1>4 DEF Dispatch, ticketVars, hostVars
<1>5. ASSUME NEW c \in Calls,
             OffloadRefused(c) \/ HandlerEnds(c) \/ PoolEnd(c) \/ SeeCancel(c)
      PROVE  UNCHANGED <<queue, held>> \/ GivenBack(c)
  <2>1. Typed /\ SchedulerInv /\ Known
    BY TicketsKnown DEF IInv
  <2>2. UNCHANGED info
    BY <1>5 DEF OffloadRefused, HandlerEnds, PoolEnd, SeeCancel, hostVars
  <2>3. Release(c) => UNCHANGED <<queue, held>> \/ GivenBack(c)
    <3>1. CASE c \in held
      BY <2>1, <2>2, <3>1, ReleaseKeeps
    <3>2. CASE c \notin held
      BY <3>2 DEF Release, ticketVars
    <3> QED BY <3>1, <3>2
  <2>4. Abandon(c) => GivenBack(c)
    BY <2>1, <2>2, AbandonKeeps
  <2> QED BY <1>5, <2>3, <2>4 DEF OffloadRefused, HandlerEnds, PoolEnd, SeeCancel,
                                  CancelAcquire, CancelOffloaded, ticketVars
<1> QED BY <1>1, <1>2, <1>3, <1>4, <1>5 DEF Next

\* Tickets are granted in the order in which they were asked for.
THEOREM GrantsAreFair == Spec => FairInOrder
<1> DEFINE A == \A c \in held' \ held, d \in Range(queue) \cap Range(queue') :
                   \E i, j \in DOMAIN queue : i < j /\ queue[i] = c /\ queue[j] = d
<1>1. IInv /\ [Next]_vars => A
  <2>1. SUFFICES ASSUME IInv, [Next]_vars, NEW c \in held' \ held,
                        NEW d \in Range(queue) \cap Range(queue')
                 PROVE  \E i, j \in DOMAIN queue : i < j /\ queue[i] = c /\ queue[j] = d
    OBVIOUS
  <2>2. Next
    BY <2>1 DEF vars
  <2>3. IInv'
    BY <2>1, <2>2, StepKeeps
  <2>4. DOMAIN queue = 1 .. Len(queue) /\ DOMAIN queue' = 1 .. Len(queue')
    BY <2>1, <2>3 DEF IInv, Typed
  <2>5. PICK i \in 1 .. Len(queue') : queue'[i] = d
    BY <2>4 DEF Range
  <2>6. PICK k \in 1 .. Len(queue) : queue[k] = d
    BY <2>4 DEF Range
  <2>7. ASSUME NEW e \in Calls, GivenBack(e)
        PROVE  \E j, l \in 1 .. Len(queue) : j < l /\ queue[j] = c /\ queue[l] = d
    <3>1. \A x \in held' \ (held \ {e}), m \in 1 .. Len(queue') :
             \E j, l \in 1 .. Len(queue) :
                j < l /\ queue[j] = x /\ queue[l] = queue'[m]
      BY <2>7 DEF GivenBack, GrantedFrom
    <3>2. \E j, l \in 1 .. Len(queue) : j < l /\ queue[j] = c /\ queue[l] = queue'[i]
      <4>1. c \in held' \ (held \ {e})
        OBVIOUS
      <4> QED BY <3>1, <4>1, Zenon
    <3> QED BY <2>5, <3>2, Zenon
  <2>8. ASSUME NEW e \in Calls, task[e] = "created", UNCHANGED info,
               Grant(Append(queue, e), held, reads, writer)
        PROVE  \E j, l \in 1 .. Len(queue) : j < l /\ queue[j] = c /\ queue[l] = d
    <3>1. d # e
      BY <2>1, <2>6, <2>8 DEF IInv, OwnerInv
    <3>2. \A x \in held' \ held, m \in 1 .. Len(queue') :
             queue'[m] # e => \E j, l \in 1 .. Len(queue) :
                                 j < l /\ queue[j] = x /\ queue[l] = queue'[m]
      BY <2>1, <2>8, AcquireKeeps
    <3>3. queue'[i] # e
      BY <2>5, <3>1
    <3>4. \E j, l \in 1 .. Len(queue) : j < l /\ queue[j] = c /\ queue[l] = queue'[i]
      BY <3>2, <3>3, Zenon
    <3> QED BY <2>5, <3>4, Zenon
  <2> QED BY <2>1, <2>2, <2>4, <2>7, <2>8, TicketSteps
<1> QED BY <1>1, Invariance, PTL DEF FairInOrder, Spec
=============================================================================
