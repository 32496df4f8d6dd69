------------------------ MODULE RuntimeManager_proofs -----------------------
(***************************************************************************)
(* Theorems about the runtime manager, for every set of threads, every     *)
(* number of permits and any number of calls.                              *)
(***************************************************************************)
EXTENDS RuntimeManager, FiniteSetTheorems, TLAPS

USE ManagerAssumption

RuntimeType == [ref : Refs, state : {"free", "reserved", "busy"}, closed : BOOLEAN]
SubmitType == [pc : SubmitPcs, ref : Refs \cup {NoRef}, session : Nat, lock : Nat, join : Nat]
CloseType == [pc : ClosePcs, ref : Refs \cup {NoRef}, mode : CloseModes,
              session : Nat, join : Nat]

\* The types that the invariant needs.  They leave out the queue of waiters.
RuntimesTyped == runtimes \in Seq(RuntimeType)
RegistryTyped ==
    /\ mgrClosed \in BOOLEAN
    /\ sessions \in [Refs -> Nat]
    /\ lockCount \in Nat /\ submitLock \in [Refs -> Nat] /\ locked \subseteq Nat
    /\ lifecycle \in [Refs -> Nat] /\ closing \in [Refs -> Nat]
    /\ queuedOwner \in [Refs -> Nat] /\ releaseTask \in [Refs -> Nat]
    /\ permits \in Nat /\ leaked \in Nat
SubmitsTyped == submits \in [SubmitIds -> SubmitType]
ClosesTyped == closes \in [CloseIds -> CloseType]
ShutdownTyped ==
    shutdown \in [pc : {"no", "owners", "turns", "done"}, owners : SUBSET Nat,
                  sessions : SUBSET Nat]

Typed ==
    /\ RuntimesTyped /\ RegistryTyped /\ SubmitsTyped /\ ClosesTyped /\ ShutdownTyped

\* A runtime that is named is one that was built.
Built ==
    /\ \A r \in Refs : sessions[r] <= Len(runtimes)
    /\ \A c \in SubmitIds : submits[c].session <= Len(runtimes)
    /\ \A k \in CloseIds : closes[k].session <= Len(runtimes)

\* The submits whose reservation stands and whose turn has not begun.
Reserving == {c \in SubmitIds : submits[c].pc \in {"queued", "granted", "revoked"}}

\* A runtime belongs to the thread that it is registered for, and so does the
\* one that a submit looks at.
RefsAgree ==
    /\ \A r \in Refs : sessions[r] # 0 => runtimes[sessions[r]].ref = r
    /\ \A c \in SubmitIds :
          /\ submits[c].pc # "new" => submits[c].ref \in Refs
          /\ submits[c].pc \in {"submit", "joinRelease"} \/ c \in LockHolders =>
                /\ submits[c].session # 0
                /\ runtimes[submits[c].session].ref = submits[c].ref
    /\ \A k \in CloseIds : closes[k].pc # "new" => closes[k].ref \in Refs

\* The runtime and the lock of this submit are those registered for its thread.
Current(c) ==
    /\ sessions[submits[c].ref] = submits[c].session
    /\ submitLock[submits[c].ref] = submits[c].lock

\* A reservation and a turn are those of the registered runtime, and the manager
\* knows whose they are: by the owner record before the turn, by the release task
\* from its start to the release.
Holds(c) ==
    /\ submits[c].lock # 0
    /\ c \in Reserving =>
          /\ Current(c)
          /\ queuedOwner[submits[c].ref] = c
          /\ runtimes[submits[c].session].state = "reserved"
    /\ submits[c].pc = "running" =>
          /\ Current(c)
          /\ releaseTask[submits[c].ref] = c
          /\ runtimes[submits[c].session].state = "busy"
    /\ submits[c].pc = "settled" /\ sessions[submits[c].ref] = submits[c].session =>
          /\ Current(c)
          /\ releaseTask[submits[c].ref] = c

HoldersKnown == \A c \in LockHolders : Holds(c)

\* A runtime that still accepts work is the registered one of its thread.
OpenOnesRegistered ==
    \A s \in DOMAIN runtimes :
        ~runtimes[s].closed => sessions[runtimes[s].ref] = s

\* How far the shutdown has come.
ShutdownKnows ==
    /\ mgrClosed <=> shutdown.pc # "no"
    /\ shutdown.pc = "owners" =>
          /\ Reserving \subseteq shutdown.owners
          /\ \A s \in DOMAIN runtimes : ~runtimes[s].closed => s \in shutdown.sessions
    /\ shutdown.pc \in {"turns", "done"} =>
          /\ Reserving = {}
          /\ \A s \in DOMAIN runtimes : runtimes[s].closed
    /\ shutdown.pc = "done" =>
          /\ LockHolders = {}
          /\ \A r \in Refs : sessions[r] = 0

ClosesActively(k) == closes[k].pc \in {"owner", "turn", "release", "raise"}

\* How far a close has come: what it knows of the generation it closes.
CloseKnows(k) ==
    /\ closes[k].pc \in {"new", "claim", "joinClose", "purge", "left"} => closes[k].session = 0
    /\ ClosesActively(k) =>
          /\ closing[closes[k].ref] = k
          /\ closes[k].session # 0
          /\ sessions[closes[k].ref] = closes[k].session \/ shutdown.pc = "done"
    /\ closes[k].pc \in {"turn", "release", "raise"} => runtimes[closes[k].session].closed
    /\ closes[k].pc = "owner" =>
          \A c \in Reserving : submits[c].session = closes[k].session => c = closes[k].join
    /\ closes[k].pc = "turn" =>
          \A c \in Reserving : submits[c].session # closes[k].session
    /\ closes[k].pc = "release" =>
          \A c \in LockHolders : submits[c].session = closes[k].session =>
              submits[c].pc = "settled" /\ c = closes[k].join
    /\ closes[k].pc = "done" /\ closes[k].session # 0 =>
          /\ \A r \in Refs : sessions[r] # closes[k].session
          /\ \A c \in LockHolders : submits[c].session # closes[k].session
    /\ closes[k].pc = "purge" =>
          lifecycle[closes[k].ref] = k /\ sessions[closes[k].ref] = 0

ClosesKnow == \A k \in CloseIds : CloseKnows(k)

ManagerInv ==
    /\ Typed /\ Built /\ RefsAgree
    /\ HoldingsAccounted /\ HoldersKnown /\ OpenOnesRegistered
    /\ ShutdownKnows /\ ClosesKnow
-----------------------------------------------------------------------------
(* What the assignments of the actions do, field by field.                 *)

HolderPcs == {"queued", "granted", "revoked", "running", "settled"}

OtherSubmits(c) == \A d \in SubmitIds : d # c => submits'[d] = submits[d]
OtherCloses(k) == \A j \in CloseIds : j # k => closes'[j] = closes[j]

\* The submit c is at pc now, with this runtime and this lock.
SubmitNow(c, pc, session, lock) ==
    /\ SubmitsTyped'
    /\ submits'[c].pc = pc /\ submits'[c].ref = submits[c].ref
    /\ submits'[c].session = session /\ submits'[c].lock = lock
    /\ OtherSubmits(c)

\* The close k is at pc now, with this runtime.
CloseNow(k, pc, session) ==
    /\ ClosesTyped'
    /\ closes'[k].pc = pc /\ closes'[k].ref = closes[k].ref
    /\ closes'[k].session = session
    /\ OtherCloses(k)

\* The runtime s is in this state now.
StateNow(s, state) ==
    /\ RuntimesTyped' /\ DOMAIN runtimes' = DOMAIN runtimes
    /\ Len(runtimes') = Len(runtimes)
    /\ runtimes'[s].state = state
    /\ \A u \in DOMAIN runtimes : /\ runtimes'[u].ref = runtimes[u].ref
                                  /\ runtimes'[u].closed = runtimes[u].closed
                                  /\ u # s => runtimes'[u].state = runtimes[u].state

\* The runtimes of S are closed now.
ClosedNow(S) ==
    /\ RuntimesTyped' /\ DOMAIN runtimes' = DOMAIN runtimes
    /\ Len(runtimes') = Len(runtimes)
    /\ \A u \in DOMAIN runtimes : /\ runtimes'[u].ref = runtimes[u].ref
                                  /\ runtimes'[u].state = runtimes[u].state
                                  /\ runtimes'[u].closed = (runtimes[u].closed \/ u \in S)

\* These queued submits are revoked now.
RevokedNow(owners) ==
    /\ SubmitsTyped'
    /\ \A c \in SubmitIds :
          /\ submits'[c].ref = submits[c].ref /\ submits'[c].session = submits[c].session
          /\ submits'[c].lock = submits[c].lock
          /\ IF c \in owners /\ submits[c].pc = "queued"
             THEN submits'[c].pc = "revoked" ELSE submits'[c].pc = submits[c].pc

\* The manager starts with its types and without a runtime.
LEMMA InitTyped == Init => Typed /\ Built
<1> SUFFICES ASSUME Init PROVE Typed /\ Built
  OBVIOUS
<1>1. RuntimesTyped
  BY DEF Init, RuntimesTyped
<1>2. RegistryTyped
  BY DEF Init, RegistryTyped
<1>3. SubmitsTyped
  BY DEF Init, SubmitsTyped, SubmitType, SubmitPcs
<1>4. ClosesTyped
  BY DEF Init, ClosesTyped, CloseType, ClosePcs, CloseModes
<1>5. ShutdownTyped
  BY DEF Init, ShutdownTyped
<1>6. Built
  BY DEF Init, Built
<1> QED BY <1>1, <1>2, <1>3, <1>4, <1>5, <1>6 DEF Typed

\* A submit that goes on changes its own place only.
LEMMA GotoDoes ==
  ASSUME SubmitsTyped, NEW c \in SubmitIds, NEW pc \in SubmitPcs, Goto(c, pc)
  PROVE  SubmitNow(c, pc, submits[c].session, submits[c].lock)
BY DEF Goto, SubmitsTyped, SubmitType, SubmitNow, OtherSubmits

\* The elements of a sequence are in its set.
LEMMA ElementOf ==
  ASSUME NEW S, NEW q \in Seq(S), NEW i \in DOMAIN q
  PROVE  q[i] \in S
OBVIOUS

\* A function on the same numbers is a sequence of the same length.
LEMMA RuntimesStay ==
  ASSUME RuntimesTyped, runtimes' \in [DOMAIN runtimes -> RuntimeType]
  PROVE  /\ RuntimesTyped' /\ DOMAIN runtimes' = DOMAIN runtimes
         /\ Len(runtimes') = Len(runtimes)
<1>1. DOMAIN runtimes = 1 .. Len(runtimes) /\ Len(runtimes) \in Nat
  BY DEF RuntimesTyped
<1>2. runtimes' \in Seq(RuntimeType)
  BY <1>1
<1>3. DOMAIN runtimes' = 1 .. Len(runtimes') /\ Len(runtimes') \in Nat
  BY <1>2
<1> QED BY <1>1, <1>2, <1>3 DEF RuntimesTyped

\* A runtime's state changes, and no other runtime.
LEMMA SetStateDoes ==
  ASSUME RuntimesTyped, NEW s \in DOMAIN runtimes, NEW state \in {"free", "reserved", "busy"},
         SetState(s, state)
  PROVE  StateNow(s, state)
<1>1. \A u \in DOMAIN runtimes : runtimes[u] \in RuntimeType
  BY ElementOf DEF RuntimesTyped
<1>2. \A u \in DOMAIN runtimes :
        runtimes'[u] = IF u = s THEN [runtimes[u] EXCEPT !.state = state] ELSE runtimes[u]
  BY DEF SetState, RuntimesTyped
<1>3. \A u \in DOMAIN runtimes :
        /\ runtimes'[u] \in RuntimeType
        /\ runtimes'[u].ref = runtimes[u].ref /\ runtimes'[u].closed = runtimes[u].closed
        /\ runtimes'[u].state = IF u = s THEN state ELSE runtimes[u].state
  BY <1>1, <1>2 DEF RuntimeType
<1>4. runtimes' \in [DOMAIN runtimes -> RuntimeType]
  BY <1>3 DEF SetState
<1> QED BY <1>3, <1>4, RuntimesStay DEF StateNow

\* A runtime is closed, and no other.
LEMMA MarkClosedDoes ==
  ASSUME RuntimesTyped, NEW s \in DOMAIN runtimes, MarkClosed(s)
  PROVE  ClosedNow({s})
<1>1. \A u \in DOMAIN runtimes : runtimes[u] \in RuntimeType
  BY ElementOf DEF RuntimesTyped
<1>2. \A u \in DOMAIN runtimes :
        runtimes'[u] = IF u = s THEN [runtimes[u] EXCEPT !.closed = TRUE] ELSE runtimes[u]
  BY DEF MarkClosed, RuntimesTyped
<1>3. \A u \in DOMAIN runtimes :
        /\ runtimes'[u] \in RuntimeType
        /\ runtimes'[u].ref = runtimes[u].ref /\ runtimes'[u].state = runtimes[u].state
        /\ runtimes'[u].closed = (runtimes[u].closed \/ u \in {s})
  BY <1>1, <1>2 DEF RuntimeType
<1>4. runtimes' \in [DOMAIN runtimes -> RuntimeType]
  BY <1>3 DEF MarkClosed
<1> QED BY <1>3, <1>4, RuntimesStay DEF ClosedNow

\* Revoking reservations changes the places of their owners only.
LEMMA RevokeDoes ==
  ASSUME SubmitsTyped, NEW owners, Revoke(owners)
  PROVE  RevokedNow(owners)
<1>1. \A c \in SubmitIds :
        submits'[c] = IF c \in owners /\ submits[c].pc = "queued"
                      THEN [submits[c] EXCEPT !.pc = "revoked"] ELSE submits[c]
  BY DEF Revoke
<1>2. \A c \in SubmitIds : submits[c] \in SubmitType
  BY DEF SubmitsTyped
<1>3. \A c \in SubmitIds :
        /\ submits'[c] \in SubmitType
        /\ submits'[c].ref = submits[c].ref /\ submits'[c].session = submits[c].session
        /\ submits'[c].lock = submits[c].lock
        /\ submits'[c].pc = IF c \in owners /\ submits[c].pc = "queued"
                            THEN "revoked" ELSE submits[c].pc
  BY <1>1, <1>2, ZenonT(40) DEF SubmitType, SubmitPcs
<1>4. SubmitsTyped'
  BY <1>3 DEF Revoke, SubmitsTyped
<1> QED BY <1>3, <1>4 DEF RevokedNow
-----------------------------------------------------------------------------
(* What each kind of step does, as far as the invariant can see.           *)

\* A submit outside the submit lock looks around, or its release is forgotten.
Wanders(c) ==
    /\ SubmitsTyped' /\ RegistryTyped' /\ OtherSubmits(c)
    /\ c \notin LockHolders /\ submits'[c].pc \notin HolderPcs
    /\ submits'[c].pc # "new" /\ submits'[c].ref \in Refs
    /\ submits'[c].session <= Len(runtimes)
    /\ submits'[c].pc \in {"submit", "joinRelease"} =>
          /\ submits'[c].session # 0
          /\ runtimes[submits'[c].session].ref = submits'[c].ref
    /\ \A r \in Refs : submitLock[r] # 0 => submitLock'[r] = submitLock[r]
    /\ \A r \in Refs : releaseTask[r] # c => releaseTask'[r] = releaseTask[r]
    /\ UNCHANGED <<mgrClosed, sessions, runtimes, locked, lifecycle, closing, queuedOwner,
                   permits, closes, shutdown, leaked>>

\* A submit opens the runtime of its thread, which is the next one built.
Builds(c) ==
    LET ref == submits[c].ref  n == Len(runtimes) + 1 IN
    /\ submits[c].pc = "open"
    /\ ~mgrClosed /\ closing[ref] = 0 /\ sessions[ref] = 0 /\ lifecycle[ref] = 0
    /\ RuntimesTyped' /\ Len(runtimes') = n
    /\ \A s \in DOMAIN runtimes : runtimes'[s] = runtimes[s]
    /\ runtimes'[n].ref = ref /\ ~runtimes'[n].closed
    /\ SubmitNow(c, "submit", n, submits[c].lock)
    /\ RegistryTyped'
    /\ sessions'[ref] = n /\ \A r \in Refs : r # ref => sessions'[r] = sessions[r]
    /\ UNCHANGED <<mgrClosed, submitLock, locked, lifecycle, closing, queuedOwner, releaseTask,
                   permits, closes, shutdown, leaked>>

\* A submit takes the lock of its thread and reserves the registered runtime.
Reserves(c) ==
    LET ref == submits[c].ref
        session == submits[c].session
        lock == submitLock[ref]
    IN
    /\ submits[c].pc = "submit"
    /\ ~mgrClosed /\ closing[ref] = 0 /\ sessions[ref] = session
    /\ lock # 0 /\ lock \notin locked
    /\ runtimes[session].state = "free"
    /\ SubmitNow(c, "queued", session, lock)
    /\ StateNow(session, "reserved")
    /\ RegistryTyped'
    /\ locked' = locked \cup {lock}
    /\ queuedOwner'[ref] = c
    /\ \A r \in Refs : r # ref => queuedOwner'[r] = queuedOwner[r]
    /\ UNCHANGED <<mgrClosed, sessions, submitLock, lifecycle, closing, releaseTask, permits,
                   closes, shutdown, leaked>>

Granted(c) ==
    /\ submits[c].pc = "queued"
    /\ SubmitNow(c, "granted", submits[c].session, submits[c].lock)
    /\ RegistryTyped'
    /\ permits > 0 /\ permits' = permits - 1
    /\ UNCHANGED <<mgrClosed, sessions, runtimes, submitLock, locked, lifecycle, closing,
                   queuedOwner, releaseTask, closes, shutdown, leaked>>

\* A reservation is given up: with the permit, if there was one, or with a permit
\* that nobody gives back.
GivesUp(c) ==
    /\ c \in Reserving
    /\ SubmitNow(c, "failed", submits[c].session, submits[c].lock)
    /\ StateNow(submits[c].session, "free")
    /\ RegistryTyped'
    /\ locked' = locked \ {submits[c].lock}
    /\ \A r \in Refs : queuedOwner[r] # c => queuedOwner'[r] = queuedOwner[r]
    /\ submits[c].pc = "granted" => permits' + leaked' = permits + leaked + 1
    /\ submits[c].pc # "granted" => permits' + leaked' = permits + leaked
    /\ UNCHANGED <<mgrClosed, sessions, submitLock, lifecycle, closing, releaseTask, closes,
                   shutdown>>

Begins(c) ==
    LET ref == submits[c].ref IN
    /\ submits[c].pc = "granted"
    /\ ~mgrClosed /\ closing[ref] = 0
    /\ SubmitNow(c, "running", submits[c].session, submits[c].lock)
    /\ StateNow(submits[c].session, "busy")
    /\ RegistryTyped'
    /\ \A r \in Refs : queuedOwner[r] # c => queuedOwner'[r] = queuedOwner[r]
    /\ releaseTask'[ref] = c
    /\ \A r \in Refs : r # ref => releaseTask'[r] = releaseTask[r]
    /\ UNCHANGED <<mgrClosed, sessions, submitLock, locked, lifecycle, closing, permits, closes,
                   shutdown, leaked>>

\* A turn is over, and the closes that wait for it may raise.
Settles(c) ==
    /\ submits[c].pc = "running"
    /\ SubmitNow(c, "settled", submits[c].session, submits[c].lock)
    /\ StateNow(submits[c].session, "free")
    /\ ClosesTyped'
    /\ \A k \in CloseIds :
          /\ closes'[k].ref = closes[k].ref /\ closes'[k].session = closes[k].session
          /\ closes'[k].join = closes[k].join
          /\ closes'[k].pc # closes[k].pc => closes[k].pc = "turn" /\ closes'[k].pc = "raise"
    /\ UNCHANGED <<mgrClosed, sessions, submitLock, lockCount, locked, lifecycle, closing,
                   queuedOwner, releaseTask, permits, shutdown, leaked>>

Releases(c) ==
    /\ submits[c].pc = "settled"
    /\ SubmitNow(c, "freed", submits[c].session, submits[c].lock)
    /\ RegistryTyped'
    /\ permits' = permits + 1
    /\ locked' = locked \ {submits[c].lock}
    /\ UNCHANGED <<mgrClosed, sessions, runtimes, submitLock, lifecycle, closing, queuedOwner,
                   releaseTask, closes, shutdown, leaked>>
\* The runtime that a submit inside names was built.
LEMMA NamesBuilt ==
  ASSUME Typed, Built, RefsAgree, NEW c \in SubmitIds,
         c \in LockHolders \/ submits[c].pc \in {"submit", "joinRelease"}
  PROVE  /\ submits[c].ref \in Refs
         /\ submits[c].session \in DOMAIN runtimes
         /\ runtimes[submits[c].session].ref = submits[c].ref
<1>1. submits[c].session \in Nat
  BY DEF Typed, SubmitsTyped, SubmitType
<1>2. DOMAIN runtimes = 1 .. Len(runtimes) /\ Len(runtimes) \in Nat
  BY DEF Typed, RuntimesTyped
<1>3. submits[c].pc # "new"
  BY DEF LockHolders
<1> QED BY <1>1, <1>2, <1>3 DEF Built, RefsAgree

\* A registered runtime exists, and is the thread's own.
LEMMA RegisteredBuilt ==
  ASSUME Typed, Built, RefsAgree, NEW r \in Refs, sessions[r] # 0
  PROVE  sessions[r] \in DOMAIN runtimes /\ runtimes[sessions[r]].ref = r
<1>1. sessions[r] \in Nat
  BY DEF Typed, RegistryTyped
<1>2. DOMAIN runtimes = 1 .. Len(runtimes) /\ Len(runtimes) \in Nat
  BY DEF Typed, RuntimesTyped
<1> QED BY <1>1, <1>2 DEF Built, RefsAgree

\* A call of submit touches no runtime.
LEMMA SubmitCallsDoes ==
  ASSUME Typed, Built, RefsAgree, NEW c \in SubmitIds, NEW ref \in Refs, SubmitCalls(c, ref)
  PROVE  Wanders(c)
<1>1. submits[c].pc = "new" /\ submits[c] \in SubmitType
  BY DEF SubmitCalls, Typed, SubmitsTyped, SubmitIds
<1>2. /\ SubmitsTyped' /\ OtherSubmits(c)
      /\ submits'[c].pc \in {"failed", "open"} /\ submits'[c].ref = ref
      /\ submits'[c].session = submits[c].session
  BY <1>1 DEF SubmitCalls, Typed, SubmitsTyped, SubmitType, SubmitPcs, OtherSubmits
<1>3. RegistryTyped' /\ \A r \in Refs : submitLock[r] # 0 => submitLock'[r] = submitLock[r]
  BY DEF SubmitCalls, EnsureSubmitLock, Typed, RegistryTyped, permitVars
<1> QED BY <1>1, <1>2, <1>3 DEF SubmitCalls, Wanders, LockHolders, HolderPcs, permitVars, Built

\* A submit finds the thread's runtime or builds one.
LEMMA OpensDoes ==
  ASSUME Typed, Built, RefsAgree, NEW c \in SubmitIds, Opens(c)
  PROVE  Wanders(c) \/ Builds(c)
<1>1. /\ submits[c].pc = "open" /\ submits[c] \in SubmitType /\ submits[c].ref \in Refs
      /\ submits[c].session <= Len(runtimes)
  BY DEF Opens, Typed, SubmitsTyped, RefsAgree, Built
<1>2. CASE Goto(c, "failed") /\ UNCHANGED <<sessions, runtimes>>
  <2>1. SubmitNow(c, "failed", submits[c].session, submits[c].lock)
    BY <1>2, GotoDoes DEF Typed, SubmitPcs
  <2> QED BY <1>1, <1>2, <2>1 DEF Opens, Wanders, SubmitNow, Typed, RegistryTyped, LockHolders,
             HolderPcs, permitVars
<1>3. CASE /\ submits' = [submits EXCEPT ![c].pc = "joinClose", ![c].join = closing[submits[c].ref]]
           /\ UNCHANGED <<sessions, runtimes>>
  <2>1. closing[submits[c].ref] \in Nat
    BY <1>1 DEF Typed, RegistryTyped
  <2>2. SubmitNow(c, "joinClose", submits[c].session, submits[c].lock)
    BY <1>3, <2>1 DEF Typed, SubmitsTyped, SubmitType, SubmitPcs, SubmitNow, OtherSubmits
  <2> QED BY <1>1, <1>3, <2>2 DEF Opens, Wanders, SubmitNow, Typed, RegistryTyped, LockHolders,
             HolderPcs, permitVars
<1>4. CASE /\ sessions[submits[c].ref] # 0
           /\ submits' = [submits EXCEPT ![c].pc = "submit", ![c].session = sessions[submits[c].ref]]
           /\ UNCHANGED <<sessions, runtimes>>
  <2>1. sessions[submits[c].ref] \in Nat
    BY <1>1 DEF Typed, RegistryTyped
  <2>2. SubmitNow(c, "submit", sessions[submits[c].ref], submits[c].lock)
    BY <1>4, <2>1 DEF Typed, SubmitsTyped, SubmitType, SubmitPcs, SubmitNow, OtherSubmits
  <2>3. sessions[submits[c].ref] <= Len(runtimes)
    BY <1>1 DEF Built
  <2>4. runtimes[sessions[submits[c].ref]].ref = submits[c].ref
    BY <1>1, <1>4 DEF RefsAgree
  <2> QED BY <1>1, <1>4, <2>2, <2>3, <2>4 DEF Opens, Wanders, SubmitNow, Typed, RegistryTyped,
             LockHolders, HolderPcs, permitVars
<1>5. CASE /\ ~mgrClosed /\ closing[submits[c].ref] = 0 /\ sessions[submits[c].ref] = 0
           /\ runtimes' = Append(runtimes, [ref |-> submits[c].ref, state |-> "free",
                                            closed |-> FALSE])
           /\ sessions' = [sessions EXCEPT ![submits[c].ref] = Len(runtimes')]
           /\ submits' = [submits EXCEPT ![c].pc = "submit", ![c].session = Len(runtimes')]
  <2>1. [ref |-> submits[c].ref, state |-> "free", closed |-> FALSE] \in RuntimeType
    BY <1>1 DEF RuntimeType
  <2>2. /\ RuntimesTyped' /\ Len(runtimes') = Len(runtimes) + 1 /\ Len(runtimes) \in Nat
        /\ \A s \in DOMAIN runtimes : runtimes'[s] = runtimes[s]
        /\ runtimes'[Len(runtimes) + 1] =
              [ref |-> submits[c].ref, state |-> "free", closed |-> FALSE]
    BY <1>5, <2>1 DEF Typed, RuntimesTyped
  <2>3. PICK n \in Nat : n = Len(runtimes) + 1
    BY <2>2
  <2>4. /\ submits' = [submits EXCEPT ![c].pc = "submit", ![c].session = n]
        /\ sessions' = [sessions EXCEPT ![submits[c].ref] = n]
    BY <1>5, <2>2, <2>3
  <2>5. SubmitNow(c, "submit", n, submits[c].lock)
    BY <2>4 DEF Typed, SubmitsTyped, SubmitType, SubmitPcs, SubmitNow, OtherSubmits
  <2>6. /\ sessions' \in [Refs -> Nat] /\ sessions'[submits[c].ref] = n
        /\ \A r \in Refs : r # submits[c].ref => sessions'[r] = sessions[r]
    BY <1>1, <2>4 DEF Typed, RegistryTyped
  <2>7. RegistryTyped' /\ lifecycle[submits[c].ref] = 0
    BY <1>1, <2>6 DEF Opens, LifecycleFree, Typed, RegistryTyped, permitVars
  <2>8. UNCHANGED <<mgrClosed, submitLock, locked, lifecycle, closing, queuedOwner, releaseTask,
                    permits, closes, shutdown, leaked>>
    BY DEF Opens, permitVars
  <2> QED BY <1>1, <1>5, <2>2, <2>3, <2>5, <2>6, <2>7, <2>8 DEF Builds
<1> QED BY <1>2, <1>3, <1>4, <1>5 DEF Opens

\* A submit outside the submit lock that goes on in the same runtime.
LEMMA GoesOnWanders ==
  ASSUME Typed, Built, RefsAgree, NEW c \in SubmitIds,
         NEW pc \in {"failed", "keyerror", "open", "submit", "joinRelease", "done"},
         submits[c].pc # "new", c \notin LockHolders,
         pc \in {"submit", "joinRelease"} => submits[c].pc \in {"submit", "joinRelease"},
         SubmitNow(c, pc, submits[c].session, submits[c].lock),
         RegistryTyped', submitLock' = submitLock,
         \A r \in Refs : releaseTask[r] # c => releaseTask'[r] = releaseTask[r],
         UNCHANGED <<mgrClosed, sessions, runtimes, locked, lifecycle, closing, queuedOwner,
                     permits, closes, shutdown, leaked>>
  PROVE  Wanders(c)
<1>1. submits[c].ref \in Refs /\ submits[c].session <= Len(runtimes)
  BY DEF RefsAgree, Built
<1>2. pc \in {"submit", "joinRelease"} =>
          submits[c].session # 0 /\ runtimes[submits[c].session].ref = submits[c].ref
  BY DEF RefsAgree
<1> QED BY <1>1, <1>2 DEF Wanders, SubmitNow, HolderPcs

\* A submit that has waited for a close or a release touches no runtime.
LEMMA JoinsDo ==
  ASSUME Typed, Built, RefsAgree, NEW c \in SubmitIds,
         JoinedClose(c) \/ JoinedRelease(c) \/ ForgetRelease(c)
  PROVE  Wanders(c)
<1>1. RegistryTyped
  BY DEF Typed
<1>2. CASE JoinedClose(c)
  <2>1. PICK pc \in {"open", "failed"} : Goto(c, pc)
    BY <1>2 DEF JoinedClose
  <2>2. SubmitNow(c, pc, submits[c].session, submits[c].lock)
    BY <2>1, GotoDoes DEF Typed, SubmitPcs
  <2>3. submits[c].pc = "joinClose" /\ c \notin LockHolders
    BY <1>2 DEF JoinedClose, LockHolders
  <2>4. RegistryTyped'
    BY <1>1, <1>2 DEF JoinedClose, RegistryTyped, registryVars, permitVars
  <2> QED BY <1>2, <2>2, <2>3, <2>4, GoesOnWanders DEF JoinedClose, registryVars, permitVars
<1>3. CASE JoinedRelease(c)
  <2>0. PICK pc \in {"failed", "submit"} : Goto(c, pc)
    BY <1>3 DEF JoinedRelease
  <2>1. SubmitNow(c, pc, submits[c].session, submits[c].lock)
    BY <2>0, GotoDoes DEF Typed, SubmitPcs
  <2>2. submits[c].pc = "joinRelease" /\ c \notin LockHolders
    BY <1>3 DEF JoinedRelease, LockHolders
  <2>3. RegistryTyped'
    BY <1>1, <1>3 DEF JoinedRelease, RegistryTyped, registryVars, permitVars
  <2> QED BY <1>3, <2>1, <2>2, <2>3, GoesOnWanders DEF JoinedRelease, registryVars, permitVars
<1>4. CASE ForgetRelease(c)
  <2>1. SubmitNow(c, "done", submits[c].session, submits[c].lock)
    BY <1>4, GotoDoes DEF ForgetRelease, Typed, SubmitPcs
  <2>2. submits[c].pc = "freed" /\ c \notin LockHolders
    BY <1>4 DEF ForgetRelease, LockHolders
  <2>3. RegistryTyped'
    BY <1>1, <1>4 DEF ForgetRelease, RegistryTyped, registryVars, permitVars
  <2>4. \A r \in Refs : releaseTask[r] # c => releaseTask'[r] = releaseTask[r]
    BY <1>4 DEF ForgetRelease
  <2> QED BY <1>4, <2>1, <2>2, <2>3, <2>4, GoesOnWanders DEF ForgetRelease, registryVars,
             permitVars
<1> QED BY <1>2, <1>3, <1>4

\* A submit takes its lock and reserves the runtime, or goes elsewhere.
LEMMA EnqueuesDoes ==
  ASSUME Typed, Built, RefsAgree, NEW c \in SubmitIds, Enqueues(c)
  PROVE  Wanders(c) \/ Reserves(c)
<1>1. /\ submits[c].pc = "submit" /\ submits[c].ref \in Refs
      /\ submits[c].session \in DOMAIN runtimes /\ c \notin LockHolders
  BY NamesBuilt DEF Enqueues, LockHolders
<1>2. CASE /\ \E pc \in {"failed", "keyerror"} : Goto(c, pc)
           /\ UNCHANGED <<runtimes, locked, queuedOwner, waiting>>
  <2>1. PICK pc \in {"failed", "keyerror"} : Goto(c, pc)
    BY <1>2
  <2>2. SubmitNow(c, pc, submits[c].session, submits[c].lock)
    BY <2>1, GotoDoes DEF Typed, SubmitPcs
  <2>3. RegistryTyped'
    BY <1>2 DEF Enqueues, Typed, RegistryTyped
  <2> QED BY <1>1, <1>2, <2>2, <2>3, GoesOnWanders DEF Enqueues
<1>3. CASE /\ submits' = [submits EXCEPT ![c].pc = "joinRelease",
                                         ![c].join = releaseTask[submits[c].ref]]
           /\ UNCHANGED <<runtimes, locked, queuedOwner, waiting>>
  <2>1. releaseTask[submits[c].ref] \in Nat
    BY <1>1 DEF Typed, RegistryTyped
  <2>2. SubmitNow(c, "joinRelease", submits[c].session, submits[c].lock)
    BY <1>3, <2>1 DEF Typed, SubmitsTyped, SubmitType, SubmitPcs, SubmitNow, OtherSubmits
  <2>3. RegistryTyped'
    BY <1>3 DEF Enqueues, Typed, RegistryTyped
  <2> QED BY <1>1, <1>3, <2>2, <2>3, GoesOnWanders DEF Enqueues
<1>4. ASSUME ~(mgrClosed \/ closing[submits[c].ref] # 0
                         \/ sessions[submits[c].ref] # submits[c].session),
             submitLock[submits[c].ref] # 0, submitLock[submits[c].ref] \notin locked,
             Reservable(submits[c].session),
             locked' = locked \cup {submitLock[submits[c].ref]},
             SetState(submits[c].session, "reserved"),
             submits' = [submits EXCEPT ![c].pc = "queued",
                                        ![c].lock = submitLock[submits[c].ref]],
             queuedOwner' = [queuedOwner EXCEPT ![submits[c].ref] = c]
      PROVE  Reserves(c)
  <2>1. submitLock[submits[c].ref] \in Nat /\ c \in Nat
    BY <1>1 DEF Typed, RegistryTyped, SubmitIds
  <2>2. SubmitNow(c, "queued", submits[c].session, submitLock[submits[c].ref])
    BY <1>4, <2>1 DEF Typed, SubmitsTyped, SubmitType, SubmitPcs, SubmitNow, OtherSubmits
  <2>3. StateNow(submits[c].session, "reserved")
    BY <1>1, <1>4, SetStateDoes DEF Typed
  <2>4. /\ queuedOwner'[submits[c].ref] = c
        /\ \A r \in Refs : r # submits[c].ref => queuedOwner'[r] = queuedOwner[r]
        /\ queuedOwner' \in [Refs -> Nat]
    BY <1>1, <1>4, <2>1 DEF Typed, RegistryTyped
  <2>5. RegistryTyped'
    BY <1>4, <2>1, <2>4 DEF Enqueues, Typed, RegistryTyped
  <2> QED BY <1>1, <1>4, <2>2, <2>3, <2>4, <2>5 DEF Reserves, Reservable, Enqueues
<1> QED BY <1>2, <1>3, <1>4 DEF Enqueues

\* The acquire task takes a permit for a submit.
LEMMA GrantsDoes ==
  ASSUME Typed, Built, RefsAgree, NEW c \in SubmitIds, Grants(c)
  PROVE  Granted(c)
<1>1. SubmitNow(c, "granted", submits[c].session, submits[c].lock)
  BY GotoDoes DEF Grants, Typed, SubmitPcs
<1>2. RegistryTyped'
  BY DEF Grants, Typed, RegistryTyped, registryVars
<1> QED BY <1>1, <1>2 DEF Grants, Granted, registryVars

\* The clean-up of a reservation.
LEMMA CleanUpDoes ==
  ASSUME Typed, Built, RefsAgree, HoldersKnown, NEW c \in Reserving, CleanUp(c),
         permits' \in Nat, leaked' \in Nat,
         submits[c].pc = "granted" => permits' + leaked' = permits + leaked + 1,
         submits[c].pc # "granted" => permits' + leaked' = permits + leaked,
         UNCHANGED <<mgrClosed, sessions, submitLock, lockCount, lifecycle, closing,
                     releaseTask, closes, shutdown>>
  PROVE  GivesUp(c)
<1>1. c \in SubmitIds /\ c \in LockHolders
  BY DEF Reserving, LockHolders
<1>2. submits[c].session \in DOMAIN runtimes
  BY <1>1, NamesBuilt
<1>3. runtimes[submits[c].session].state = "reserved"
  BY <1>1 DEF HoldersKnown, Holds
<1>4. SubmitNow(c, "failed", submits[c].session, submits[c].lock)
  BY <1>1, GotoDoes DEF CleanUp, Typed, SubmitPcs
<1>5. StateNow(submits[c].session, "free")
  BY <1>2, <1>3, SetStateDoes DEF CleanUp, Typed
<1>6. /\ queuedOwner' \in [Refs -> Nat]
      /\ \A r \in Refs : queuedOwner[r] # c => queuedOwner'[r] = queuedOwner[r]
  BY DEF CleanUp, Typed, RegistryTyped
<1>7. locked' = locked \ {submits[c].lock}
  BY DEF CleanUp
<1>8. RegistryTyped'
  BY <1>6, <1>7 DEF Typed, RegistryTyped
<1> QED BY <1>4, <1>5, <1>6, <1>7, <1>8 DEF GivesUp

\* A granted submit starts its turn, or gives back what it holds.
LEMMA StartsDoes ==
  ASSUME Typed, Built, RefsAgree, HoldersKnown, NEW c \in SubmitIds, Starts(c)
  PROVE  GivesUp(c) \/ Begins(c)
<1>1. /\ submits[c].pc = "granted" /\ c \in Reserving /\ c \in LockHolders
      /\ permits \in Nat /\ leaked \in Nat
  BY DEF Starts, Reserving, LockHolders, Typed, RegistryTyped
<1>2. CASE StartRefused(c) /\ UNCHANGED releaseTask
  BY <1>1, <1>2, CleanUpDoes DEF Starts, StartRefused
<1>3. ASSUME ~mgrClosed, closing[submits[c].ref] = 0, SetState(submits[c].session, "busy"),
             Goto(c, "running"),
             queuedOwner' = [queuedOwner EXCEPT ![submits[c].ref] = IF @ = c THEN 0 ELSE @],
             releaseTask' = [releaseTask EXCEPT ![submits[c].ref] = c],
             UNCHANGED <<permits, locked>>
      PROVE  Begins(c)
  <2>1. submits[c].session \in DOMAIN runtimes /\ submits[c].ref \in Refs
    BY <1>1, NamesBuilt
  <2>2. SubmitNow(c, "running", submits[c].session, submits[c].lock)
    BY <1>3, GotoDoes DEF Typed, SubmitPcs
  <2>3. StateNow(submits[c].session, "busy")
    BY <1>3, <2>1, SetStateDoes DEF Typed
  <2>4. /\ queuedOwner' \in [Refs -> Nat]
        /\ \A r \in Refs : queuedOwner[r] # c => queuedOwner'[r] = queuedOwner[r]
    BY <1>3, <2>1 DEF Typed, RegistryTyped
  <2>5. /\ releaseTask' \in [Refs -> Nat] /\ releaseTask'[submits[c].ref] = c
        /\ \A r \in Refs : r # submits[c].ref => releaseTask'[r] = releaseTask[r]
    BY <1>3, <2>1 DEF Typed, RegistryTyped, SubmitIds
  <2>6. UNCHANGED <<mgrClosed, sessions, submitLock, lockCount, lifecycle, closing, leaked,
                    permits, locked>>
    BY <1>3 DEF Starts
  <2>7. RegistryTyped'
    BY <2>4, <2>5, <2>6 DEF Typed, RegistryTyped
  <2> QED BY <1>1, <1>3, <2>2, <2>3, <2>4, <2>5, <2>6, <2>7 DEF Starts, Begins
<1> QED BY <1>2, <1>3 DEF Starts

\* A revoked submit gives back what it holds.
LEMMA RevokedDoes ==
  ASSUME Typed, Built, RefsAgree, HoldersKnown, NEW c \in SubmitIds, Revoked(c)
  PROVE  GivesUp(c)
<1>1. /\ submits[c].pc = "revoked" /\ c \in Reserving /\ permits \in Nat /\ leaked \in Nat
  BY DEF Revoked, Reserving, Typed, RegistryTyped
<1> QED BY <1>1, CleanUpDoes DEF Revoked, permitVars

\* A cancelled caller gives back what it holds, if it holds something.
LEMMA CallerCancelsDoes ==
  ASSUME Typed, Built, RefsAgree, HoldersKnown, NEW c \in SubmitIds, CallerCancels(c)
  PROVE  GivesUp(c) \/ Wanders(c)
<1>1. permits \in Nat /\ leaked \in Nat
  BY DEF Typed, RegistryTyped
<1>2. CASE /\ submits[c].pc \in {"open", "joinClose", "submit", "joinRelease"}
           /\ Goto(c, "failed")
           /\ UNCHANGED <<runtimes, locked, queuedOwner, waiting, leaked>>
  <2>1. SubmitNow(c, "failed", submits[c].session, submits[c].lock)
    BY <1>2, GotoDoes DEF Typed, SubmitPcs
  <2>2. c \notin LockHolders /\ submits[c].pc # "new"
    BY <1>2 DEF LockHolders
  <2>3. RegistryTyped'
    BY <1>2 DEF CallerCancels, Typed, RegistryTyped
  <2> QED BY <1>2, <2>1, <2>2, <2>3, GoesOnWanders DEF CallerCancels
<1>3. CASE submits[c].pc = "queued" /\ CleanUp(c) /\ UNCHANGED leaked
  <2>1. c \in Reserving
    BY <1>3 DEF Reserving
  <2> QED BY <1>1, <1>3, <2>1, CleanUpDoes DEF CallerCancels
<1>4. CASE submits[c].pc = "granted" /\ CleanUp(c) /\ leaked' = leaked + 1
  <2>1. c \in Reserving
    BY <1>4 DEF Reserving
  <2> QED BY <1>1, <1>4, <2>1, CleanUpDoes DEF CallerCancels
<1> QED BY <1>2, <1>3, <1>4 DEF CallerCancels

\* A turn settles or is abandoned: the runtime is left to its release.
LEMMA SettlesDoes ==
  ASSUME Typed, Built, RefsAgree, NEW c \in SubmitIds, TurnSettles(c) \/ TurnAbandoned(c)
  PROVE  Settles(c)
<1>1. submits[c].pc = "running" /\ Goto(c, "settled") /\ SetState(submits[c].session, "free")
  BY DEF TurnSettles, TurnAbandoned
<1>2. submits[c].session \in DOMAIN runtimes
  BY <1>1, NamesBuilt DEF LockHolders
<1>3. SubmitNow(c, "settled", submits[c].session, submits[c].lock)
  BY <1>1, GotoDoes DEF Typed, SubmitPcs
<1>4. StateNow(submits[c].session, "free")
  BY <1>1, <1>2, SetStateDoes DEF Typed
<1>5. /\ ClosesTyped'
      /\ \A k \in CloseIds :
            /\ closes'[k].ref = closes[k].ref /\ closes'[k].session = closes[k].session
            /\ closes'[k].join = closes[k].join
            /\ closes'[k].pc # closes[k].pc =>
                  closes[k].pc = "turn" /\ closes'[k].pc = "raise"
  <2>1. CASE TurnSettles(c)
    BY <2>1 DEF TurnSettles, Typed, ClosesTyped
  <2>2. CASE TurnAbandoned(c)
    <3>1. \A k \in CloseIds :
            closes'[k] = IF closes[k].pc = "turn" /\ closes[k].session = submits[c].session
                         THEN [closes[k] EXCEPT !.pc = "raise"] ELSE closes[k]
      BY <2>2 DEF TurnAbandoned
    <3>2. \A k \in CloseIds : closes[k] \in CloseType
      BY DEF Typed, ClosesTyped
    <3>3. \A k \in CloseIds :
            /\ closes'[k] \in CloseType
            /\ closes'[k].ref = closes[k].ref /\ closes'[k].session = closes[k].session
            /\ closes'[k].join = closes[k].join
            /\ closes'[k].pc # closes[k].pc =>
                  closes[k].pc = "turn" /\ closes'[k].pc = "raise"
      BY <3>1, <3>2, ZenonT(40) DEF CloseType, ClosePcs
    <3> QED BY <2>2, <3>3 DEF TurnAbandoned, ClosesTyped
  <2> QED BY <2>1, <2>2
<1> QED BY <1>1, <1>3, <1>4, <1>5 DEF TurnSettles, TurnAbandoned, Settles, permitVars

\* The release task gives the permit and the lock back.
LEMMA ReleasesDoes ==
  ASSUME Typed, Built, RefsAgree, NEW c \in SubmitIds, ReleaseWhenDone(c)
  PROVE  Releases(c)
<1>1. SubmitNow(c, "freed", submits[c].session, submits[c].lock)
  BY GotoDoes DEF ReleaseWhenDone, Typed, SubmitPcs
<1>2. /\ submits[c].pc = "settled" /\ permits' = permits + 1
      /\ locked' = locked \ {submits[c].lock}
      /\ UNCHANGED <<mgrClosed, sessions, runtimes, submitLock, lockCount, lifecycle, closing,
                     queuedOwner, releaseTask, closes, shutdown, leaked>>
  BY DEF ReleaseWhenDone, registryVars
<1>3. permits \in Nat /\ locked \subseteq Nat
  BY DEF Typed, RegistryTyped
<1>4. permits' \in Nat
  BY <1>2, <1>3
<1>5. locked' \subseteq Nat
  BY <1>2, <1>3
<1>6. UNCHANGED <<mgrClosed, sessions, submitLock, lockCount, lifecycle, closing, queuedOwner,
                  releaseTask, leaked>>
  BY <1>2
<1>7. RegistryTyped'
  BY <1>4, <1>5, <1>6 DEF Typed, RegistryTyped
<1> QED BY <1>1, <1>2, <1>7 DEF Releases

\* A close that has claimed nothing looks around.
CloseWanders(k) ==
    /\ closes[k].pc \in {"new", "claim", "joinClose"}
    /\ ClosesTyped' /\ OtherCloses(k)
    /\ closes'[k].pc \in {"claim", "joinClose", "done", "failed"}
    /\ closes'[k].session = closes[k].session /\ closes'[k].ref \in Refs
    /\ RegistryTyped'
    /\ \A r \in Refs : submitLock[r] # 0 => submitLock'[r] = submitLock[r]
    /\ UNCHANGED <<mgrClosed, sessions, runtimes, locked, lifecycle, closing, queuedOwner,
                   releaseTask, permits, submits, shutdown, leaked>>

\* A strict close or a delete drops a free runtime, or finds none.
ClosesFree(k) ==
    LET ref == closes[k].ref IN
    /\ closes[k].pc = "claim" /\ ref \in Refs
    /\ closing[ref] = 0 /\ lifecycle[ref] = 0
    /\ sessions[ref] # 0 => runtimes[sessions[ref]].state = "free"
    /\ \E pc \in {"done", "purge"} :
          /\ CloseNow(k, pc, closes[k].session)
          /\ pc = "purge" => lifecycle'[ref] = k
    /\ ClosedNow({sessions[ref]})
    /\ RegistryTyped'
    /\ sessions'[ref] = 0
    /\ \A r \in Refs : r # ref => /\ sessions'[r] = sessions[r]
                                  /\ submitLock'[r] = submitLock[r]
                                  /\ lifecycle'[r] = lifecycle[r]
    /\ UNCHANGED <<mgrClosed, locked, closing, queuedOwner, releaseTask, permits, submits,
                   shutdown, leaked>>

\* A close is published, and revokes the queued submit.
ClosesBegin(k) ==
    LET ref == closes[k].ref IN
    /\ closes[k].pc = "claim" /\ ref \in Refs
    /\ closing[ref] = 0 /\ sessions[ref] # 0
    /\ CloseNow(k, "owner", sessions[ref])
    /\ closes'[k].join = queuedOwner[ref]
    /\ RegistryTyped'
    /\ closing'[ref] = k /\ \A r \in Refs : r # ref => closing'[r] = closing[r]
    /\ RevokedNow({queuedOwner[ref]})
    /\ UNCHANGED <<mgrClosed, sessions, runtimes, submitLock, locked, lifecycle, queuedOwner,
                   releaseTask, permits, shutdown, leaked>>

ClosesSession(k) ==
    /\ closes[k].pc = "owner" /\ OwnerGone(k)
    /\ CloseNow(k, "turn", closes[k].session)
    /\ ClosedNow({closes[k].session})
    /\ RegistryTyped'
    /\ UNCHANGED <<mgrClosed, sessions, submitLock, locked, lifecycle, closing, queuedOwner,
                   releaseTask, permits, submits, shutdown, leaked>>

ClosesTurn(k) ==
    /\ closes[k].pc = "turn" /\ runtimes[closes[k].session].state # "busy"
    /\ CloseNow(k, "release", closes[k].session)
    /\ closes'[k].join = releaseTask[closes[k].ref]
    /\ RegistryTyped'
    /\ UNCHANGED <<mgrClosed, sessions, runtimes, submitLock, locked, lifecycle, closing,
                   queuedOwner, releaseTask, permits, submits, shutdown, leaked>>

\* The generation that a close has drained leaves the registry.
ClosesDone(k) ==
    LET ref == closes[k].ref IN
    /\ closes[k].pc = "release"
    /\ \A c \in {closes[k].join} \ {0} : submits[c].pc \in {"freed", "done"}
    /\ CloseNow(k, "done", closes[k].session)
    /\ RegistryTyped'
    /\ sessions'[ref] = IF sessions[ref] = closes[k].session THEN 0 ELSE sessions[ref]
    /\ sessions[ref] # closes[k].session => submitLock'[ref] = submitLock[ref]
    /\ \A r \in Refs : r # ref => /\ sessions'[r] = sessions[r]
                                  /\ submitLock'[r] = submitLock[r]
                                  /\ closing'[r] = closing[r]
    /\ UNCHANGED <<mgrClosed, runtimes, locked, lifecycle, queuedOwner, releaseTask, permits,
                   submits, shutdown, leaked>>

\* A close raises, or a purge is over: for the caller, for the thread, or both.
CloseEnds(k) ==
    LET ref == closes[k].ref IN
    /\ \/ /\ closes[k].pc \in {"raise", "release"} /\ CloseNow(k, "failed", closes[k].session)
          /\ \A r \in Refs : r # ref => closing'[r] = closing[r]
          /\ UNCHANGED lifecycle
       \/ /\ closes[k].pc = "purge"
          /\ \E pc \in {"done", "left"} : CloseNow(k, pc, closes[k].session)
          /\ \A r \in Refs : r # ref => lifecycle'[r] = lifecycle[r]
          /\ UNCHANGED closing
       \/ /\ closes[k].pc = "left" /\ CloseNow(k, "failed", closes[k].session)
          /\ UNCHANGED <<lifecycle, closing>>
    /\ RegistryTyped'
    /\ UNCHANGED <<mgrClosed, sessions, runtimes, submitLock, locked, queuedOwner, releaseTask,
                   permits, submits, shutdown, leaked>>

\* A call of close touches no runtime.
LEMMA CloseCallsDoes ==
  ASSUME Typed, RefsAgree, NEW k \in CloseIds, NEW ref \in Refs, NEW mode \in CloseModes,
         CloseCalls(k, ref, mode)
  PROVE  CloseWanders(k)
<1>1. closes[k].pc = "new" /\ closes[k] \in CloseType
  BY DEF CloseCalls, Typed, ClosesTyped, CloseIds
<1>2. PICK pc \in {"done", "claim"} :
        closes' = [closes EXCEPT ![k].ref = ref, ![k].mode = mode, ![k].pc = pc]
  BY DEF CloseCalls
<1>3. /\ ClosesTyped' /\ OtherCloses(k)
      /\ closes'[k].pc = pc /\ closes'[k].ref = ref /\ closes'[k].session = closes[k].session
  BY <1>2, ZenonT(40) DEF Typed, ClosesTyped, CloseType, ClosePcs, OtherCloses
<1>4. RegistryTyped' /\ \A r \in Refs : submitLock[r] # 0 => submitLock'[r] = submitLock[r]
  BY DEF CloseCalls, EnsureSubmitLock, Typed, RegistryTyped, permitVars
<1> QED BY <1>1, <1>3, <1>4 DEF CloseCalls, CloseWanders, permitVars

\* A close that only moves to another step.
LEMMA ClosePc ==
  ASSUME ClosesTyped, NEW k \in CloseIds, NEW pc \in ClosePcs,
         closes' = [closes EXCEPT ![k].pc = pc]
  PROVE  CloseNow(k, pc, closes[k].session)
BY DEF ClosesTyped, CloseType, CloseNow, OtherCloses

\* A close that joins another one keeps its runtime.
LEMMA CloseJoin ==
  ASSUME ClosesTyped, NEW k \in CloseIds, NEW pc \in ClosePcs, NEW j \in Nat,
         closes' = [closes EXCEPT ![k].pc = pc, ![k].join = j]
  PROVE  CloseNow(k, pc, closes[k].session) /\ closes'[k].join = j
BY DEF ClosesTyped, CloseType, CloseNow, OtherCloses

\* A close that has joined another one ends as that one did; a delete tries again.
LEMMA CloseJoinedDoes ==
  ASSUME Typed, RefsAgree, NEW k \in CloseIds, CloseJoined(k)
  PROVE  CloseWanders(k)
<1>1. closes[k].pc = "joinClose" /\ closes[k].ref \in Refs
  BY DEF CloseJoined, RefsAgree
<1>2. PICK pc \in {"claim", "done", "failed"} : closes' = [closes EXCEPT ![k].pc = pc]
  BY DEF CloseJoined
<1>3. CloseNow(k, pc, closes[k].session)
  BY <1>2, ClosePc DEF Typed, ClosePcs
<1>4. RegistryTyped'
  BY DEF CloseJoined, Typed, RegistryTyped, registryVars, permitVars
<1> QED BY <1>1, <1>3, <1>4 DEF CloseJoined, CloseWanders, CloseNow, registryVars, permitVars

\* A strict close closes a free runtime, or is refused.
LEMMA ClosesStrictlyDoes ==
  ASSUME Typed, Built, RefsAgree, NEW k \in CloseIds, CloseClaims(k),
         closing[closes[k].ref] = 0, ClosesStrictly(k)
  PROVE  CloseWanders(k) \/ ClosesFree(k)
<1>1. /\ closes[k].pc = "claim" /\ closes[k].ref \in Refs /\ lifecycle[closes[k].ref] = 0
      /\ UNCHANGED <<mgrClosed, lockCount, locked, queuedOwner, releaseTask, permits,
                     shutdown, leaked>>
      /\ UNCHANGED <<closing, submits>>
  BY DEF CloseClaims, ClosesStrictly, RefsAgree, LifecycleFree
<1>2. CASE closes' = [closes EXCEPT ![k].pc = "done"] /\ UNCHANGED <<sessions, submitLock, runtimes, lifecycle>>
  <2>1. CloseNow(k, "done", closes[k].session)
    BY <1>2, ClosePc DEF Typed, ClosePcs
  <2>2. RegistryTyped'
    BY <1>1, <1>2 DEF Typed, RegistryTyped
  <2> QED BY <1>1, <1>2, <2>1, <2>2 DEF CloseWanders, CloseNow
<1>3. ASSUME sessions[closes[k].ref] # 0 => runtimes[sessions[closes[k].ref]].state = "free",
             NEW pc \in {"done", "purge"},
             closes' = [closes EXCEPT ![k].pc = pc],
             lifecycle' = IF pc = "purge" THEN [lifecycle EXCEPT ![closes[k].ref] = k]
                                          ELSE lifecycle,
             IF sessions[closes[k].ref] = 0
             THEN UNCHANGED <<sessions, submitLock, runtimes>>
             ELSE Detach(closes[k].ref) /\ MarkClosed(sessions[closes[k].ref])
      PROVE  ClosesFree(k)
  <2>1. CloseNow(k, pc, closes[k].session)
    BY <1>3, ClosePc DEF Typed, ClosePcs
  <2>2. /\ lifecycle' \in [Refs -> Nat]
        /\ pc = "purge" => lifecycle'[closes[k].ref] = k
        /\ \A r \in Refs : r # closes[k].ref => lifecycle'[r] = lifecycle[r]
    BY <1>1, <1>3 DEF Typed, RegistryTyped, CloseIds
  <2>3. /\ sessions' \in [Refs -> Nat] /\ submitLock' \in [Refs -> Nat]
        /\ sessions'[closes[k].ref] = 0
        /\ \A r \in Refs : r # closes[k].ref => /\ sessions'[r] = sessions[r]
                                                /\ submitLock'[r] = submitLock[r]
    BY <1>1, <1>3 DEF Detach, Typed, RegistryTyped
  <2>4. ClosedNow({sessions[closes[k].ref]})
    <3>1. CASE sessions[closes[k].ref] = 0
      <4>1. \A u \in DOMAIN runtimes : u # 0 /\ runtimes[u] \in RuntimeType
        BY ElementOf DEF Typed, RuntimesTyped
      <4> QED BY <1>3, <3>1, <4>1 DEF ClosedNow, Typed, RuntimesTyped, RuntimeType
    <3>2. CASE sessions[closes[k].ref] # 0
      BY <1>1, <1>3, <3>2, RegisteredBuilt, MarkClosedDoes DEF Typed
    <3> QED BY <3>1, <3>2
  <2>5. RegistryTyped'
    BY <1>1, <2>2, <2>3 DEF Typed, RegistryTyped
  <2> QED BY <1>1, <1>3, <2>1, <2>2, <2>3, <2>4, <2>5 DEF ClosesFree
<1> QED BY <1>2, <1>3 DEF ClosesStrictly

\* A close of an active runtime revokes and begins to wait.
LEMMA ClosesActiveDoes ==
  ASSUME Typed, Built, RefsAgree, NEW k \in CloseIds, CloseClaims(k),
         closing[closes[k].ref] = 0, ClosesActive(k)
  PROVE  ClosesBegin(k)
<1>1. /\ closes[k].pc = "claim" /\ closes[k].ref \in Refs
      /\ UNCHANGED <<mgrClosed, lockCount, locked, queuedOwner, releaseTask, permits,
                     shutdown, leaked>>
      /\ UNCHANGED <<sessions, submitLock, runtimes, lifecycle>>
  BY DEF CloseClaims, ClosesActive, RefsAgree
<1>2. sessions[closes[k].ref] \in Nat /\ queuedOwner[closes[k].ref] \in Nat
  BY <1>1 DEF Typed, RegistryTyped
<1>3. CloseNow(k, "owner", sessions[closes[k].ref]) /\ closes'[k].join = queuedOwner[closes[k].ref]
  BY <1>2, ZenonT(40) DEF ClosesActive, Typed, ClosesTyped, CloseType, ClosePcs, CloseNow, OtherCloses
<1>4. /\ closing' \in [Refs -> Nat] /\ closing'[closes[k].ref] = k
      /\ \A r \in Refs : r # closes[k].ref => closing'[r] = closing[r]
  BY <1>1 DEF ClosesActive, Typed, RegistryTyped, CloseIds
<1>5. RevokedNow({queuedOwner[closes[k].ref]})
  BY RevokeDoes DEF ClosesActive, Typed
<1>6. RegistryTyped'
  BY <1>1, <1>4 DEF Typed, RegistryTyped
<1>7. sessions[closes[k].ref] # 0
  BY DEF ClosesActive
<1> QED BY <1>1, <1>3, <1>4, <1>5, <1>6, <1>7 DEF ClosesBegin

\* A close finds nothing, closes at once, or begins to wait.
LEMMA CloseClaimsDoes ==
  ASSUME Typed, Built, RefsAgree, NEW k \in CloseIds, CloseClaims(k)
  PROVE  CloseWanders(k) \/ ClosesFree(k) \/ ClosesBegin(k)
<1>1. /\ closes[k].pc = "claim" /\ closes[k].ref \in Refs
      /\ UNCHANGED <<mgrClosed, lockCount, locked, queuedOwner, releaseTask, permits,
                     shutdown, leaked>>
  BY DEF CloseClaims, RefsAgree
<1>2. CASE /\ closes' = [closes EXCEPT ![k].pc = "done"]
           /\ UNCHANGED <<sessions, submitLock, runtimes, lifecycle, closing, submits, waiting>>
  <2>1. CloseNow(k, "done", closes[k].session)
    BY <1>2, ClosePc DEF Typed, ClosePcs
  <2>2. RegistryTyped'
    BY <1>1, <1>2 DEF Typed, RegistryTyped
  <2> QED BY <1>1, <1>2, <2>1, <2>2 DEF CloseWanders, CloseNow
<1>3. CASE /\ closes' = [closes EXCEPT ![k].pc = "joinClose", ![k].join = closing[closes[k].ref]]
           /\ UNCHANGED <<sessions, submitLock, runtimes, lifecycle, closing, submits, waiting>>
  <2>1. closing[closes[k].ref] \in Nat
    BY <1>1 DEF Typed, RegistryTyped
  <2>2. CloseNow(k, "joinClose", closes[k].session)
    BY <1>3, <2>1, CloseJoin, ZenonT(40) DEF Typed, ClosePcs
  <2>3. RegistryTyped'
    BY <1>1, <1>3 DEF Typed, RegistryTyped
  <2> QED BY <1>1, <1>3, <2>2, <2>3 DEF CloseWanders, CloseNow
<1> QED BY <1>2, <1>3, ClosesStrictlyDoes, ClosesActiveDoes DEF CloseClaims

\* What the steps of _finish_close do.
LEMMA FinishDoes ==
  ASSUME Typed, Built, RefsAgree, ClosesKnow, NEW k \in CloseIds
  PROVE  /\ FinishCloseSession(k) => ClosesSession(k)
         /\ FinishCloseTurn(k) => ClosesTurn(k)
         /\ FinishClose(k) => ClosesDone(k)
         /\ FinishCloseFails(k) \/ Purged(k) \/ PurgeEnds(k) => CloseEnds(k)
<1>1. RegistryTyped /\ ClosesTyped /\ RuntimesTyped
  BY DEF Typed
<1>2. closes[k].pc # "new" => closes[k].ref \in Refs
  BY DEF RefsAgree
<1>3. ASSUME FinishCloseSession(k) PROVE ClosesSession(k)
  <2>1. CloseNow(k, "turn", closes[k].session)
    BY <1>1, <1>3, ClosePc DEF FinishCloseSession, ClosePcs
  <2>2. closes[k].session \in DOMAIN runtimes
    <3>1. closes[k].session # 0
      BY <1>3 DEF FinishCloseSession, ClosesKnow, CloseKnows, ClosesActively
    <3>2. closes[k].session \in Nat /\ closes[k].session <= Len(runtimes)
      BY <1>1 DEF ClosesTyped, CloseType, Built
    <3> QED BY <1>1, <3>1, <3>2 DEF RuntimesTyped
  <2>3. ClosedNow({closes[k].session})
    BY <1>1, <1>3, <2>2, MarkClosedDoes DEF FinishCloseSession
  <2>4. RegistryTyped'
    BY <1>1, <1>3 DEF FinishCloseSession, RegistryTyped, permitVars
  <2> QED BY <1>3, <2>1, <2>3, <2>4 DEF FinishCloseSession, ClosesSession, permitVars
<1>4. ASSUME FinishCloseTurn(k) PROVE ClosesTurn(k)
  <2>1. releaseTask[closes[k].ref] \in Nat
    BY <1>1, <1>2, <1>4 DEF FinishCloseTurn, RegistryTyped
  <2>2. CloseNow(k, "release", closes[k].session) /\ closes'[k].join = releaseTask[closes[k].ref]
    BY <1>1, <1>4, <2>1, CloseJoin, ZenonT(40) DEF FinishCloseTurn, PriorRelease, ClosePcs
  <2>3. RegistryTyped'
    BY <1>1, <1>4 DEF FinishCloseTurn, RegistryTyped, permitVars, registryVars
  <2> QED BY <1>4, <2>2, <2>3 DEF FinishCloseTurn, ClosesTurn, permitVars, registryVars
<1>5. ASSUME FinishClose(k) PROVE ClosesDone(k)
  <2>1. CloseNow(k, "done", closes[k].session)
    BY <1>1, <1>5, ClosePc DEF FinishClose, ClosePcs
  <2>2. closes[k].ref \in Refs
    BY <1>2, <1>5 DEF FinishClose
  <2>3. /\ closing' \in [Refs -> Nat]
        /\ \A r \in Refs : r # closes[k].ref => closing'[r] = closing[r]
    BY <1>1, <1>5 DEF FinishClose, RegistryTyped
  <2>4. /\ sessions' \in [Refs -> Nat] /\ submitLock' \in [Refs -> Nat]
        /\ sessions'[closes[k].ref] = IF sessions[closes[k].ref] = closes[k].session
                                      THEN 0 ELSE sessions[closes[k].ref]
        /\ sessions[closes[k].ref] # closes[k].session =>
              submitLock'[closes[k].ref] = submitLock[closes[k].ref]
        /\ \A r \in Refs : r # closes[k].ref => /\ sessions'[r] = sessions[r]
                                                /\ submitLock'[r] = submitLock[r]
    BY <1>1, <1>5, <2>2 DEF FinishClose, Detach, RegistryTyped
  <2>5. UNCHANGED <<mgrClosed, runtimes, lockCount, locked, lifecycle, queuedOwner, releaseTask,
                    permits, submits, shutdown, leaked>>
    BY <1>5 DEF FinishClose, permitVars
  <2>6. RegistryTyped'
    BY <1>1, <2>3, <2>4, <2>5 DEF RegistryTyped
  <2> QED BY <1>5, <2>1, <2>3, <2>4, <2>5, <2>6 DEF FinishClose, ClosesDone
<1>6. ASSUME FinishCloseFails(k) PROVE CloseEnds(k)
  <2>1. CloseNow(k, "failed", closes[k].session)
    BY <1>1, <1>6, ClosePc DEF FinishCloseFails, ClosePcs
  <2>2. /\ closing' \in [Refs -> Nat]
        /\ \A r \in Refs : r # closes[k].ref => closing'[r] = closing[r]
    BY <1>1, <1>6 DEF FinishCloseFails, RegistryTyped
  <2>3. UNCHANGED <<mgrClosed, sessions, runtimes, submitLock, lockCount, locked, lifecycle,
                    queuedOwner, releaseTask, permits, submits, shutdown, leaked>>
    BY <1>6 DEF FinishCloseFails, permitVars
  <2>4. RegistryTyped'
    BY <1>1, <2>2, <2>3 DEF RegistryTyped
  <2> QED BY <1>6, <2>1, <2>2, <2>3, <2>4 DEF FinishCloseFails, CloseEnds
<1>7. ASSUME Purged(k) PROVE CloseEnds(k)
  <2>1. CloseNow(k, "done", closes[k].session)
    BY <1>1, <1>7, ClosePc DEF Purged, ClosePcs
  <2>2. /\ lifecycle' \in [Refs -> Nat]
        /\ \A r \in Refs : r # closes[k].ref => lifecycle'[r] = lifecycle[r]
    BY <1>1, <1>7 DEF Purged, RegistryTyped
  <2>3. UNCHANGED <<mgrClosed, sessions, runtimes, submitLock, lockCount, locked, closing,
                    queuedOwner, releaseTask, permits, submits, shutdown, leaked>>
    BY <1>7 DEF Purged, permitVars
  <2>4. RegistryTyped'
    BY <1>1, <2>2, <2>3 DEF RegistryTyped
  <2> QED BY <1>7, <2>1, <2>2, <2>3, <2>4 DEF Purged, CloseEnds
<1>8. ASSUME PurgeEnds(k) PROVE CloseEnds(k)
  <2>1. CloseNow(k, "failed", closes[k].session)
    BY <1>1, <1>8, ClosePc DEF PurgeEnds, ClosePcs
  <2>2. RegistryTyped'
    BY <1>1, <1>8 DEF PurgeEnds, RegistryTyped, registryVars, permitVars
  <2> QED BY <1>8, <2>1, <2>2 DEF PurgeEnds, CloseEnds, registryVars, permitVars
<1> QED BY <1>3, <1>4, <1>5, <1>6, <1>7, <1>8

\* A close or a delete whose caller is cancelled has not claimed a generation.
LEMMA CloseCancelledDoes ==
  ASSUME Typed, RefsAgree, NEW k \in CloseIds, CloseCancelled(k)
  PROVE  CloseWanders(k) \/ CloseEnds(k)
<1>1. RegistryTyped /\ ClosesTyped
  BY DEF Typed
<1>2. closes[k].pc # "new" => closes[k].ref \in Refs
  BY DEF RefsAgree
<1>3. CASE closes[k].pc \in {"claim", "joinClose"}
  <2>1. CloseNow(k, "failed", closes[k].session)
    BY <1>1, <1>3, ClosePc DEF CloseCancelled, ClosePcs
  <2>2. RegistryTyped' /\ UNCHANGED lifecycle
    BY <1>1, <1>3 DEF CloseCancelled, RegistryTyped, permitVars
  <2> QED BY <1>2, <1>3, <2>1, <2>2 DEF CloseCancelled, CloseWanders, CloseNow, permitVars
<1>4. CASE closes[k].pc = "purge"
  <2>1. CloseNow(k, "left", closes[k].session)
    BY <1>1, <1>4, ClosePc DEF CloseCancelled, ClosePcs
  <2>2. /\ lifecycle' \in [Refs -> Nat]
        /\ \A r \in Refs : r # closes[k].ref => lifecycle'[r] = lifecycle[r]
    BY <1>1, <1>4 DEF CloseCancelled, RegistryTyped
  <2>3. UNCHANGED <<mgrClosed, sessions, runtimes, submitLock, lockCount, locked, closing,
                    queuedOwner, releaseTask, permits, submits, shutdown, leaked>>
    BY DEF CloseCancelled, permitVars
  <2>4. RegistryTyped'
    BY <1>1, <2>2, <2>3 DEF RegistryTyped
  <2> QED BY <1>4, <2>1, <2>2, <2>3, <2>4 DEF CloseEnds
<1> QED BY <1>3, <1>4 DEF CloseCancelled
ShutdownBegins ==
    /\ ~mgrClosed /\ mgrClosed'
    /\ RegistryTyped' /\ ShutdownTyped'
    /\ shutdown'.pc = "owners" /\ shutdown'.sessions = Registered
    /\ shutdown'.owners = {queuedOwner[r] : r \in Refs} \ {0}
    /\ RevokedNow({queuedOwner[r] : r \in Refs} \ {0})
    /\ UNCHANGED <<sessions, runtimes, submitLock, locked, lifecycle, closing, queuedOwner,
                   releaseTask, permits, closes, leaked>>

ShutdownCloses ==
    /\ shutdown.pc = "owners"
    /\ \A c \in shutdown.owners : CleanedUp(c)
    /\ RegistryTyped' /\ ShutdownTyped'
    /\ shutdown'.pc = "turns"
    /\ ClosedNow(shutdown.sessions)
    /\ UNCHANGED <<mgrClosed, sessions, submitLock, locked, lifecycle, closing, queuedOwner,
                   releaseTask, permits, submits, closes, leaked>>

ShutdownEnds ==
    /\ shutdown.pc = "turns"
    /\ \A c \in SubmitIds : submits[c].pc \notin {"running", "settled"}
    /\ RegistryTyped' /\ ShutdownTyped'
    /\ shutdown'.pc = "done"
    /\ \A r \in Refs : sessions'[r] = 0
    /\ UNCHANGED <<mgrClosed, runtimes, locked, lifecycle, closing, releaseTask, permits, submits,
                   closes, leaked>>

\* A shutdown closes the manager and revokes the reservations it finds.
LEMMA ShutdownClaimsDoes ==
  ASSUME Typed, ShutdownClaims
  PROVE  ShutdownBegins
<1> DEFINE owners == {queuedOwner[r] : r \in Refs} \ {0}
<1>1. RevokedNow(owners)
  BY RevokeDoes DEF ShutdownClaims, Typed
<1>2. RegistryTyped'
  BY DEF ShutdownClaims, Typed, RegistryTyped, registryVars
<1>3. shutdown' = [pc |-> "owners", owners |-> owners, sessions |-> Registered]
  BY DEF ShutdownClaims
<1>4. owners \in SUBSET Nat /\ Registered \in SUBSET Nat
  BY DEF Typed, RegistryTyped, Registered
<1>5. ShutdownTyped'
  <2> HIDE DEF owners
  <2> QED BY <1>3, <1>4 DEF ShutdownTyped
<1> QED BY <1>1, <1>2, <1>3, <1>5 DEF ShutdownClaims, ShutdownBegins, registryVars

\* A shutdown closes every runtime.
LEMMA ShutdownSessionsDoes ==
  ASSUME Typed, ShutdownSessions
  PROVE  ShutdownCloses
<1>1. \A u \in DOMAIN runtimes : runtimes[u] \in RuntimeType
  BY ElementOf DEF Typed, RuntimesTyped
<1>2. \A u \in DOMAIN runtimes :
        runtimes'[u] = IF u \in shutdown.sessions THEN [runtimes[u] EXCEPT !.closed = TRUE]
                                                  ELSE runtimes[u]
  BY DEF ShutdownSessions
<1>3. \A u \in DOMAIN runtimes :
        /\ runtimes'[u] \in RuntimeType
        /\ runtimes'[u].ref = runtimes[u].ref /\ runtimes'[u].state = runtimes[u].state
        /\ runtimes'[u].closed = (runtimes[u].closed \/ u \in shutdown.sessions)
  BY <1>1, <1>2 DEF RuntimeType
<1>4. runtimes' \in [DOMAIN runtimes -> RuntimeType]
  BY <1>3 DEF ShutdownSessions
<1>5. ClosedNow(shutdown.sessions)
  BY <1>3, <1>4, RuntimesStay DEF ClosedNow, Typed
<1>6. ShutdownTyped' /\ shutdown'.pc = "turns"
  BY DEF ShutdownSessions, Typed, ShutdownTyped
<1>7. RegistryTyped'
  BY DEF ShutdownSessions, Typed, RegistryTyped, permitVars
<1> QED BY <1>5, <1>6, <1>7 DEF ShutdownSessions, ShutdownCloses, permitVars

\* A shutdown forgets the runtimes it has closed.
LEMMA ShutdownFinishesDoes ==
  ASSUME Typed, ShutdownFinishes
  PROVE  ShutdownEnds
<1>1. ShutdownTyped' /\ shutdown'.pc = "done"
  BY DEF ShutdownFinishes, Typed, ShutdownTyped
<1>2. RegistryTyped'
  BY DEF ShutdownFinishes, Typed, RegistryTyped, permitVars
<1> QED BY <1>1, <1>2 DEF ShutdownFinishes, ShutdownEnds, permitVars

\* Every step is one of these.
SubmitSteps(c) ==
    \/ Wanders(c) \/ Builds(c) \/ Reserves(c) \/ Granted(c) \/ GivesUp(c)
    \/ Begins(c) \/ Settles(c) \/ Releases(c)
CloseSteps(k) ==
    \/ CloseWanders(k) \/ ClosesFree(k) \/ ClosesBegin(k) \/ ClosesSession(k)
    \/ ClosesTurn(k) \/ ClosesDone(k) \/ CloseEnds(k)
ShutdownSteps == ShutdownBegins \/ ShutdownCloses \/ ShutdownEnds

\* Every step is one of a submit, of a close or of the shutdown.
LEMMA StepsAreThese ==
  ASSUME ManagerInv, [Next]_vars
  PROVE  \/ \E c \in SubmitIds : SubmitSteps(c)
         \/ \E k \in CloseIds : CloseSteps(k)
         \/ ShutdownSteps
         \/ UNCHANGED vars
<1>0. Typed /\ Built /\ RefsAgree /\ HoldersKnown /\ ClosesKnow
  BY DEF ManagerInv
<1>1. ASSUME NEW c \in SubmitIds, NEW ref \in Refs, SubmitCalls(c, ref) PROVE SubmitSteps(c)
  BY <1>0, <1>1, SubmitCallsDoes DEF SubmitSteps
<1>2. ASSUME NEW c \in SubmitIds, SubmitRuns(c) PROVE SubmitSteps(c)
  BY <1>0, <1>2, OpensDoes, JoinsDo, EnqueuesDoes, GrantsDoes, StartsDoes, RevokedDoes,
     SettlesDoes, ReleasesDoes DEF SubmitRuns, SubmitSteps
<1>3. ASSUME NEW c \in SubmitIds, CallerCancels(c) \/ TurnAbandoned(c) PROVE SubmitSteps(c)
  BY <1>0, <1>3, CallerCancelsDoes, SettlesDoes DEF SubmitSteps
<1>4. ASSUME NEW k \in CloseIds, NEW ref \in Refs, NEW mode \in CloseModes,
             CloseCalls(k, ref, mode)
      PROVE  CloseSteps(k)
  BY <1>0, <1>4, CloseCallsDoes DEF CloseSteps
<1>5. ASSUME NEW k \in CloseIds, CloseRuns(k) PROVE CloseSteps(k)
  BY <1>0, <1>5, CloseClaimsDoes, CloseJoinedDoes, FinishDoes DEF CloseRuns, CloseSteps
<1>6. ASSUME NEW k \in CloseIds, CloseCancelled(k) PROVE CloseSteps(k)
  BY <1>0, <1>6, CloseCancelledDoes DEF CloseSteps
<1>7. ASSUME ShutdownClaims \/ ShutdownRuns PROVE ShutdownSteps
  BY <1>0, <1>7, ShutdownClaimsDoes, ShutdownSessionsDoes, ShutdownFinishesDoes
     DEF ShutdownRuns, ShutdownSteps
<1> QED BY <1>1, <1>2, <1>3, <1>4, <1>5, <1>6, <1>7 DEF Next
-----------------------------------------------------------------------------
(* The steps keep the types, and runtimes keep their threads.              *)

\* A submit's step keeps the types.
LEMMA SubmitKeepsTypes ==
  ASSUME Typed, Built, RefsAgree, NEW c \in SubmitIds, SubmitSteps(c)
  PROVE  Typed' /\ Built'
<1>0. /\ RuntimesTyped /\ RegistryTyped /\ SubmitsTyped /\ ClosesTyped /\ ShutdownTyped
      /\ Len(runtimes) \in Nat
  BY DEF Typed, RuntimesTyped
<1>1. CASE Wanders(c)
  <2>1. Typed'
    BY <1>0, <1>1 DEF Wanders, Typed, RuntimesTyped, ClosesTyped, ShutdownTyped
  <2>2. Built'
    BY <1>0, <1>1 DEF Wanders, Built, OtherSubmits
  <2> QED BY <2>1, <2>2
<1>2. CASE Builds(c)
  <2>1. Typed'
    BY <1>0, <1>2 DEF Builds, SubmitNow, Typed, ClosesTyped, ShutdownTyped
  <2>2. Built'
    <3>1. sessions \in [Refs -> Nat] /\ \A d \in SubmitIds : submits[d].session \in Nat
      BY <1>0 DEF RegistryTyped, SubmitsTyped, SubmitType
    <3>2. \A k \in CloseIds : closes[k].session \in Nat
      BY <1>0 DEF ClosesTyped, CloseType
    <3> QED BY <1>0, <1>2, <3>1, <3>2 DEF Builds, SubmitNow, Built, OtherSubmits
  <2> QED BY <2>1, <2>2
<1>3. CASE Reserves(c)
  <2>1. Typed'
    BY <1>0, <1>3 DEF Reserves, SubmitNow, StateNow, Typed, ClosesTyped, ShutdownTyped
  <2>2. Built'
    BY <1>0, <1>3 DEF Reserves, SubmitNow, StateNow, Built, OtherSubmits
  <2> QED BY <2>1, <2>2
<1>4. CASE Granted(c) \/ Releases(c)
  <2>1. Typed'
    BY <1>0, <1>4 DEF Granted, Releases, SubmitNow, Typed, RuntimesTyped, ClosesTyped, ShutdownTyped
  <2>2. Built'
    BY <1>0, <1>4 DEF Granted, Releases, SubmitNow, Built, OtherSubmits
  <2> QED BY <2>1, <2>2
<1>5. CASE GivesUp(c)
  <2>1. Typed'
    BY <1>0, <1>5 DEF GivesUp, SubmitNow, StateNow, Typed, ClosesTyped, ShutdownTyped
  <2>2. Built'
    BY <1>0, <1>5 DEF GivesUp, SubmitNow, StateNow, Built, OtherSubmits
  <2> QED BY <2>1, <2>2
<1>6. CASE Begins(c)
  <2>1. Typed'
    BY <1>0, <1>6 DEF Begins, SubmitNow, StateNow, Typed, ClosesTyped, ShutdownTyped
  <2>2. Built'
    BY <1>0, <1>6 DEF Begins, SubmitNow, StateNow, Built, OtherSubmits
  <2> QED BY <2>1, <2>2
<1>7. CASE Settles(c)
  <2>1. Typed'
    BY <1>0, <1>7 DEF Settles, SubmitNow, StateNow, Typed, RegistryTyped, ShutdownTyped
  <2>2. Built'
    BY <1>0, <1>7 DEF Settles, SubmitNow, StateNow, Built, OtherSubmits
  <2> QED BY <2>1, <2>2
<1> QED BY <1>1, <1>2, <1>3, <1>4, <1>5, <1>6, <1>7 DEF SubmitSteps

\* A close's step keeps the types.
LEMMA CloseKeepsTypes ==
  ASSUME Typed, Built, RefsAgree, NEW k \in CloseIds, CloseSteps(k)
  PROVE  Typed' /\ Built'
<1>0. /\ RuntimesTyped /\ RegistryTyped /\ SubmitsTyped /\ ClosesTyped /\ ShutdownTyped
      /\ Len(runtimes) \in Nat
  BY DEF Typed, RuntimesTyped
<1>1. CASE CloseWanders(k)
  <2>1. Typed'
    BY <1>0, <1>1 DEF CloseWanders, Typed, RuntimesTyped, SubmitsTyped, ShutdownTyped
  <2>2. Built'
    BY <1>0, <1>1 DEF CloseWanders, Built, OtherCloses
  <2> QED BY <2>1, <2>2
<1>2. CASE ClosesFree(k)
  <2>1. Typed'
    BY <1>0, <1>2 DEF ClosesFree, CloseNow, ClosedNow, Typed, SubmitsTyped, ShutdownTyped
  <2>2. Len(runtimes') = Len(runtimes) /\ UNCHANGED submits
    BY <1>2 DEF ClosesFree, ClosedNow
  <2>3. \A r \in Refs : sessions'[r] <= Len(runtimes)
    BY <1>0, <1>2 DEF ClosesFree, Built
  <2>4. \A j \in CloseIds : closes'[j].session = closes[j].session
    BY <1>2 DEF ClosesFree, CloseNow, OtherCloses
  <2> QED BY <2>1, <2>2, <2>3, <2>4 DEF Built
<1>3. CASE ClosesBegin(k)
  <2>1. Typed'
    BY <1>0, <1>3 DEF ClosesBegin, CloseNow, RevokedNow, Typed, RuntimesTyped, ShutdownTyped
  <2>2. Built'
    BY <1>0, <1>3 DEF ClosesBegin, CloseNow, RevokedNow, Built, OtherCloses
  <2> QED BY <2>1, <2>2
<1>4. CASE ClosesSession(k)
  <2>1. Typed'
    BY <1>0, <1>4 DEF ClosesSession, CloseNow, ClosedNow, Typed, SubmitsTyped, ShutdownTyped
  <2>2. Built'
    BY <1>0, <1>4 DEF ClosesSession, CloseNow, ClosedNow, Built, OtherCloses
  <2> QED BY <2>1, <2>2
<1>5. CASE ClosesTurn(k)
  <2>1. Typed'
    BY <1>0, <1>5 DEF ClosesTurn, CloseNow, Typed, RuntimesTyped, SubmitsTyped, ShutdownTyped
  <2>2. Built'
    BY <1>0, <1>5 DEF ClosesTurn, CloseNow, Built, OtherCloses
  <2> QED BY <2>1, <2>2
<1>6. CASE ClosesDone(k)
  <2>1. Typed'
    BY <1>0, <1>6 DEF ClosesDone, CloseNow, Typed, RuntimesTyped, SubmitsTyped, ShutdownTyped
  <2>2. UNCHANGED <<runtimes, submits>>
    BY <1>6 DEF ClosesDone
  <2>3. \A r \in Refs : sessions'[r] = sessions[r] \/ sessions'[r] = 0
    BY <1>6 DEF ClosesDone
  <2>4. \A r \in Refs : sessions'[r] <= Len(runtimes)
    BY <1>0, <2>3 DEF Built
  <2>5. \A j \in CloseIds : closes'[j].session = closes[j].session
    BY <1>6 DEF ClosesDone, CloseNow, OtherCloses
  <2> QED BY <2>1, <2>2, <2>4, <2>5 DEF Built
<1>7. CASE CloseEnds(k)
  <2>1. Typed'
    BY <1>0, <1>7 DEF CloseEnds, CloseNow, Typed, RuntimesTyped, SubmitsTyped, ShutdownTyped
  <2>2. Built'
    BY <1>0, <1>7 DEF CloseEnds, CloseNow, Built, OtherCloses
  <2> QED BY <2>1, <2>2
<1> QED BY <1>1, <1>2, <1>3, <1>4, <1>5, <1>6, <1>7 DEF CloseSteps

\* A shutdown's step keeps the types.
LEMMA ShutdownKeepsTypes ==
  ASSUME Typed, Built, RefsAgree, ShutdownSteps
  PROVE  Typed' /\ Built'
<1>0. /\ RuntimesTyped /\ RegistryTyped /\ SubmitsTyped /\ ClosesTyped /\ ShutdownTyped
      /\ Len(runtimes) \in Nat
  BY DEF Typed, RuntimesTyped
<1>1. CASE ShutdownBegins
  BY <1>0, <1>1 DEF ShutdownBegins, RevokedNow, Typed, Built, RuntimesTyped, ClosesTyped
<1>2. CASE ShutdownCloses
  BY <1>0, <1>2 DEF ShutdownCloses, ClosedNow, Typed, Built, SubmitsTyped, ClosesTyped
<1>3. CASE ShutdownEnds
  BY <1>0, <1>3 DEF ShutdownEnds, Typed, Built, RuntimesTyped, SubmitsTyped, ClosesTyped
<1> QED BY <1>1, <1>2, <1>3 DEF ShutdownSteps
InsidePcs == HolderPcs \cup {"submit", "joinRelease"}

\* Runtimes keep their threads, and nobody comes to name another runtime.
LEMMA RefsStay ==
  ASSUME Typed, Built, RefsAgree,
         \A u \in DOMAIN runtimes : runtimes'[u].ref = runtimes[u].ref,
         \A r \in Refs : sessions'[r] = sessions[r] \/ sessions'[r] = 0,
         \A d \in SubmitIds :
            /\ submits'[d].ref = submits[d].ref /\ submits'[d].session = submits[d].session
            /\ submits'[d].pc # "new" => submits[d].pc # "new"
            /\ submits'[d].pc \in InsidePcs => submits[d].pc \in InsidePcs,
         \A k \in CloseIds : closes'[k].pc # "new" =>
            \/ closes'[k].ref \in Refs
            \/ closes'[k].ref = closes[k].ref /\ closes[k].pc # "new"
  PROVE  RefsAgree'
<1>1. \A r \in Refs : sessions'[r] # 0 => runtimes'[sessions'[r]].ref = r
  BY RegisteredBuilt
<1>2. \A d \in SubmitIds : submits'[d].pc # "new" => submits'[d].ref \in Refs
  BY DEF RefsAgree
<1>3. \A d \in SubmitIds : submits'[d].pc \in InsidePcs =>
        submits'[d].session # 0 /\ runtimes'[submits'[d].session].ref = submits'[d].ref
  <2> SUFFICES ASSUME NEW d \in SubmitIds, submits'[d].pc \in InsidePcs
               PROVE  submits'[d].session # 0 /\ runtimes'[submits'[d].session].ref = submits'[d].ref
    OBVIOUS
  <2>1. submits[d].pc \in {"submit", "joinRelease"} \/ d \in LockHolders
    BY DEF InsidePcs, HolderPcs, LockHolders
  <2> QED BY <2>1, NamesBuilt DEF RefsAgree
<1>4. \A k \in CloseIds : closes'[k].pc # "new" => closes'[k].ref \in Refs
  BY DEF RefsAgree
<1> QED BY <1>1, <1>2, <1>3, <1>4 DEF RefsAgree, LockHolders, InsidePcs, HolderPcs

\* A submit's step keeps runtimes with their threads.
LEMMA SubmitKeepsRefs ==
  ASSUME Typed, Built, RefsAgree, NEW c \in SubmitIds, SubmitSteps(c)
  PROVE  RefsAgree'
<1>0. \A k \in CloseIds : closes[k].pc # "new" => closes[k].ref \in Refs
  BY DEF RefsAgree
<1>1. CASE Wanders(c)
  BY <1>1 DEF Wanders, RefsAgree, LockHolders, HolderPcs, OtherSubmits
<1>2. CASE Builds(c)
  <2>1. \A d \in SubmitIds : d # c /\ (submits[d].pc \in {"submit", "joinRelease"} \/ d \in LockHolders) =>
          submits[d].session \in DOMAIN runtimes
    BY NamesBuilt
  <2>2. \A r \in Refs : sessions'[r] # 0 => runtimes'[sessions'[r]].ref = r
    BY <1>2, RegisteredBuilt DEF Builds
  <2>3. submits[c].ref \in Refs
    BY <1>2 DEF Builds, RefsAgree
  <2>4. Len(runtimes) \in Nat
    BY DEF Typed, RuntimesTyped
  <2>5. \A d \in SubmitIds :
          /\ submits'[d].pc # "new" => submits'[d].ref \in Refs
          /\ submits'[d].pc \in {"submit", "joinRelease"} \/ d \in LockHolders' =>
                /\ submits'[d].session # 0
                /\ runtimes'[submits'[d].session].ref = submits'[d].ref
    <3> TAKE d \in SubmitIds
    <3>1. CASE d = c
      BY <1>2, <2>3, <2>4, <3>1 DEF Builds, SubmitNow
    <3>2. CASE d # c
      <4>1. submits'[d] = submits[d]
        BY <1>2, <3>2 DEF Builds, SubmitNow, OtherSubmits
      <4> QED BY <1>2, <2>1, <3>2, <4>1 DEF Builds, RefsAgree, LockHolders
    <3> QED BY <3>1, <3>2
  <2>6. closes' = closes
    BY <1>2 DEF Builds
  <2> QED BY <1>0, <2>2, <2>5, <2>6 DEF RefsAgree
<1>3. CASE Reserves(c)
  BY <1>0, <1>3, RefsStay DEF Reserves, SubmitNow, StateNow, OtherSubmits, InsidePcs, HolderPcs
<1>4. CASE Granted(c) \/ Releases(c)
  BY <1>0, <1>4, RefsStay DEF Granted, Releases, SubmitNow, OtherSubmits, InsidePcs, HolderPcs
<1>5. CASE GivesUp(c)
  BY <1>0, <1>5, RefsStay DEF GivesUp, Reserving, SubmitNow, StateNow, OtherSubmits, InsidePcs, HolderPcs
<1>6. CASE Begins(c)
  BY <1>0, <1>6, RefsStay DEF Begins, SubmitNow, StateNow, OtherSubmits, InsidePcs, HolderPcs
<1>7. CASE Settles(c)
  BY <1>0, <1>7, RefsStay DEF Settles, SubmitNow, StateNow, OtherSubmits, InsidePcs, HolderPcs
<1> QED BY <1>1, <1>2, <1>3, <1>4, <1>5, <1>6, <1>7 DEF SubmitSteps

\* A close's step keeps runtimes with their threads.
LEMMA CloseKeepsRefs ==
  ASSUME Typed, Built, RefsAgree, NEW k \in CloseIds, CloseSteps(k)
  PROVE  RefsAgree'
<1>0. \A j \in CloseIds : closes[j].pc # "new" => closes[j].ref \in Refs
  BY DEF RefsAgree
<1>1. CASE CloseWanders(k)
  BY <1>0, <1>1, RefsStay DEF CloseWanders, OtherCloses
<1>2. CASE ClosesFree(k)
  BY <1>0, <1>2, RefsStay DEF ClosesFree, CloseNow, ClosedNow, OtherCloses
<1>3. CASE ClosesBegin(k)
  <2>1. \A d \in SubmitIds :
            /\ submits'[d].ref = submits[d].ref /\ submits'[d].session = submits[d].session
            /\ submits'[d].pc # "new" => submits[d].pc # "new"
            /\ submits'[d].pc \in InsidePcs => submits[d].pc \in InsidePcs
    BY <1>3 DEF ClosesBegin, RevokedNow, InsidePcs, HolderPcs
  <2> QED BY <1>0, <1>3, <2>1, RefsStay DEF ClosesBegin, CloseNow, OtherCloses
<1>4. CASE ClosesSession(k)
  BY <1>0, <1>4, RefsStay DEF ClosesSession, CloseNow, ClosedNow, OtherCloses
<1>5. CASE ClosesTurn(k)
  BY <1>0, <1>5, RefsStay DEF ClosesTurn, CloseNow, OtherCloses
<1>6. CASE ClosesDone(k)
  <2>1. \A r \in Refs : sessions'[r] = sessions[r] \/ sessions'[r] = 0
    BY <1>6 DEF ClosesDone
  <2> QED BY <1>0, <1>6, <2>1, RefsStay DEF ClosesDone, CloseNow, OtherCloses
<1>7. CASE CloseEnds(k)
  BY <1>0, <1>7, RefsStay DEF CloseEnds, CloseNow, OtherCloses
<1> QED BY <1>1, <1>2, <1>3, <1>4, <1>5, <1>6, <1>7 DEF CloseSteps

\* A shutdown's step keeps runtimes with their threads.
LEMMA ShutdownKeepsRefs ==
  ASSUME Typed, Built, RefsAgree, ShutdownSteps
  PROVE  RefsAgree'
<1>0. \A j \in CloseIds : closes[j].pc # "new" => closes[j].ref \in Refs
  BY DEF RefsAgree
<1>1. CASE ShutdownBegins
  <2>1. \A d \in SubmitIds :
            /\ submits'[d].ref = submits[d].ref /\ submits'[d].session = submits[d].session
            /\ submits'[d].pc # "new" => submits[d].pc # "new"
            /\ submits'[d].pc \in InsidePcs => submits[d].pc \in InsidePcs
    BY <1>1 DEF ShutdownBegins, RevokedNow, InsidePcs, HolderPcs
  <2> QED BY <1>0, <1>1, <2>1, RefsStay DEF ShutdownBegins
<1>2. CASE ShutdownCloses
  BY <1>0, <1>2, RefsStay DEF ShutdownCloses, ClosedNow
<1>3. CASE ShutdownEnds
  BY <1>0, <1>3, RefsStay DEF ShutdownEnds
<1> QED BY <1>1, <1>2, <1>3 DEF ShutdownSteps
-----------------------------------------------------------------------------
(* Permits and locks.                                                      *)

PermitPcs == {"granted", "running", "settled"}

\* The holders of permits can be counted.
LEMMA HoldersFinite == IsFiniteSet(PermitHolders) /\ Cardinality(PermitHolders) \in Nat
<1>1. IsFiniteSet(1 .. MaxSubmits)
  BY FS_Interval
<1>2. PermitHolders \subseteq 1 .. MaxSubmits
  BY DEF PermitHolders, SubmitIds
<1> QED BY <1>1, <1>2, FS_Subset, FS_CardinalityType

\* The permits add up while nobody takes or returns one.
LEMMA PermitsStay ==
  ASSUME PermitsAccounted, UNCHANGED <<permits, leaked>>,
         \A d \in SubmitIds : submits'[d].pc \in PermitPcs <=> submits[d].pc \in PermitPcs
  PROVE  PermitsAccounted'
<1>1. PermitHolders' = PermitHolders
  BY DEF PermitHolders, PermitPcs
<1> QED BY <1>1 DEF PermitsAccounted

\* The permits add up when one is taken or returned.
LEMMA PermitSum ==
  ASSUME permits \in Nat, leaked \in Nat, permits' \in Nat, leaked' \in Nat, PermitsAccounted,
         NEW j \in {0, 1}, permits' + leaked' = permits + leaked + j
  PROVE  permits' + (Cardinality(PermitHolders) - j) + leaked' = Permits
<1>1. PICK p \in Nat, l \in Nat, q \in Nat, m \in Nat, n \in Nat :
        /\ p = permits /\ l = leaked /\ q = permits' /\ m = leaked'
        /\ n = Cardinality(PermitHolders)
  BY HoldersFinite
<1>2. p + n + l = Permits /\ q + m = p + l + j
  BY <1>1 DEF PermitsAccounted
<1>3. q + (n - j) + m = Permits
  BY <1>2
<1> QED BY <1>1, <1>3

\* A submit's step keeps the sum of the permits.
LEMMA SubmitKeepsPermits ==
  ASSUME Typed, PermitsAccounted, NEW c \in SubmitIds, SubmitSteps(c)
  PROVE  PermitsAccounted'
<1>0. permits \in Nat /\ leaked \in Nat /\ Cardinality(PermitHolders) \in Nat /\ Permits \in Nat
      /\ IsFiniteSet(PermitHolders)
  BY HoldersFinite DEF Typed, RegistryTyped
<1>1. CASE Wanders(c)
  BY <1>1, PermitsStay DEF Wanders, OtherSubmits, LockHolders, HolderPcs, PermitPcs
<1>2. CASE Builds(c)
  BY <1>2, PermitsStay DEF Builds, SubmitNow, OtherSubmits, PermitPcs
<1>3. CASE Reserves(c)
  BY <1>3, PermitsStay DEF Reserves, SubmitNow, OtherSubmits, PermitPcs
<1>4. CASE Granted(c)
  <2>1. PermitHolders' = PermitHolders \cup {c} /\ c \notin PermitHolders
    BY <1>4 DEF Granted, SubmitNow, OtherSubmits, PermitHolders
  <2>2. Cardinality(PermitHolders') = Cardinality(PermitHolders) + 1
    BY <1>0, <2>1, FS_AddElement
  <2>3. permits' = permits - 1 /\ leaked' = leaked
    BY <1>4 DEF Granted
  <2>4. permits' + Cardinality(PermitHolders') + leaked' = Permits
    BY <1>0, <2>2, <2>3 DEF PermitsAccounted
  <2> QED BY <2>4 DEF PermitsAccounted
<1>5. CASE GivesUp(c)
  <2>0. permits' \in Nat /\ leaked' \in Nat
    BY <1>5 DEF GivesUp, RegistryTyped
  <2>1. CASE submits[c].pc = "granted"
    <3>1. PermitHolders' = PermitHolders \ {c} /\ c \in PermitHolders
      BY <1>5, <2>1 DEF GivesUp, SubmitNow, OtherSubmits, PermitHolders
    <3>2. Cardinality(PermitHolders') = Cardinality(PermitHolders) - 1
      BY <1>0, <3>1, FS_RemoveElement
    <3>3. permits' + leaked' = permits + leaked + 1
      BY <1>5, <2>1 DEF GivesUp
    <3>4. permits' + (Cardinality(PermitHolders) - 1) + leaked' = Permits
      BY <1>0, <2>0, <3>3, PermitSum DEF PermitsAccounted
    <3> QED BY <3>2, <3>4 DEF PermitsAccounted
  <2>2. CASE submits[c].pc # "granted"
    <3>1. PermitHolders' = PermitHolders
      BY <1>5, <2>2 DEF GivesUp, SubmitNow, OtherSubmits, PermitHolders, Reserving
    <3>2. permits' + leaked' = permits + leaked
      BY <1>5, <2>2 DEF GivesUp
    <3>3. permits' + (Cardinality(PermitHolders) - 0) + leaked' = Permits
      BY <1>0, <2>0, <3>2, PermitSum DEF PermitsAccounted
    <3> QED BY <1>0, <3>1, <3>3 DEF PermitsAccounted
  <2> QED BY <2>1, <2>2
<1>6. CASE Begins(c)
  BY <1>6, PermitsStay DEF Begins, SubmitNow, OtherSubmits, PermitPcs
<1>7. CASE Settles(c)
  BY <1>7, PermitsStay DEF Settles, SubmitNow, OtherSubmits, PermitPcs
<1>8. CASE Releases(c)
  <2>1. PermitHolders' = PermitHolders \ {c} /\ c \in PermitHolders
    BY <1>8 DEF Releases, SubmitNow, OtherSubmits, PermitHolders
  <2>2. Cardinality(PermitHolders') = Cardinality(PermitHolders) - 1
    BY <1>0, <2>1, FS_RemoveElement
  <2>3. permits' = permits + 1 /\ leaked' = leaked
    BY <1>8 DEF Releases
  <2>4. permits' + Cardinality(PermitHolders') + leaked' = Permits
    BY <1>0, <2>2, <2>3 DEF PermitsAccounted
  <2> QED BY <2>4 DEF PermitsAccounted
<1> QED BY <1>1, <1>2, <1>3, <1>4, <1>5, <1>6, <1>7, <1>8 DEF SubmitSteps

\* Closes and the shutdown leave the permits alone: what they revoke has none.
LEMMA OthersKeepPermits ==
  ASSUME PermitsAccounted, ShutdownSteps \/ \E k \in CloseIds : CloseSteps(k)
  PROVE  PermitsAccounted'
<1>1. ASSUME NEW k \in CloseIds, CloseSteps(k), ~ClosesBegin(k) PROVE PermitsAccounted'
  BY <1>1, PermitsStay DEF CloseSteps, CloseWanders, ClosesFree, ClosesSession, ClosesTurn,
     ClosesDone, CloseEnds
<1>2. ASSUME NEW owners, RevokedNow(owners), UNCHANGED <<permits, leaked>> PROVE PermitsAccounted'
  BY <1>2, PermitsStay DEF RevokedNow, PermitPcs
<1>3. ASSUME NEW k \in CloseIds, ClosesBegin(k) PROVE PermitsAccounted'
  BY <1>2, <1>3 DEF ClosesBegin
<1>4. ASSUME ShutdownSteps PROVE PermitsAccounted'
  BY <1>2, <1>4, PermitsStay DEF ShutdownSteps, ShutdownBegins, ShutdownCloses, ShutdownEnds
<1> QED BY <1>1, <1>3, <1>4

\* The locks are accounted while nobody takes or returns one.
LEMMA LocksStay ==
  ASSUME LocksAccounted, UNCHANGED locked,
         \A d \in SubmitIds : submits'[d].pc \in HolderPcs <=> submits[d].pc \in HolderPcs,
         \A d \in SubmitIds : submits[d].pc \in HolderPcs => submits'[d].lock = submits[d].lock
  PROVE  LocksAccounted'
<1>1. LockHolders' = LockHolders /\ \A d \in LockHolders : submits'[d].lock = submits[d].lock
  BY DEF LockHolders, HolderPcs
<1>2. {submits'[d].lock : d \in LockHolders'} = {submits[d].lock : d \in LockHolders}
  BY <1>1
<1> QED BY <1>1, <1>2 DEF LocksAccounted

\* The locks are accounted when a holder returns its own.
LEMMA LockGoes ==
  ASSUME LocksAccounted, NEW c \in LockHolders, submits'[c].pc \notin HolderPcs, OtherSubmits(c),
         locked' = locked \ {submits[c].lock}
  PROVE  LocksAccounted'
<1>1. LockHolders' = LockHolders \ {c} /\ \A d \in LockHolders \ {c} : submits'[d] = submits[d]
  BY DEF LockHolders, HolderPcs, OtherSubmits
<1>2. {submits'[d].lock : d \in LockHolders'} = {submits[d].lock : d \in LockHolders \ {c}}
  BY <1>1
<1>3. {submits[d].lock : d \in LockHolders \ {c}} = locked \ {submits[c].lock}
  BY DEF LocksAccounted
<1>4. \A d, e \in LockHolders' : submits'[d].lock = submits'[e].lock => d = e
  BY <1>1 DEF LocksAccounted
<1> QED BY <1>2, <1>3, <1>4 DEF LocksAccounted

\* A submit's step keeps the locks accounted.
LEMMA SubmitKeepsLocks ==
  ASSUME LocksAccounted, NEW c \in SubmitIds, SubmitSteps(c)
  PROVE  LocksAccounted'
<1>1. CASE Wanders(c)
  BY <1>1, LocksStay DEF Wanders, OtherSubmits, LockHolders, HolderPcs
<1>2. CASE Builds(c)
  BY <1>2, LocksStay DEF Builds, SubmitNow, OtherSubmits, HolderPcs
<1>3. CASE Reserves(c)
  <2>1. PICK lock : /\ lock \notin locked /\ locked' = locked \cup {lock}
                    /\ submits'[c].lock = lock
    BY <1>3 DEF Reserves, SubmitNow
  <2>2. LockHolders' = LockHolders \cup {c} /\ c \notin LockHolders
        /\ \A d \in LockHolders : submits'[d] = submits[d]
    BY <1>3 DEF Reserves, SubmitNow, OtherSubmits, LockHolders
  <2>3. {submits'[d].lock : d \in LockHolders'} = {submits[d].lock : d \in LockHolders} \cup {lock}
    BY <2>1, <2>2
  <2>4. \A d \in LockHolders : submits[d].lock # lock
    BY <2>1 DEF LocksAccounted
  <2>5. \A d, e \in LockHolders' : submits'[d].lock = submits'[e].lock => d = e
    BY <2>1, <2>2, <2>4 DEF LocksAccounted
  <2> QED BY <2>1, <2>3, <2>5 DEF LocksAccounted
<1>4. CASE Granted(c)
  BY <1>4, LocksStay DEF Granted, SubmitNow, OtherSubmits, HolderPcs
<1>5. CASE GivesUp(c)
  <2>1. c \in LockHolders /\ submits'[c].pc \notin HolderPcs /\ OtherSubmits(c)
    BY <1>5 DEF GivesUp, SubmitNow, Reserving, LockHolders, HolderPcs
  <2> QED BY <1>5, <2>1, LockGoes DEF GivesUp
<1>6. CASE Begins(c)
  BY <1>6, LocksStay DEF Begins, SubmitNow, OtherSubmits, HolderPcs
<1>7. CASE Settles(c)
  BY <1>7, LocksStay DEF Settles, SubmitNow, OtherSubmits, HolderPcs
<1>8. CASE Releases(c)
  <2>1. c \in LockHolders /\ submits'[c].pc \notin HolderPcs /\ OtherSubmits(c)
    BY <1>8 DEF Releases, SubmitNow, LockHolders, HolderPcs
  <2> QED BY <1>8, <2>1, LockGoes DEF Releases
<1> QED BY <1>1, <1>2, <1>3, <1>4, <1>5, <1>6, <1>7, <1>8 DEF SubmitSteps

\* A close's and a shutdown's steps keep the locks accounted.
LEMMA OthersKeepLocks ==
  ASSUME LocksAccounted, ShutdownSteps \/ \E k \in CloseIds : CloseSteps(k)
  PROVE  LocksAccounted'
<1>1. ASSUME NEW k \in CloseIds, CloseSteps(k), ~ClosesBegin(k) PROVE LocksAccounted'
  BY <1>1, LocksStay DEF CloseSteps, CloseWanders, ClosesFree, ClosesSession, ClosesTurn,
     ClosesDone, CloseEnds
<1>2. ASSUME NEW owners, RevokedNow(owners), UNCHANGED locked PROVE LocksAccounted'
  BY <1>2, LocksStay DEF RevokedNow, HolderPcs
<1>3. ASSUME NEW k \in CloseIds, ClosesBegin(k) PROVE LocksAccounted'
  BY <1>2, <1>3 DEF ClosesBegin
<1>4. ASSUME ShutdownSteps PROVE LocksAccounted'
  BY <1>2, <1>4, LocksStay DEF ShutdownSteps, ShutdownBegins, ShutdownCloses, ShutdownEnds
<1> QED BY <1>1, <1>3, <1>4
-----------------------------------------------------------------------------
(* The manager keeps knowing the holders.                                  *)

\* Two submits that hold the lock of one thread, and the registered one, are one.
LEMMA OneCurrentHolder ==
  ASSUME LocksAccounted, NEW c \in LockHolders, NEW d \in LockHolders,
         Current(c), Current(d), submits[c].ref = submits[d].ref
  PROVE  c = d
BY DEF LocksAccounted, Current

\* A holder whose turn has not settled has the registered runtime, and not a free one.
LEMMA UnsettledIsCurrent ==
  ASSUME HoldersKnown, NEW c \in LockHolders, submits[c].pc # "settled"
  PROVE  /\ Current(c)
         /\ runtimes[submits[c].session].state # "free"
BY DEF HoldersKnown, Holds, LockHolders, Reserving

\* So are two that name one runtime and have not settled.
LEMMA OneHolderPerRuntime ==
  ASSUME RefsAgree, LocksAccounted, HoldersKnown, NEW c \in LockHolders, NEW d \in LockHolders,
         submits[c].pc # "settled", submits[d].pc # "settled",
         submits[c].session = submits[d].session
  PROVE  c = d
<1>1. submits[c].ref = submits[d].ref
  BY DEF RefsAgree, LockHolders
<1> QED BY <1>1, UnsettledIsCurrent, OneCurrentHolder

\* What leaves a holder known.
Undisturbed(d) ==
    LET ref == submits[d].ref IN
    /\ submits'[d].ref = ref /\ submits'[d].session = submits[d].session
    /\ submits'[d].lock = submits[d].lock
    /\ submits'[d].pc # submits[d].pc => d \in Reserving /\ d \in Reserving'
    /\ sessions'[ref] # sessions[ref] =>
          submits[d].pc = "settled" /\ sessions'[ref] # submits[d].session
    /\ Current(d) /\ sessions'[ref] = sessions[ref] => submitLock'[ref] = submitLock[ref]
    /\ d \in Reserving /\ queuedOwner[ref] = d => queuedOwner'[ref] = d
    /\ d \notin Reserving /\ Current(d) /\ releaseTask[ref] = d => releaseTask'[ref] = d
    /\ submits[d].pc # "settled" =>
          runtimes'[submits[d].session].state = runtimes[submits[d].session].state

\* A holder that is left alone keeps what it holds.
LEMMA HolderStays ==
  ASSUME NEW d \in LockHolders, Holds(d), Undisturbed(d)
  PROVE  Holds(d)'
<1>1. CASE d \in Reserving
  <2>1. d \in Reserving' /\ submits'[d].pc \notin {"running", "settled"}
    BY <1>1 DEF Undisturbed, Reserving
  <2>2. submits[d].pc # "settled"
    BY <1>1 DEF Reserving
  <2> QED BY <1>1, <2>1, <2>2 DEF Holds, Undisturbed, Current
<1>2. CASE d \notin Reserving
  <2>1. submits'[d].pc = submits[d].pc /\ d \notin Reserving'
    BY <1>2 DEF Undisturbed, Reserving, LockHolders
  <2>2. CASE submits[d].pc = "running"
    BY <1>2, <2>1, <2>2 DEF Holds, Undisturbed, Current
  <2>3. CASE submits[d].pc = "settled"
    BY <1>2, <2>1, <2>3 DEF Holds, Undisturbed, Current
  <2> QED BY <1>2, <2>1, <2>2, <2>3 DEF LockHolders, Reserving
<1> QED BY <1>1, <1>2

\* A submit's step keeps what the holders know.
LEMMA SubmitKeepsHolders ==
  ASSUME Typed, Built, RefsAgree, LocksAccounted, HoldersKnown,
         NEW c \in SubmitIds, SubmitSteps(c)
  PROVE  HoldersKnown'
<1>0. /\ \A d \in LockHolders : Holds(d) /\ d \in SubmitIds
      /\ \A d \in LockHolders : submits[d].ref \in Refs /\ submits[d].lock # 0
  BY DEF HoldersKnown, LockHolders, RefsAgree, Holds
<1>1. CASE Wanders(c)
  <2> SUFFICES ASSUME NEW d \in LockHolders' PROVE Holds(d)'
    BY DEF HoldersKnown
  <2>1. d \in LockHolders /\ d # c /\ submits'[d] = submits[d]
    BY <1>1 DEF Wanders, OtherSubmits, LockHolders, HolderPcs
  <2>2. Undisturbed(d)
    BY <1>0, <1>1, <2>1 DEF Wanders, Undisturbed, Current
  <2> QED BY <1>0, <2>1, <2>2, HolderStays
<1>2. CASE Builds(c)
  <2> SUFFICES ASSUME NEW d \in LockHolders' PROVE Holds(d)'
    BY DEF HoldersKnown
  <2>1. d \in LockHolders /\ d # c /\ submits'[d] = submits[d]
    BY <1>2 DEF Builds, SubmitNow, OtherSubmits, LockHolders
  <2>2. /\ submits[d].session \in DOMAIN runtimes /\ submits[d].session # Len(runtimes) + 1
        /\ submits[d].session # 0
    BY <1>0, <2>1, NamesBuilt DEF Typed, RuntimesTyped
  <2>3. sessions[submits[d].ref] # submits[d].session => submits[d].pc = "settled"
    BY <2>1, UnsettledIsCurrent DEF Current
  <2>4. sessions'[submits[d].ref] # sessions[submits[d].ref] =>
            submits[d].pc = "settled" /\ sessions'[submits[d].ref] # submits[d].session
    BY <1>0, <1>2, <2>1, <2>2, <2>3 DEF Builds
  <2>5. Undisturbed(d)
    BY <1>2, <2>1, <2>2, <2>4 DEF Builds, Undisturbed
  <2> QED BY <1>0, <2>1, <2>5, HolderStays
<1>3. CASE Reserves(c)
  <2> SUFFICES ASSUME NEW d \in LockHolders' PROVE Holds(d)'
    BY DEF HoldersKnown
  <2>1. CASE d = c
    BY <1>3, <2>1 DEF Reserves, SubmitNow, StateNow, Holds, Current, Reserving
  <2>2. CASE d # c
    <3>1. d \in LockHolders /\ submits'[d] = submits[d]
      BY <1>3, <2>2 DEF Reserves, SubmitNow, OtherSubmits, LockHolders
    <3>2. submits[d].session \in DOMAIN runtimes /\ submits[d].ref \in Refs
          /\ runtimes[submits[d].session].ref = submits[d].ref
      BY <1>0, <3>1, NamesBuilt
    <3>3. submits[d].pc # "settled" => /\ submits[d].session # submits[c].session
                                       /\ submits[d].ref # submits[c].ref
      BY <1>3, <3>1, UnsettledIsCurrent DEF Reserves, Current
    <3>4. d \in Reserving => submits[d].pc # "settled"
      BY DEF Reserving
    <3>5. Undisturbed(d)
      BY <1>3, <3>1, <3>2, <3>3, <3>4 DEF Reserves, StateNow, Undisturbed
    <3> QED BY <1>0, <3>1, <3>5, HolderStays
  <2> QED BY <2>1, <2>2
<1>4. CASE Granted(c)
  <2> SUFFICES ASSUME NEW d \in LockHolders' PROVE Holds(d)'
    BY DEF HoldersKnown
  <2>1. CASE d = c
    <3>1. d \in LockHolders /\ d \in Reserving /\ d \in Reserving'
      BY <1>4, <2>1 DEF Granted, SubmitNow, LockHolders, Reserving
    <3>2. Undisturbed(d)
      BY <1>4, <2>1, <3>1 DEF Granted, SubmitNow, Undisturbed
    <3> QED BY <1>0, <3>1, <3>2, HolderStays
  <2>2. CASE d # c
    <3>1. d \in LockHolders /\ submits'[d] = submits[d]
      BY <1>4, <2>2 DEF Granted, SubmitNow, OtherSubmits, LockHolders
    <3>2. Undisturbed(d)
      BY <1>4, <3>1 DEF Granted, Undisturbed
    <3> QED BY <1>0, <3>1, <3>2, HolderStays
  <2> QED BY <2>1, <2>2
<1>5. CASE GivesUp(c)
  <2> SUFFICES ASSUME NEW d \in LockHolders' PROVE Holds(d)'
    BY DEF HoldersKnown
  <2>1. d # c /\ d \in LockHolders /\ submits'[d] = submits[d]
    BY <1>5 DEF GivesUp, SubmitNow, OtherSubmits, LockHolders
  <2>2. c \in LockHolders /\ submits[c].pc # "settled"
    BY <1>5 DEF GivesUp, LockHolders, Reserving
  <2>3. submits[d].pc # "settled" => submits[d].session # submits[c].session
    BY <2>1, <2>2, OneHolderPerRuntime
  <2>4. submits[d].session \in DOMAIN runtimes /\ submits[d].ref \in Refs
    BY <1>0, <2>1, NamesBuilt
  <2>5. Undisturbed(d)
    BY <1>5, <2>1, <2>3, <2>4 DEF GivesUp, StateNow, Undisturbed
  <2> QED BY <1>0, <2>1, <2>5, HolderStays
<1>6. CASE Begins(c)
  <2>0. c \in LockHolders /\ submits[c].pc # "settled" /\ Holds(c) /\ c \in Reserving
    BY <1>0, <1>6 DEF Begins, LockHolders, Reserving
  <2>1. Current(c)
    BY <2>0 DEF Holds
  <2> SUFFICES ASSUME NEW d \in LockHolders' PROVE Holds(d)'
    BY DEF HoldersKnown
  <2>2. CASE d = c
    <3>1. Current(c)'
      BY <1>6, <2>1 DEF Begins, SubmitNow, Current
    <3>2. c \notin Reserving'
      BY <1>6 DEF Begins, SubmitNow, Reserving
    <3> QED BY <1>0, <1>6, <2>0, <2>2, <3>1, <3>2 DEF Begins, SubmitNow, StateNow, Holds
  <2>3. CASE d # c
    <3>1. d \in LockHolders /\ submits'[d] = submits[d]
      BY <1>6, <2>3 DEF Begins, SubmitNow, OtherSubmits, LockHolders
    <3>2. submits[d].pc # "settled" => submits[d].session # submits[c].session
      BY <2>0, <2>3, <3>1, OneHolderPerRuntime
    <3>3. Current(d) => submits[d].ref # submits[c].ref
      BY <2>0, <2>1, <2>3, <3>1, OneCurrentHolder
    <3>4. submits[d].session \in DOMAIN runtimes /\ submits[d].ref \in Refs
      BY <1>0, <3>1, NamesBuilt
    <3>5. Undisturbed(d)
      BY <1>6, <2>3, <3>1, <3>2, <3>3, <3>4 DEF Begins, StateNow, Undisturbed
    <3> QED BY <1>0, <3>1, <3>5, HolderStays
  <2> QED BY <2>2, <2>3
<1>7. CASE Settles(c)
  <2>0. c \in LockHolders /\ submits[c].pc # "settled" /\ Holds(c)
    BY <1>0, <1>7 DEF Settles, LockHolders
  <2> SUFFICES ASSUME NEW d \in LockHolders' PROVE Holds(d)'
    BY DEF HoldersKnown
  <2>2. CASE d = c
    <3>1. Current(c) /\ releaseTask[submits[c].ref] = c /\ submits[c].lock # 0
      BY <1>7, <2>0 DEF Settles, Holds
    <3>2. Current(c)' /\ submits'[c].pc = "settled" /\ c \notin Reserving'
      BY <1>7, <3>1 DEF Settles, SubmitNow, Current, Reserving
    <3> QED BY <1>7, <2>2, <3>1, <3>2 DEF Settles, SubmitNow, Holds
  <2>3. CASE d # c
    <3>1. d \in LockHolders /\ submits'[d] = submits[d]
      BY <1>7, <2>3 DEF Settles, SubmitNow, OtherSubmits, LockHolders
    <3>2. submits[d].pc # "settled" => submits[d].session # submits[c].session
      BY <2>0, <2>3, <3>1, OneHolderPerRuntime
    <3>3. submits[d].session \in DOMAIN runtimes /\ submits[d].ref \in Refs
      BY <1>0, <3>1, NamesBuilt
    <3>4. Undisturbed(d)
      BY <1>7, <3>1, <3>2, <3>3 DEF Settles, StateNow, Undisturbed
    <3> QED BY <1>0, <3>1, <3>4, HolderStays
  <2> QED BY <2>2, <2>3
<1>8. CASE Releases(c)
  <2> SUFFICES ASSUME NEW d \in LockHolders' PROVE Holds(d)'
    BY DEF HoldersKnown
  <2>1. d # c /\ d \in LockHolders /\ submits'[d] = submits[d]
    BY <1>8 DEF Releases, SubmitNow, OtherSubmits, LockHolders
  <2>2. Undisturbed(d)
    BY <1>8, <2>1 DEF Releases, Undisturbed
  <2> QED BY <1>0, <2>1, <2>2, HolderStays
<1> QED BY <1>1, <1>2, <1>3, <1>4, <1>5, <1>6, <1>7, <1>8 DEF SubmitSteps

\* A close's step keeps what the holders know.
LEMMA CloseKeepsHolders ==
  ASSUME Typed, Built, RefsAgree, HoldersKnown, ClosesKnow, NEW k \in CloseIds, CloseSteps(k)
  PROVE  HoldersKnown'
<1>0. /\ \A d \in LockHolders : Holds(d) /\ d \in SubmitIds
      /\ \A d \in LockHolders : submits[d].ref \in Refs /\ submits[d].lock # 0
  BY DEF HoldersKnown, LockHolders, RefsAgree, Holds
<1>1. CASE CloseWanders(k)
  <2> SUFFICES ASSUME NEW d \in LockHolders' PROVE Holds(d)'
    BY DEF HoldersKnown
  <2>1. d \in LockHolders
    BY <1>1 DEF CloseWanders, LockHolders
  <2>2. Undisturbed(d)
    BY <1>0, <1>1, <2>1 DEF CloseWanders, Undisturbed, Current
  <2> QED BY <1>0, <2>1, <2>2, HolderStays
<1>2. CASE ClosesFree(k)
  <2> SUFFICES ASSUME NEW d \in LockHolders' PROVE Holds(d)'
    BY DEF HoldersKnown
  <2>1. d \in LockHolders
    BY <1>2 DEF ClosesFree, LockHolders
  <2>2. /\ submits[d].session \in DOMAIN runtimes /\ submits[d].session # 0
        /\ submits[d].ref \in Refs
    BY <1>0, <2>1, NamesBuilt DEF RefsAgree
  <2>3. submits[d].pc # "settled" => submits[d].ref # closes[k].ref
    BY <1>2, <2>1, <2>2, UnsettledIsCurrent DEF ClosesFree, Current
  <2>4. sessions'[submits[d].ref] # sessions[submits[d].ref] =>
            submits[d].pc = "settled" /\ sessions'[submits[d].ref] # submits[d].session
    BY <1>2, <2>2, <2>3 DEF ClosesFree
  <2>5. Current(d) /\ sessions'[submits[d].ref] = sessions[submits[d].ref] =>
            submitLock'[submits[d].ref] = submitLock[submits[d].ref]
    BY <1>2, <2>2 DEF ClosesFree, Current
  <2>6. UNCHANGED <<submits, queuedOwner, releaseTask>>
    BY <1>2 DEF ClosesFree
  <2>7. runtimes'[submits[d].session].state = runtimes[submits[d].session].state
    BY <1>2, <2>2 DEF ClosesFree, ClosedNow
  <2>8. Undisturbed(d)
    BY <2>4, <2>5, <2>6, <2>7 DEF Undisturbed
  <2> QED BY <1>0, <2>1, <2>8, HolderStays
<1>3. CASE ClosesBegin(k)
  <2> SUFFICES ASSUME NEW d \in LockHolders' PROVE Holds(d)'
    BY DEF HoldersKnown
  <2>1. d \in LockHolders
    BY <1>3 DEF ClosesBegin, RevokedNow, LockHolders
  <2>2. submits'[d].pc # submits[d].pc => d \in Reserving /\ d \in Reserving'
    BY <1>0, <1>3, <2>1 DEF ClosesBegin, RevokedNow, Reserving
  <2>3. Undisturbed(d)
    BY <1>0, <1>3, <2>1, <2>2 DEF ClosesBegin, RevokedNow, Undisturbed
  <2> QED BY <1>0, <2>1, <2>3, HolderStays
<1>4. CASE ClosesSession(k)
  <2> SUFFICES ASSUME NEW d \in LockHolders' PROVE Holds(d)'
    BY DEF HoldersKnown
  <2>1. d \in LockHolders
    BY <1>4 DEF ClosesSession, LockHolders
  <2>2. submits[d].session \in DOMAIN runtimes
    BY <1>0, <2>1, NamesBuilt
  <2>3. Undisturbed(d)
    BY <1>4, <2>2 DEF ClosesSession, ClosedNow, Undisturbed
  <2> QED BY <1>0, <2>1, <2>3, HolderStays
<1>5. CASE ClosesTurn(k) \/ CloseEnds(k)
  <2>1. UNCHANGED <<submits, runtimes, sessions, submitLock, queuedOwner, releaseTask>>
    BY <1>5 DEF ClosesTurn, CloseEnds
  <2>2. LockHolders' = LockHolders /\ \A d \in LockHolders : Holds(d)'
    BY <1>0, <2>1 DEF LockHolders, Holds, Current, Reserving
  <2> QED BY <2>2 DEF HoldersKnown
<1>6. CASE ClosesDone(k)
  <2> SUFFICES ASSUME NEW d \in LockHolders' PROVE Holds(d)'
    BY DEF HoldersKnown
  <2>1. d \in LockHolders /\ submits[d].ref \in Refs /\ submits[d].session # 0
    BY <1>0, <1>6 DEF ClosesDone, LockHolders, RefsAgree
  <2>2. CloseKnows(k) /\ closes[k].pc = "release"
    BY <1>6 DEF ClosesKnow, ClosesDone
  <2>3. submits[d].session = closes[k].session => submits[d].pc = "settled"
    BY <2>1, <2>2 DEF CloseKnows
  <2>4. submits[d].pc # "settled" => sessions[submits[d].ref] = submits[d].session
    BY <2>1, UnsettledIsCurrent DEF Current
  <2>5. /\ \A r \in Refs : sessions'[r] # sessions[r] =>
              r = closes[k].ref /\ sessions[r] = closes[k].session /\ sessions'[r] = 0
        /\ \A r \in Refs : submitLock'[r] # submitLock[r] =>
              r = closes[k].ref /\ sessions[r] = closes[k].session /\ sessions'[r] = 0
        /\ UNCHANGED <<submits, runtimes, queuedOwner, releaseTask>>
    BY <1>6 DEF ClosesDone
  <2>6. sessions'[submits[d].ref] # sessions[submits[d].ref] =>
            submits[d].pc = "settled" /\ sessions'[submits[d].ref] # submits[d].session
    BY <2>1, <2>3, <2>4, <2>5
  <2>7. Current(d) /\ sessions'[submits[d].ref] = sessions[submits[d].ref] =>
            submitLock'[submits[d].ref] = submitLock[submits[d].ref]
    BY <2>1, <2>5 DEF Current
  <2>8. Undisturbed(d)
    BY <2>5, <2>6, <2>7 DEF Undisturbed
  <2> QED BY <1>0, <2>1, <2>8, HolderStays
<1> QED BY <1>1, <1>2, <1>3, <1>4, <1>5, <1>6 DEF CloseSteps

\* A shutdown's step keeps what the holders know.
LEMMA ShutdownKeepsHolders ==
  ASSUME Typed, Built, RefsAgree, HoldersKnown, ShutdownKnows, ShutdownSteps
  PROVE  HoldersKnown'
<1>0. /\ \A d \in LockHolders : Holds(d) /\ d \in SubmitIds
  BY DEF HoldersKnown, LockHolders
<1>1. CASE ShutdownBegins
  <2> SUFFICES ASSUME NEW d \in LockHolders' PROVE Holds(d)'
    BY DEF HoldersKnown
  <2>1. d \in LockHolders
    BY <1>1 DEF ShutdownBegins, RevokedNow, LockHolders
  <2>2. submits'[d].pc # submits[d].pc => d \in Reserving /\ d \in Reserving'
    BY <1>0, <1>1, <2>1 DEF ShutdownBegins, RevokedNow, Reserving
  <2>3. Undisturbed(d)
    BY <1>0, <1>1, <2>1, <2>2 DEF ShutdownBegins, RevokedNow, Undisturbed
  <2> QED BY <1>0, <2>1, <2>3, HolderStays
<1>2. CASE ShutdownCloses
  <2> SUFFICES ASSUME NEW d \in LockHolders' PROVE Holds(d)'
    BY DEF HoldersKnown
  <2>1. d \in LockHolders
    BY <1>2 DEF ShutdownCloses, LockHolders
  <2>2. submits[d].session \in DOMAIN runtimes
    BY <1>0, <2>1, NamesBuilt
  <2>3. Undisturbed(d)
    BY <1>2, <2>2 DEF ShutdownCloses, ClosedNow, Undisturbed
  <2> QED BY <1>0, <2>1, <2>3, HolderStays
<1>3. CASE ShutdownEnds
  <2>1. LockHolders = {}
    BY <1>3 DEF ShutdownEnds, ShutdownKnows, LockHolders, Reserving
  <2>2. LockHolders' = {}
    BY <1>3, <2>1 DEF ShutdownEnds, LockHolders
  <2> QED BY <2>2 DEF HoldersKnown
<1> QED BY <1>1, <1>2, <1>3 DEF ShutdownSteps

-----------------------------------------------------------------------------
(* Runtimes that accept work stay the registered ones.                     *)

\* Open runtimes stay registered while the registry keeps them.
LEMMA OpenOnesStay ==
  ASSUME OpenOnesRegistered, DOMAIN runtimes' = DOMAIN runtimes,
         \A u \in DOMAIN runtimes : /\ runtimes'[u].ref = runtimes[u].ref
                                    /\ runtimes[u].closed => runtimes'[u].closed
                                    /\ ~runtimes'[u].closed =>
                                          sessions'[runtimes[u].ref] = sessions[runtimes[u].ref]
  PROVE  OpenOnesRegistered'
BY DEF OpenOnesRegistered

\* A submit's step keeps open runtimes registered.
LEMMA SubmitKeepsOpenOnes ==
  ASSUME Typed, RefsAgree, OpenOnesRegistered, NEW c \in SubmitIds, SubmitSteps(c)
  PROVE  OpenOnesRegistered'
<1>1. CASE Wanders(c) \/ Granted(c) \/ Releases(c)
  BY <1>1 DEF Wanders, Granted, Releases, OpenOnesRegistered
<1>2. CASE Builds(c)
  <2>1. DOMAIN runtimes = 1 .. Len(runtimes) /\ Len(runtimes) \in Nat
    BY DEF Typed, RuntimesTyped
  <2>2. DOMAIN runtimes' = 1 .. Len(runtimes) + 1
    BY <1>2 DEF Builds, RuntimesTyped
  <2>3. submits[c].ref \in Refs
    BY <1>2 DEF Builds, RefsAgree
  <2>4. ASSUME NEW s \in DOMAIN runtimes', ~runtimes'[s].closed
        PROVE  sessions'[runtimes'[s].ref] = s
    <3>1. CASE s = Len(runtimes) + 1
      BY <1>2, <3>1 DEF Builds
    <3>2. CASE s # Len(runtimes) + 1
      <4>1. s \in DOMAIN runtimes /\ s # 0
        BY <2>1, <2>2, <3>2
      <4>2. runtimes'[s] = runtimes[s] /\ sessions[runtimes[s].ref] = s
        BY <1>2, <2>4, <4>1 DEF Builds, OpenOnesRegistered
      <4>3. runtimes[s].ref \in Refs /\ runtimes[s].ref # submits[c].ref
        <5>1. runtimes[s] \in RuntimeType
          BY <4>1, ElementOf DEF Typed, RuntimesTyped
        <5> QED BY <1>2, <4>1, <4>2, <5>1 DEF Builds, RuntimeType
      <4> QED BY <1>2, <4>2, <4>3 DEF Builds
    <3> QED BY <3>1, <3>2
  <2> QED BY <2>4 DEF OpenOnesRegistered
<1>3. CASE Reserves(c)
  BY <1>3, OpenOnesStay DEF Reserves, StateNow
<1>4. CASE GivesUp(c)
  BY <1>4, OpenOnesStay DEF GivesUp, StateNow
<1>5. CASE Begins(c)
  BY <1>5, OpenOnesStay DEF Begins, StateNow
<1>6. CASE Settles(c)
  BY <1>6, OpenOnesStay DEF Settles, StateNow
<1> QED BY <1>1, <1>2, <1>3, <1>4, <1>5, <1>6 DEF SubmitSteps

\* A close's step keeps open runtimes registered.
LEMMA CloseKeepsOpenOnes ==
  ASSUME Typed, RefsAgree, OpenOnesRegistered, ClosesKnow, NEW k \in CloseIds, CloseSteps(k)
  PROVE  OpenOnesRegistered'
<1>0. \A s \in DOMAIN runtimes : runtimes[s].ref \in Refs /\ s # 0
  <2> TAKE s \in DOMAIN runtimes
  <2>1. runtimes[s] \in RuntimeType
    BY ElementOf DEF Typed, RuntimesTyped
  <2>2. s \in 1 .. Len(runtimes)
    BY DEF Typed, RuntimesTyped
  <2> QED BY <2>1, <2>2 DEF RuntimeType
<1>1. CASE CloseWanders(k) \/ ClosesBegin(k) \/ ClosesTurn(k) \/ CloseEnds(k)
  BY <1>1 DEF CloseWanders, ClosesBegin, ClosesTurn, CloseEnds, OpenOnesRegistered
<1>2. CASE ClosesFree(k)
  <2>1. \A s \in DOMAIN runtimes : ~runtimes'[s].closed =>
          ~runtimes[s].closed /\ s # sessions[closes[k].ref]
    BY <1>2 DEF ClosesFree, ClosedNow
  <2>2. \A s \in DOMAIN runtimes : ~runtimes'[s].closed => runtimes[s].ref # closes[k].ref
    BY <2>1 DEF OpenOnesRegistered
  <2>3. \A s \in DOMAIN runtimes : ~runtimes'[s].closed =>
          sessions'[runtimes[s].ref] = sessions[runtimes[s].ref]
    BY <1>0, <1>2, <2>2 DEF ClosesFree
  <2> QED BY <1>2, <2>3, OpenOnesStay DEF ClosesFree, ClosedNow
<1>3. CASE ClosesSession(k)
  BY <1>3, OpenOnesStay DEF ClosesSession, ClosedNow
<1>4. CASE ClosesDone(k)
  <2>1. CloseKnows(k) /\ closes[k].pc = "release" /\ UNCHANGED runtimes
    BY <1>4 DEF ClosesKnow, ClosesDone
  <2>2. runtimes[closes[k].session].closed
    BY <2>1 DEF CloseKnows
  <2>3. \A s \in DOMAIN runtimes : ~runtimes[s].closed =>
          sessions'[runtimes[s].ref] = sessions[runtimes[s].ref]
    BY <1>0, <1>4, <2>2 DEF ClosesDone, OpenOnesRegistered
  <2> QED BY <2>1, <2>3, OpenOnesStay
<1> QED BY <1>1, <1>2, <1>3, <1>4 DEF CloseSteps

\* A shutdown's step keeps open runtimes registered.
LEMMA ShutdownKeepsOpenOnes ==
  ASSUME OpenOnesRegistered, ShutdownKnows, ShutdownSteps
  PROVE  OpenOnesRegistered'
<1>1. CASE ShutdownBegins
  BY <1>1 DEF ShutdownBegins, OpenOnesRegistered
<1>2. CASE ShutdownCloses
  BY <1>2, OpenOnesStay DEF ShutdownCloses, ClosedNow
<1>3. CASE ShutdownEnds
  BY <1>3 DEF ShutdownEnds, ShutdownKnows, OpenOnesRegistered
<1> QED BY <1>1, <1>2, <1>3 DEF ShutdownSteps

-----------------------------------------------------------------------------
(* What the shutdown and the closes know stays true.                       *)

\* A step that reserves and registers nothing leaves a shutdown alone.
LEMMA ShutdownStays ==
  ASSUME ShutdownKnows, UNCHANGED <<mgrClosed, shutdown>>,
         \/ ~mgrClosed
         \/ /\ Reserving' \subseteq Reserving /\ LockHolders' \subseteq LockHolders
            /\ DOMAIN runtimes' = DOMAIN runtimes
            /\ \A s \in DOMAIN runtimes : runtimes[s].closed => runtimes'[s].closed
            /\ \A r \in Refs : sessions'[r] = sessions[r] \/ sessions'[r] = 0
  PROVE  ShutdownKnows'
<1>1. CASE ~mgrClosed
  BY <1>1 DEF ShutdownKnows
<1>2. CASE /\ Reserving' \subseteq Reserving /\ LockHolders' \subseteq LockHolders
           /\ DOMAIN runtimes' = DOMAIN runtimes
           /\ \A s \in DOMAIN runtimes : runtimes[s].closed => runtimes'[s].closed
           /\ \A r \in Refs : sessions'[r] = sessions[r] \/ sessions'[r] = 0
  BY <1>2 DEF ShutdownKnows
<1> QED BY <1>1, <1>2

\* A submit's step leaves a shutdown alone.
LEMMA SubmitKeepsShutdown ==
  ASSUME ShutdownKnows, NEW c \in SubmitIds, SubmitSteps(c)
  PROVE  ShutdownKnows'
<1>1. CASE Wanders(c)
  <2>1. Reserving' \subseteq Reserving /\ LockHolders' \subseteq LockHolders
    BY <1>1 DEF Wanders, OtherSubmits, Reserving, LockHolders, HolderPcs
  <2> QED BY <1>1, <2>1, ShutdownStays DEF Wanders
<1>2. CASE Builds(c) \/ Reserves(c) \/ Begins(c)
  BY <1>2, ShutdownStays DEF Builds, Reserves, Begins
<1>3. CASE Granted(c)
  <2>1. Reserving' \subseteq Reserving /\ LockHolders' \subseteq LockHolders
    BY <1>3 DEF Granted, SubmitNow, OtherSubmits, Reserving, LockHolders
  <2> QED BY <1>3, <2>1, ShutdownStays DEF Granted
<1>4. CASE GivesUp(c)
  <2>1. Reserving' \subseteq Reserving /\ LockHolders' \subseteq LockHolders
    BY <1>4 DEF GivesUp, SubmitNow, OtherSubmits, Reserving, LockHolders
  <2> QED BY <1>4, <2>1, ShutdownStays DEF GivesUp, StateNow
<1>5. CASE Settles(c)
  <2>1. Reserving' \subseteq Reserving /\ LockHolders' \subseteq LockHolders
    BY <1>5 DEF Settles, SubmitNow, OtherSubmits, Reserving, LockHolders
  <2> QED BY <1>5, <2>1, ShutdownStays DEF Settles, StateNow
<1>6. CASE Releases(c)
  <2>1. Reserving' \subseteq Reserving /\ LockHolders' \subseteq LockHolders
    BY <1>6 DEF Releases, SubmitNow, OtherSubmits, Reserving, LockHolders
  <2> QED BY <1>6, <2>1, ShutdownStays DEF Releases
<1> QED BY <1>1, <1>2, <1>3, <1>4, <1>5, <1>6 DEF SubmitSteps

\* A close's step leaves a shutdown alone.
LEMMA CloseKeepsShutdown ==
  ASSUME ShutdownKnows, NEW k \in CloseIds, CloseSteps(k)
  PROVE  ShutdownKnows'
<1>1. CASE ClosesBegin(k)
  <2>1. Reserving' \subseteq Reserving /\ LockHolders' \subseteq LockHolders
    BY <1>1 DEF ClosesBegin, RevokedNow, Reserving, LockHolders
  <2> QED BY <1>1, <2>1, ShutdownStays DEF ClosesBegin
<1>2. ASSUME UNCHANGED submits
      PROVE  Reserving' \subseteq Reserving /\ LockHolders' \subseteq LockHolders
  BY <1>2 DEF Reserving, LockHolders
<1>3. CASE CloseWanders(k) \/ ClosesTurn(k) \/ CloseEnds(k)
  BY <1>2, <1>3, ShutdownStays DEF CloseWanders, ClosesTurn, CloseEnds
<1>4. CASE ClosesFree(k)
  <2>1. \A r \in Refs : sessions'[r] = sessions[r] \/ sessions'[r] = 0
    BY <1>4 DEF ClosesFree
  <2> QED BY <1>2, <1>4, <2>1, ShutdownStays DEF ClosesFree, ClosedNow
<1>5. CASE ClosesSession(k)
  BY <1>2, <1>5, ShutdownStays DEF ClosesSession, ClosedNow
<1>6. CASE ClosesDone(k)
  <2>1. \A r \in Refs : sessions'[r] = sessions[r] \/ sessions'[r] = 0
    BY <1>6 DEF ClosesDone
  <2> QED BY <1>2, <1>6, <2>1, ShutdownStays DEF ClosesDone
<1> QED BY <1>1, <1>3, <1>4, <1>5, <1>6 DEF CloseSteps

\* A shutdown's own step brings it where it must be.
LEMMA ShutdownKeepsShutdown ==
  ASSUME Typed, RefsAgree, HoldersKnown, OpenOnesRegistered, ShutdownKnows, ShutdownSteps
  PROVE  ShutdownKnows'
<1>1. CASE ShutdownBegins
  <2>1. Reserving' \subseteq Reserving
    BY <1>1 DEF ShutdownBegins, RevokedNow, Reserving
  <2>2. ASSUME NEW c \in Reserving PROVE c \in shutdown'.owners
    <3>1. c \in LockHolders /\ c \in SubmitIds
      BY <2>2 DEF Reserving, LockHolders
    <3>2. queuedOwner[submits[c].ref] = c /\ submits[c].ref \in Refs /\ c # 0
      BY <2>2, <3>1 DEF HoldersKnown, Holds, RefsAgree, LockHolders, SubmitIds
    <3> QED BY <1>1, <3>2 DEF ShutdownBegins
  <2>3. ASSUME NEW s \in DOMAIN runtimes, ~runtimes[s].closed PROVE s \in shutdown'.sessions
    <3>1. s # 0 /\ runtimes[s].ref \in Refs
      <4>1. runtimes[s] \in RuntimeType
        BY ElementOf DEF Typed, RuntimesTyped
      <4>2. s \in 1 .. Len(runtimes)
        BY DEF Typed, RuntimesTyped
      <4> QED BY <4>1, <4>2 DEF RuntimeType
    <3>2. sessions[runtimes[s].ref] = s
      BY <2>3 DEF OpenOnesRegistered
    <3> QED BY <1>1, <3>1, <3>2 DEF ShutdownBegins, Registered
  <2>4. UNCHANGED runtimes /\ mgrClosed' /\ shutdown'.pc = "owners"
    BY <1>1 DEF ShutdownBegins
  <2> QED BY <2>1, <2>2, <2>3, <2>4 DEF ShutdownKnows
<1>2. CASE ShutdownCloses
  <2>1. Reserving = {}
    BY <1>2 DEF ShutdownCloses, ShutdownKnows, CleanedUp, Reserving
  <2>2. Reserving' = {}
    BY <1>2, <2>1 DEF ShutdownCloses, Reserving
  <2>3. \A s \in DOMAIN runtimes' : runtimes'[s].closed
    BY <1>2 DEF ShutdownCloses, ClosedNow, ShutdownKnows
  <2>4. shutdown'.pc = "turns" /\ mgrClosed'
    BY <1>2 DEF ShutdownCloses, ShutdownKnows
  <2> QED BY <2>2, <2>3, <2>4 DEF ShutdownKnows
<1>3. CASE ShutdownEnds
  <2>1. LockHolders = {} /\ Reserving = {}
    BY <1>3 DEF ShutdownEnds, ShutdownKnows, LockHolders, Reserving
  <2>2. LockHolders' = {} /\ Reserving' = {}
    BY <1>3, <2>1 DEF ShutdownEnds, LockHolders, Reserving
  <2> QED BY <1>3, <2>2 DEF ShutdownEnds, ShutdownKnows
<1> QED BY <1>1, <1>2, <1>3 DEF ShutdownSteps

\* Nobody comes to hold the lock of this runtime, to reserve it, or to run again.
NoNewHolder(s) ==
    \A c \in SubmitIds : c \in LockHolders' /\ submits'[c].session = s =>
        /\ c \in LockHolders /\ submits[c].session = s
        /\ c \in Reserving' => c \in Reserving
        /\ submits[c].pc = "settled" => submits'[c].pc = "settled"

\* What leaves a close with all that it knows.
CloseUndisturbed(k) ==
    LET ref == closes[k].ref IN
    /\ closes'[k].ref = ref /\ closes'[k].session = closes[k].session
    /\ closes'[k].join = closes[k].join
    /\ closes'[k].pc # closes[k].pc => closes[k].pc = "turn" /\ closes'[k].pc = "raise"
    /\ ClosesActively(k) =>
          /\ closing'[ref] = closing[ref]
          /\ sessions'[ref] # sessions[ref] => shutdown'.pc = "done"
          /\ shutdown.pc = "done" => shutdown'.pc = "done"
          /\ runtimes[closes[k].session].closed => runtimes'[closes[k].session].closed
          /\ NoNewHolder(closes[k].session)
    /\ closes[k].pc = "done" /\ closes[k].session # 0 =>
          /\ NoNewHolder(closes[k].session)
          /\ \A r \in Refs : sessions'[r] # closes[k].session
    /\ closes[k].pc = "purge" =>
          /\ lifecycle'[ref] = lifecycle[ref]
          /\ sessions'[ref] = sessions[ref] \/ sessions'[ref] = 0

\* A close that is left alone knows what it knew.
LEMMA CloseStays ==
  ASSUME NEW k \in CloseIds, CloseKnows(k), CloseUndisturbed(k)
  PROVE  CloseKnows(k)'
<1>0. \A c \in LockHolders' \cup Reserving' : c \in SubmitIds /\ c \in LockHolders'
  BY DEF LockHolders, Reserving
<1>1. CASE ClosesActively(k)
  <2>1. ClosesActively(k)' /\ closes'[k].pc \notin {"new", "claim", "joinClose", "purge", "left", "done"}
    BY <1>1 DEF CloseUndisturbed, ClosesActively
  <2>2. NoNewHolder(closes[k].session)
    BY <1>1 DEF CloseUndisturbed
  <2>3. /\ closing'[closes'[k].ref] = k /\ closes'[k].session # 0
        /\ sessions'[closes'[k].ref] = closes'[k].session \/ shutdown'.pc = "done"
    BY <1>1 DEF CloseKnows, CloseUndisturbed
  <2>4. closes'[k].pc \in {"turn", "release", "raise"} => runtimes'[closes'[k].session].closed
    BY <1>1 DEF CloseKnows, CloseUndisturbed
  <2>5. closes'[k].pc = "owner" =>
          \A c \in Reserving' : submits'[c].session = closes'[k].session => c = closes'[k].join
    BY <1>0, <2>2 DEF CloseKnows, CloseUndisturbed, NoNewHolder
  <2>6. closes'[k].pc = "turn" =>
          \A c \in Reserving' : submits'[c].session # closes'[k].session
    BY <1>0, <2>2 DEF CloseKnows, CloseUndisturbed, NoNewHolder
  <2>7. closes'[k].pc = "release" =>
          \A c \in LockHolders' : submits'[c].session = closes'[k].session =>
              submits'[c].pc = "settled" /\ c = closes'[k].join
    BY <1>0, <2>2 DEF CloseKnows, CloseUndisturbed, NoNewHolder
  <2> QED BY <2>1, <2>3, <2>4, <2>5, <2>6, <2>7 DEF CloseKnows
<1>2. CASE ~ClosesActively(k)
  <2>1. closes'[k].pc = closes[k].pc /\ closes'[k].session = closes[k].session
        /\ closes'[k].ref = closes[k].ref
    BY <1>2 DEF CloseUndisturbed, ClosesActively
  <2>2. ~ClosesActively(k)'
    BY <1>2, <2>1 DEF ClosesActively
  <2>3. closes[k].pc = "done" /\ closes[k].session # 0 =>
          /\ \A r \in Refs : sessions'[r] # closes'[k].session
          /\ \A c \in LockHolders' : submits'[c].session # closes'[k].session
    BY <1>0, <2>1 DEF CloseKnows, CloseUndisturbed, NoNewHolder
  <2>4. closes[k].pc = "purge" => lifecycle'[closes'[k].ref] = k /\ sessions'[closes'[k].ref] = 0
    BY <2>1 DEF CloseKnows, CloseUndisturbed
  <2> QED BY <2>1, <2>2, <2>3, <2>4 DEF CloseKnows, ClosesActively
<1> QED BY <1>1, <1>2

\* A submit's step brings a runtime no new holder unless it reserves that one.
LEMMA SubmitHolders ==
  ASSUME NEW c \in SubmitIds, SubmitSteps(c), NEW s, Reserves(c) => submits[c].session # s
  PROVE  NoNewHolder(s)
<1>1. CASE Wanders(c)
  BY <1>1 DEF Wanders, OtherSubmits, NoNewHolder, Reserving, LockHolders, HolderPcs
<1>2. CASE Builds(c)
  BY <1>2 DEF Builds, SubmitNow, OtherSubmits, NoNewHolder, Reserving, LockHolders
<1>3. CASE Reserves(c)
  <2>1. submits'[c].session # s
    BY <1>3 DEF Reserves, SubmitNow
  <2>2. \A d \in SubmitIds : d # c => submits'[d] = submits[d]
    BY <1>3 DEF Reserves, SubmitNow, OtherSubmits
  <2> QED BY <2>1, <2>2 DEF NoNewHolder, Reserving, LockHolders
<1>4. CASE Granted(c)
  BY <1>4 DEF Granted, SubmitNow, OtherSubmits, NoNewHolder, Reserving, LockHolders
<1>5. CASE GivesUp(c)
  BY <1>5 DEF GivesUp, SubmitNow, OtherSubmits, NoNewHolder, Reserving, LockHolders
<1>6. CASE Begins(c)
  BY <1>6 DEF Begins, SubmitNow, OtherSubmits, NoNewHolder, Reserving, LockHolders
<1>7. CASE Settles(c)
  BY <1>7 DEF Settles, SubmitNow, OtherSubmits, NoNewHolder, Reserving, LockHolders
<1>8. CASE Releases(c)
  BY <1>8 DEF Releases, SubmitNow, OtherSubmits, NoNewHolder, Reserving, LockHolders
<1> QED BY <1>1, <1>2, <1>3, <1>4, <1>5, <1>6, <1>7, <1>8 DEF SubmitSteps

\* Revoking brings a runtime no new holder.
LEMMA RevokedHolders ==
  ASSUME NEW owners, RevokedNow(owners), NEW s
  PROVE  NoNewHolder(s)
BY DEF RevokedNow, NoNewHolder, Reserving, LockHolders

\* A step that moves no submit brings no new holder.
LEMMA SameHolders ==
  ASSUME UNCHANGED submits, NEW s
  PROVE  NoNewHolder(s)
BY DEF NoNewHolder, Reserving, LockHolders

\* A submit's step keeps what the closes know.
LEMMA SubmitKeepsCloses ==
  ASSUME Typed, Built, RefsAgree, ShutdownKnows, ClosesKnow, NEW c \in SubmitIds, SubmitSteps(c)
  PROVE  ClosesKnow'
<1> SUFFICES ASSUME NEW k \in CloseIds PROVE CloseUndisturbed(k)
  BY CloseStays DEF ClosesKnow
<1>0. CloseKnows(k) /\ (~mgrClosed => shutdown.pc = "no")
  BY DEF ClosesKnow, ShutdownKnows
<1>1. ~Reserves(c) => NoNewHolder(closes[k].session)
  BY SubmitHolders
<1>2. ClosesActively(k) => closes[k].session \in DOMAIN runtimes
  <2>1. closes[k].session \in Nat /\ Len(runtimes) \in Nat /\ DOMAIN runtimes = 1 .. Len(runtimes)
    BY DEF Typed, ClosesTyped, CloseType, RuntimesTyped
  <2> QED BY <1>0, <2>1 DEF CloseKnows, Built
<1>3. closes[k].pc # "new" => closes[k].ref \in Refs
  BY DEF RefsAgree
<1>4. CASE ~Reserves(c) /\ (Wanders(c) \/ Granted(c) \/ Releases(c))
  BY <1>0, <1>1, <1>4 DEF Wanders, Granted, Releases, CloseUndisturbed, CloseKnows
<1>5. CASE Builds(c)
  <2>1. ~Reserves(c) /\ UNCHANGED <<closes, closing, lifecycle, shutdown>>
    BY <1>5 DEF Builds, Reserves
  <2>2. closes[k].session # Len(runtimes) + 1
    BY DEF Typed, ClosesTyped, CloseType, RuntimesTyped, Built
  <2>3. \A r \in Refs : sessions'[r] = sessions[r] \/ sessions'[r] = Len(runtimes) + 1
    BY <1>5 DEF Builds
  <2>4. ClosesActively(k) => closes[k].ref # submits[c].ref /\ closes[k].ref \in Refs
    <3>1. closing[submits[c].ref] = 0 /\ k # 0
      BY <1>5 DEF Builds, CloseIds
    <3> QED BY <1>0, <1>3, <3>1 DEF CloseKnows, ClosesActively
  <2>5. closes[k].pc = "purge" => closes[k].ref # submits[c].ref /\ closes[k].ref \in Refs
    <3>1. lifecycle[submits[c].ref] = 0 /\ k # 0
      BY <1>5 DEF Builds, CloseIds
    <3> QED BY <1>0, <1>3, <3>1 DEF CloseKnows
  <2>6. \A r \in Refs : r # submits[c].ref => sessions'[r] = sessions[r]
    BY <1>5 DEF Builds
  <2>7. ClosesActively(k) => runtimes'[closes[k].session] = runtimes[closes[k].session]
    BY <1>2, <1>5 DEF Builds
  <2>8. closes[k].pc = "done" /\ closes[k].session # 0 =>
          \A r \in Refs : sessions'[r] # closes[k].session
    BY <1>0, <2>2, <2>3 DEF CloseKnows
  <2> QED BY <1>1, <2>1, <2>4, <2>5, <2>6, <2>7, <2>8 DEF CloseUndisturbed
<1>6. CASE Reserves(c)
  <2>1. /\ UNCHANGED <<closes, closing, lifecycle, shutdown, sessions>>
        /\ submits[c].pc = "submit" /\ ~mgrClosed /\ closing[submits[c].ref] = 0
        /\ sessions[submits[c].ref] = submits[c].session
    BY <1>6 DEF Reserves
  <2>2. submits[c].ref \in Refs /\ runtimes[submits[c].session].ref = submits[c].ref
    BY <2>1, NamesBuilt
  <2>3. ClosesActively(k) => submits[c].session # closes[k].session
    <3> SUFFICES ASSUME ClosesActively(k), submits[c].session = closes[k].session PROVE FALSE
      OBVIOUS
    <3>1. /\ closing[closes[k].ref] = k /\ k # 0 /\ closes[k].ref \in Refs
          /\ sessions[closes[k].ref] = closes[k].session /\ closes[k].session # 0
      BY <1>0, <1>3, <2>1 DEF CloseKnows, CloseIds, ClosesActively
    <3>2. closes[k].ref = submits[c].ref
      BY <2>2, <3>1, RegisteredBuilt
    <3> QED BY <2>1, <3>1, <3>2
  <2>4. closes[k].pc = "done" /\ closes[k].session # 0 => submits[c].session # closes[k].session
    BY <1>0, <2>1, <2>2 DEF CloseKnows
  <2>5. submits[c].session # closes[k].session => NoNewHolder(closes[k].session)
    BY SubmitHolders
  <2>6. ClosesActively(k) =>
          runtimes'[closes[k].session].closed = runtimes[closes[k].session].closed
    BY <1>2, <1>6 DEF Reserves, StateNow
  <2> QED BY <1>0, <2>1, <2>3, <2>4, <2>5, <2>6 DEF CloseUndisturbed, CloseKnows
<1>7. CASE ~Reserves(c) /\ (GivesUp(c) \/ Begins(c) \/ Settles(c))
  <2>1. /\ UNCHANGED <<closing, lifecycle, shutdown, sessions>>
        /\ closes'[k].ref = closes[k].ref /\ closes'[k].session = closes[k].session
        /\ closes'[k].join = closes[k].join
        /\ closes'[k].pc # closes[k].pc => closes[k].pc = "turn" /\ closes'[k].pc = "raise"
    BY <1>7 DEF GivesUp, Begins, Settles
  <2>2. ClosesActively(k) =>
          runtimes'[closes[k].session].closed = runtimes[closes[k].session].closed
    BY <1>2, <1>7 DEF GivesUp, Begins, Settles, StateNow
  <2> QED BY <1>0, <1>1, <1>7, <2>1, <2>2 DEF CloseUndisturbed, CloseKnows
<1> QED BY <1>4, <1>5, <1>6, <1>7 DEF SubmitSteps

\* The other closes.
LEMMA CloseLeavesOthers ==
  ASSUME Typed, Built, RefsAgree, ShutdownKnows, ClosesKnow,
         NEW k \in CloseIds, CloseSteps(k), NEW j \in CloseIds, j # k
  PROVE  CloseUndisturbed(j)
<1>0. CloseKnows(j) /\ CloseKnows(k) /\ k # 0 /\ j # 0
  BY DEF ClosesKnow, CloseIds
<1>1. /\ closes[j].pc # "new" => closes[j].ref \in Refs
      /\ closes[k].pc # "new" => closes[k].ref \in Refs
  BY DEF RefsAgree
<1>2. ClosesActively(j) => closes[j].session \in Nat
  BY DEF Typed, ClosesTyped, CloseType
<1>3. CASE CloseWanders(k) \/ ClosesTurn(k)
  <2>1. NoNewHolder(closes[j].session)
    BY <1>3, SameHolders DEF CloseWanders, ClosesTurn
  <2> QED BY <1>0, <1>3, <2>1 DEF CloseWanders, ClosesTurn, CloseNow, OtherCloses,
             CloseUndisturbed, CloseKnows
<1>4. ASSUME NEW S, ClosedNow(S)
      PROVE  ClosesActively(j) =>
                (runtimes[closes[j].session].closed => runtimes'[closes[j].session].closed)
  <2>1. Len(runtimes) \in Nat /\ DOMAIN runtimes = 1 .. Len(runtimes)
    BY DEF Typed, RuntimesTyped
  <2>2. ClosesActively(j) => closes[j].session \in DOMAIN runtimes
    BY <1>0, <1>2, <2>1 DEF CloseKnows, Built
  <2> QED BY <1>4, <2>2 DEF ClosedNow
<1>5. CASE ClosesFree(k)
  <2>1. NoNewHolder(closes[j].session)
    BY <1>5, SameHolders DEF ClosesFree
  <2>2. ClosesActively(j) => closes[j].ref # closes[k].ref /\ closes[j].ref \in Refs
    BY <1>0, <1>1, <1>5 DEF ClosesFree, CloseKnows, ClosesActively
  <2>3. closes[j].pc = "purge" => closes[j].ref # closes[k].ref /\ closes[j].ref \in Refs
    BY <1>0, <1>1, <1>5 DEF ClosesFree, CloseKnows
  <2>4. ClosesActively(j) =>
            (runtimes[closes[j].session].closed => runtimes'[closes[j].session].closed)
    BY <1>4, <1>5 DEF ClosesFree
  <2>5. closes'[j] = closes[j] /\ UNCHANGED <<closing, shutdown>>
    BY <1>5 DEF ClosesFree, CloseNow, OtherCloses
  <2>6. \A r \in Refs : sessions'[r] = sessions[r] \/ sessions'[r] = 0
    BY <1>5 DEF ClosesFree
  <2>7. closes[j].pc = "done" /\ closes[j].session # 0 =>
          \A r \in Refs : sessions'[r] # closes[j].session
    BY <1>0, <2>6 DEF CloseKnows
  <2>8. \A r \in Refs : r # closes[k].ref => sessions'[r] = sessions[r] /\ lifecycle'[r] = lifecycle[r]
    BY <1>5 DEF ClosesFree
  <2> QED BY <2>1, <2>2, <2>3, <2>4, <2>5, <2>7, <2>8 DEF CloseUndisturbed
<1>6. CASE ClosesBegin(k)
  <2>1. NoNewHolder(closes[j].session)
    BY <1>6, RevokedHolders DEF ClosesBegin
  <2>2. ClosesActively(j) => closes[j].ref # closes[k].ref /\ closes[j].ref \in Refs
    BY <1>0, <1>1, <1>6 DEF ClosesBegin, CloseKnows, ClosesActively
  <2>3. closes'[j] = closes[j] /\ UNCHANGED <<sessions, runtimes, lifecycle, shutdown>>
    BY <1>6 DEF ClosesBegin, CloseNow, OtherCloses
  <2>4. \A r \in Refs : r # closes[k].ref => closing'[r] = closing[r]
    BY <1>6 DEF ClosesBegin
  <2> QED BY <1>0, <2>1, <2>2, <2>3, <2>4 DEF CloseUndisturbed, CloseKnows
<1>7. CASE ClosesSession(k)
  <2>1. NoNewHolder(closes[j].session)
    BY <1>7, SameHolders DEF ClosesSession
  <2>2. ClosesActively(j) =>
            (runtimes[closes[j].session].closed => runtimes'[closes[j].session].closed)
    BY <1>4, <1>7 DEF ClosesSession
  <2>3. closes'[j] = closes[j] /\ UNCHANGED <<sessions, closing, lifecycle, shutdown>>
    BY <1>7 DEF ClosesSession, CloseNow, OtherCloses
  <2> QED BY <1>0, <2>1, <2>2, <2>3 DEF CloseUndisturbed, CloseKnows
<1>8. CASE ClosesDone(k)
  <2>1. NoNewHolder(closes[j].session)
    BY <1>8, SameHolders DEF ClosesDone
  <2>2. ClosesActively(j) => closes[j].ref # closes[k].ref /\ closes[j].ref \in Refs
    <3>1. closing[closes[k].ref] = k
      BY <1>0, <1>8 DEF ClosesDone, CloseKnows, ClosesActively
    <3> QED BY <1>0, <1>1, <3>1 DEF CloseKnows, ClosesActively
  <2>3. closes'[j] = closes[j] /\ UNCHANGED <<runtimes, lifecycle, shutdown>>
    BY <1>8 DEF ClosesDone, CloseNow, OtherCloses
  <2>4. /\ \A r \in Refs : r # closes[k].ref => closing'[r] = closing[r] /\ sessions'[r] = sessions[r]
        /\ \A r \in Refs : sessions'[r] = sessions[r] \/ sessions'[r] = 0
    BY <1>8 DEF ClosesDone
  <2>5. closes[j].pc = "done" /\ closes[j].session # 0 =>
          \A r \in Refs : sessions'[r] # closes[j].session
    BY <1>0, <2>4 DEF CloseKnows
  <2>6. closes[j].pc = "purge" => closes[j].ref \in Refs
    BY <1>1
  <2> QED BY <2>1, <2>2, <2>3, <2>4, <2>5, <2>6 DEF CloseUndisturbed
<1>9. CASE CloseEnds(k)
  <2>1. NoNewHolder(closes[j].session)
    BY <1>9, SameHolders DEF CloseEnds
  <2>2. closes'[j] = closes[j] /\ UNCHANGED <<sessions, runtimes, shutdown>>
    BY <1>9 DEF CloseEnds, CloseNow, OtherCloses
  <2>3. ClosesActively(j) => closing'[closes[j].ref] = closing[closes[j].ref]
    BY <1>0, <1>1, <1>9 DEF CloseEnds, CloseKnows, ClosesActively
  <2>4. closes[j].pc = "purge" => lifecycle'[closes[j].ref] = lifecycle[closes[j].ref]
    BY <1>0, <1>1, <1>9 DEF CloseEnds, CloseKnows
  <2> QED BY <1>0, <2>1, <2>2, <2>3, <2>4 DEF CloseUndisturbed, CloseKnows
<1> QED BY <1>3, <1>5, <1>6, <1>7, <1>8, <1>9 DEF CloseSteps

\* The close itself.
LEMMA CloseKeepsItself ==
  ASSUME Typed, Built, RefsAgree, HoldersKnown, ShutdownKnows, ClosesKnow,
         NEW k \in CloseIds, CloseSteps(k)
  PROVE  CloseKnows(k)'
<1>0. CloseKnows(k)
  BY DEF ClosesKnow
<1>1. closes[k].pc # "new" => closes[k].ref \in Refs
  BY DEF RefsAgree
<1>2. CASE CloseWanders(k)
  <2>1. closes[k].session = 0 /\ closes'[k].session = 0
    BY <1>0, <1>2 DEF CloseWanders, CloseKnows
  <2>2. closes'[k].pc \in {"claim", "joinClose", "done", "failed"}
    BY <1>2 DEF CloseWanders
  <2> QED BY <2>1, <2>2 DEF CloseKnows, ClosesActively
<1>3. CASE ClosesFree(k)
  <2>1. PICK pc \in {"done", "purge"} :
          /\ CloseNow(k, pc, closes[k].session)
          /\ pc = "purge" => lifecycle'[closes[k].ref] = k
    BY <1>3 DEF ClosesFree
  <2>2. /\ closes'[k].session = 0 /\ closes'[k].pc = pc /\ closes'[k].ref = closes[k].ref
        /\ sessions'[closes[k].ref] = 0
    BY <1>0, <1>3, <2>1 DEF ClosesFree, CloseKnows, CloseNow
  <2> QED BY <2>1, <2>2 DEF CloseKnows, ClosesActively
<1>4. CASE ClosesBegin(k)
  <2>1. /\ closes'[k].pc = "owner" /\ closes'[k].ref = closes[k].ref
        /\ closes'[k].session = sessions[closes[k].ref]
        /\ closes'[k].join = queuedOwner[closes[k].ref]
        /\ closing'[closes[k].ref] = k /\ sessions[closes[k].ref] # 0
        /\ UNCHANGED sessions
    BY <1>4 DEF ClosesBegin, CloseNow
  <2>2. ASSUME NEW c \in Reserving', submits'[c].session = sessions[closes[k].ref]
        PROVE  c = queuedOwner[closes[k].ref]
    <3>1. c \in Reserving /\ submits[c].session = sessions[closes[k].ref]
      BY <1>4, <2>2 DEF ClosesBegin, RevokedNow, Reserving
    <3>2. c \in LockHolders /\ c \in SubmitIds
      BY <3>1 DEF Reserving, LockHolders
    <3>3. queuedOwner[submits[c].ref] = c
      BY <3>1, <3>2 DEF HoldersKnown, Holds
    <3>4. submits[c].ref = closes[k].ref
      BY <1>4, <2>1, <3>1, <3>2, NamesBuilt, RegisteredBuilt DEF ClosesBegin
    <3> QED BY <3>3, <3>4
  <2> QED BY <2>1, <2>2 DEF CloseKnows, ClosesActively
<1>5. CASE ClosesSession(k)
  <2>1. /\ closes'[k].pc = "turn" /\ closes'[k].ref = closes[k].ref
        /\ closes'[k].session = closes[k].session
        /\ closes[k].pc = "owner" /\ UNCHANGED <<closing, sessions, submits, shutdown>>
    BY <1>5 DEF ClosesSession, CloseNow
  <2>2. ASSUME NEW c \in Reserving, submits[c].session = closes[k].session
        PROVE  FALSE
    <3>1. c = closes[k].join /\ c # 0
      BY <1>0, <2>1, <2>2 DEF CloseKnows, Reserving, SubmitIds
    <3>2. CleanedUp(c)
      BY <1>5, <3>1 DEF ClosesSession, OwnerGone
    <3> QED BY <2>2, <3>2 DEF CleanedUp, Reserving
  <2>3. Reserving' = Reserving
    BY <2>1 DEF Reserving
  <2>4. closes[k].session \in DOMAIN runtimes
    <3>1. closes[k].session \in Nat /\ Len(runtimes) \in Nat /\ DOMAIN runtimes = 1 .. Len(runtimes)
      BY DEF Typed, ClosesTyped, CloseType, RuntimesTyped
    <3> QED BY <1>0, <2>1, <3>1 DEF CloseKnows, ClosesActively, Built
  <2>5. runtimes'[closes[k].session].closed
    BY <1>5, <2>4 DEF ClosesSession, ClosedNow
  <2>6. \A c \in Reserving' : submits'[c].session # closes'[k].session
    BY <2>1, <2>2, <2>3
  <2> QED BY <1>0, <2>1, <2>5, <2>6 DEF CloseKnows, ClosesActively
<1>6. CASE ClosesTurn(k)
  <2>1. /\ closes'[k].pc = "release" /\ closes'[k].ref = closes[k].ref
        /\ closes'[k].session = closes[k].session
        /\ closes'[k].join = releaseTask[closes[k].ref]
        /\ closes[k].pc = "turn" /\ UNCHANGED <<closing, sessions, submits, shutdown, runtimes>>
        /\ runtimes[closes[k].session].state # "busy"
    BY <1>6 DEF ClosesTurn, CloseNow
  <2>2. ASSUME NEW c \in LockHolders, submits[c].session = closes[k].session
        PROVE  submits[c].pc = "settled" /\ c = releaseTask[closes[k].ref]
    <3>1. Holds(c) /\ c \in SubmitIds
      BY DEF HoldersKnown, LockHolders
    <3>2. c \notin Reserving
      BY <1>0, <2>1, <2>2 DEF CloseKnows
    <3>3. submits[c].pc # "running"
      BY <2>1, <2>2, <3>1 DEF Holds
    <3>4. submits[c].pc = "settled"
      BY <3>1, <3>2, <3>3 DEF LockHolders, Reserving
    <3>5. sessions[closes[k].ref] = closes[k].session /\ closes[k].session # 0
      BY <1>0, <2>1 DEF CloseKnows, ClosesActively, ShutdownKnows
    <3>6. submits[c].ref = closes[k].ref
      BY <1>1, <2>1, <2>2, <3>1, <3>5, NamesBuilt, RegisteredBuilt
    <3> QED BY <2>2, <3>1, <3>4, <3>5, <3>6 DEF Holds
  <2>3. LockHolders' = LockHolders
    BY <2>1 DEF LockHolders
  <2>4. \A c \in LockHolders' : submits'[c].session = closes'[k].session =>
            submits'[c].pc = "settled" /\ c = closes'[k].join
    BY <2>1, <2>2, <2>3
  <2> QED BY <1>0, <2>1, <2>4 DEF CloseKnows, ClosesActively
<1>7. CASE ClosesDone(k)
  <2>1. /\ closes'[k].pc = "done" /\ closes'[k].session = closes[k].session
        /\ closes[k].pc = "release" /\ UNCHANGED submits
        /\ \A c \in {closes[k].join} \ {0} : submits[c].pc \in {"freed", "done"}
    BY <1>7 DEF ClosesDone, CloseNow
  <2>2. ASSUME NEW c \in LockHolders, submits[c].session = closes[k].session
        PROVE  FALSE
    <3>1. submits[c].pc = "settled" /\ c = closes[k].join /\ c # 0
      BY <1>0, <2>1, <2>2 DEF CloseKnows, LockHolders, SubmitIds
    <3> QED BY <2>1, <3>1
  <2>3. \A c \in LockHolders' : submits'[c].session # closes'[k].session
    BY <2>1, <2>2 DEF LockHolders
  <2>4. ASSUME NEW r \in Refs, sessions'[r] = closes[k].session, closes[k].session # 0
        PROVE  FALSE
    <3>1. closes[k].ref \in Refs
      BY <1>1, <2>1
    <3>2. CASE r = closes[k].ref
      BY <1>7, <2>4, <3>2 DEF ClosesDone
    <3>3. CASE r # closes[k].ref
      <4>1. sessions[r] = closes[k].session
        BY <1>7, <2>4, <3>3 DEF ClosesDone
      <4>2. sessions[closes[k].ref] = closes[k].session
        BY <1>0, <2>1, <2>4, <4>1 DEF CloseKnows, ClosesActively, ShutdownKnows
      <4> QED BY <2>4, <3>1, <3>3, <4>1, <4>2, RegisteredBuilt
    <3> QED BY <3>2, <3>3
  <2> QED BY <2>1, <2>3, <2>4 DEF CloseKnows, ClosesActively
<1>8. CASE CloseEnds(k)
  <2>1. \/ closes'[k].pc = "failed"
        \/ closes'[k].pc \in {"done", "left"} /\ closes'[k].session = 0
    BY <1>0, <1>8 DEF CloseEnds, CloseNow, CloseKnows
  <2> QED BY <2>1 DEF CloseKnows, ClosesActively
<1> QED BY <1>2, <1>3, <1>4, <1>5, <1>6, <1>7, <1>8 DEF CloseSteps

\* A close's step keeps what the closes know.
LEMMA CloseKeepsCloses ==
  ASSUME Typed, Built, RefsAgree, HoldersKnown, ShutdownKnows, ClosesKnow,
         NEW k \in CloseIds, CloseSteps(k)
  PROVE  ClosesKnow'
<1> SUFFICES ASSUME NEW j \in CloseIds PROVE CloseKnows(j)'
  BY DEF ClosesKnow
<1>1. CASE j = k
  BY <1>1, CloseKeepsItself
<1>2. CASE j # k
  <2>1. CloseKnows(j)
    BY DEF ClosesKnow
  <2> QED BY <1>2, <2>1, CloseLeavesOthers, CloseStays
<1> QED BY <1>1, <1>2

\* A shutdown's step keeps what the closes know.
LEMMA ShutdownKeepsCloses ==
  ASSUME Typed, Built, RefsAgree, ShutdownKnows, ClosesKnow, ShutdownSteps
  PROVE  ClosesKnow'
<1> SUFFICES ASSUME NEW k \in CloseIds PROVE CloseUndisturbed(k)
  BY CloseStays DEF ClosesKnow
<1>0. CloseKnows(k) /\ (closes[k].pc # "new" => closes[k].ref \in Refs)
  BY DEF ClosesKnow, RefsAgree
<1>1. CASE ShutdownBegins
  <2>1. NoNewHolder(closes[k].session)
    BY <1>1, RevokedHolders DEF ShutdownBegins
  <2>2. /\ UNCHANGED <<sessions, runtimes, lifecycle, closing, closes>>
        /\ shutdown.pc # "done"
    BY <1>1 DEF ShutdownBegins, ShutdownKnows
  <2> QED BY <1>0, <2>1, <2>2 DEF CloseUndisturbed, CloseKnows
<1>2. CASE ShutdownCloses
  <2>1. NoNewHolder(closes[k].session)
    BY <1>2, SameHolders DEF ShutdownCloses
  <2>2. /\ UNCHANGED <<sessions, lifecycle, closing, closes>>
        /\ shutdown.pc # "done"
    BY <1>2 DEF ShutdownCloses
  <2>3. ClosesActively(k) =>
            (runtimes[closes[k].session].closed => runtimes'[closes[k].session].closed)
    <3>1. closes[k].session \in Nat /\ Len(runtimes) \in Nat /\ DOMAIN runtimes = 1 .. Len(runtimes)
      BY DEF Typed, ClosesTyped, CloseType, RuntimesTyped
    <3>2. ClosesActively(k) => closes[k].session \in DOMAIN runtimes
      BY <1>0, <3>1 DEF CloseKnows, Built
    <3> QED BY <1>2, <3>2 DEF ShutdownCloses, ClosedNow
  <2> QED BY <1>0, <2>1, <2>2, <2>3 DEF CloseUndisturbed, CloseKnows
<1>3. CASE ShutdownEnds
  <2>1. NoNewHolder(closes[k].session)
    BY <1>3, SameHolders DEF ShutdownEnds
  <2>2. /\ UNCHANGED <<runtimes, lifecycle, closing, closes>>
        /\ shutdown'.pc = "done"
        /\ \A r \in Refs : sessions'[r] = 0
    BY <1>3 DEF ShutdownEnds
  <2> QED BY <1>0, <2>1, <2>2 DEF CloseUndisturbed
<1> QED BY <1>1, <1>2, <1>3 DEF ShutdownSteps
-----------------------------------------------------------------------------
(* The theorems.                                                           *)

\* The manager starts in its invariant.
LEMMA InitManager == Init => ManagerInv
<1> SUFFICES ASSUME Init PROVE ManagerInv
  OBVIOUS
<1>1. Typed /\ Built
  BY InitTyped
<1>2. /\ \A c \in SubmitIds : submits[c].pc = "new"
      /\ \A k \in CloseIds : closes[k].pc = "new" /\ closes[k].session = 0
      /\ shutdown.pc = "no" /\ mgrClosed = FALSE
      /\ runtimes = <<>> /\ DOMAIN runtimes = {}
      /\ \A r \in Refs : sessions[r] = 0
      /\ permits = Permits /\ leaked = 0 /\ locked = {}
  BY DEF Init
<1>3. LockHolders = {} /\ PermitHolders = {} /\ Reserving = {}
  BY <1>2 DEF LockHolders, PermitHolders, Reserving
<1>4. RefsAgree
  BY <1>2, <1>3 DEF RefsAgree
<1>5. PermitsAccounted
  <2>1. Cardinality(PermitHolders) = 0
    BY <1>3, FS_EmptySet
  <2> QED BY <1>2, <2>1 DEF PermitsAccounted
<1>6. LocksAccounted
  BY <1>2, <1>3 DEF LocksAccounted
<1>7. HoldersKnown /\ OpenOnesRegistered /\ ShutdownKnows
  BY <1>2, <1>3 DEF HoldersKnown, OpenOnesRegistered, ShutdownKnows
<1>8. ClosesKnow
  BY <1>2 DEF ClosesKnow, CloseKnows, ClosesActively
<1> QED BY <1>1, <1>4, <1>5, <1>6, <1>7, <1>8 DEF ManagerInv, HoldingsAccounted

\* Every step keeps the manager's invariant.
LEMMA NextManager == ManagerInv /\ [Next]_vars => ManagerInv'
<1> SUFFICES ASSUME ManagerInv, [Next]_vars PROVE ManagerInv'
  OBVIOUS
<1>0. /\ Typed /\ Built /\ RefsAgree /\ PermitsAccounted /\ LocksAccounted /\ HoldersKnown
      /\ OpenOnesRegistered /\ ShutdownKnows /\ ClosesKnow
  BY DEF ManagerInv, HoldingsAccounted
<1>1. ASSUME NEW c \in SubmitIds, SubmitSteps(c) PROVE ManagerInv'
  <2>1. Typed' /\ Built' /\ RefsAgree'
    BY <1>0, <1>1, SubmitKeepsTypes, SubmitKeepsRefs
  <2>2. PermitsAccounted' /\ LocksAccounted'
    BY <1>0, <1>1, SubmitKeepsPermits, SubmitKeepsLocks
  <2>3. HoldersKnown' /\ OpenOnesRegistered'
    BY <1>0, <1>1, SubmitKeepsHolders, SubmitKeepsOpenOnes
  <2>4. ShutdownKnows' /\ ClosesKnow'
    BY <1>0, <1>1, SubmitKeepsShutdown, SubmitKeepsCloses
  <2> QED BY <2>1, <2>2, <2>3, <2>4 DEF ManagerInv, HoldingsAccounted
<1>2. ASSUME NEW k \in CloseIds, CloseSteps(k) PROVE ManagerInv'
  <2>1. Typed' /\ Built' /\ RefsAgree'
    BY <1>0, <1>2, CloseKeepsTypes, CloseKeepsRefs
  <2>2. PermitsAccounted' /\ LocksAccounted'
    BY <1>0, <1>2, OthersKeepPermits, OthersKeepLocks
  <2>3. HoldersKnown' /\ OpenOnesRegistered'
    BY <1>0, <1>2, CloseKeepsHolders, CloseKeepsOpenOnes
  <2>4. ShutdownKnows' /\ ClosesKnow'
    BY <1>0, <1>2, CloseKeepsShutdown, CloseKeepsCloses
  <2> QED BY <2>1, <2>2, <2>3, <2>4 DEF ManagerInv, HoldingsAccounted
<1>3. ASSUME ShutdownSteps PROVE ManagerInv'
  <2>1. Typed' /\ Built' /\ RefsAgree'
    BY <1>0, <1>3, ShutdownKeepsTypes, ShutdownKeepsRefs
  <2>2. PermitsAccounted' /\ LocksAccounted'
    BY <1>0, <1>3, OthersKeepPermits, OthersKeepLocks
  <2>3. HoldersKnown' /\ OpenOnesRegistered'
    BY <1>0, <1>3, ShutdownKeepsHolders, ShutdownKeepsOpenOnes
  <2>4. ShutdownKnows' /\ ClosesKnow'
    BY <1>0, <1>3, ShutdownKeepsShutdown, ShutdownKeepsCloses
  <2> QED BY <2>1, <2>2, <2>3, <2>4 DEF ManagerInv, HoldingsAccounted
<1>4. ASSUME UNCHANGED vars PROVE ManagerInv'
  <2>1. Reserving' = Reserving /\ LockHolders' = LockHolders /\ PermitHolders' = PermitHolders
    BY <1>4 DEF vars, Reserving, LockHolders, PermitHolders
  <2>2. Typed' /\ Built' /\ RefsAgree'
    BY <1>0, <1>4, <2>1 DEF vars, Typed, RuntimesTyped, RegistryTyped, SubmitsTyped, ClosesTyped,
       ShutdownTyped, Built, RefsAgree
  <2>3. PermitsAccounted' /\ LocksAccounted'
    BY <1>0, <1>4, <2>1 DEF vars, PermitsAccounted, LocksAccounted
  <2>4. \A c \in LockHolders : Holds(c)'
    BY <1>0, <1>4, <2>1 DEF vars, HoldersKnown, Holds, Current
  <2>5. HoldersKnown' /\ OpenOnesRegistered'
    BY <1>0, <1>4, <2>1, <2>4 DEF vars, HoldersKnown, OpenOnesRegistered
  <2>6. ShutdownKnows'
    BY <1>0, <1>4, <2>1 DEF vars, ShutdownKnows
  <2>7. ClosesKnow'
    BY <1>0, <1>4, <2>1 DEF vars, ClosesKnow, CloseKnows, ClosesActively
  <2> QED BY <2>2, <2>3, <2>5, <2>6, <2>7 DEF ManagerInv, HoldingsAccounted
<1> QED BY <1>1, <1>2, <1>3, <1>4, StepsAreThese

\* The registry, the submits, the closes and the shutdown agree about which
\* runtime and which locks are whose, in every reachable state (open_session_ref,
\* submit, close_session_ref, delete_session_ref, shutdown).
THEOREM ManagerInvariant == Spec => []ManagerInv
<1>1. Init => ManagerInv
  BY InitManager
<1>2. ManagerInv /\ [Next]_vars => ManagerInv'
  BY NextManager
<1> QED BY <1>1, <1>2, PTL DEF Spec

\* Every field of the manager has its type, and a runtime that is registered, or
\* that a call works on, is one that was built.
THEOREM TypesHold == Spec => [](Typed /\ Built)
<1>1. ManagerInv => Typed /\ Built
  BY DEF ManagerInv
<1> QED BY <1>1, ManagerInvariant, PTL

\* A permit is in the semaphore, with one submit, or lost to a cancelled caller; a
\* submit lock that is held has one holder: submit, release_when_done, close
\* and shutdown give back what a submit holds once.
THEOREM HoldingsAreAccounted == Spec => []HoldingsAccounted
<1>1. ManagerInv => HoldingsAccounted
  BY DEF ManagerInv
<1> QED BY <1>1, ManagerInvariant, PTL

\* Open runtimes that are registered are one per thread.
LEMMA OpenOnesAreOne == Typed /\ OpenOnesRegistered => OneRuntimePerThread
BY DEF OpenOnesRegistered, OneRuntimePerThread

\* At most one runtime of a thread accepts work, whatever opens, closes, deletes and
\* failed closes come before.
THEOREM OneOpenRuntime == Spec => []OneRuntimePerThread
<1>1. ManagerInv => OneRuntimePerThread
  BY OpenOnesAreOne DEF ManagerInv
<1> QED BY <1>1, ManagerInvariant, PTL

\* A close that is done has left nothing of its runtime.
LEMMA DoneClosesLeaveNothing == ShutdownKnows /\ ClosesKnow => CloseLeavesNothing
BY DEF ShutdownKnows, ClosesKnow, CloseKnows, CloseLeavesNothing

\* A close with cancel_active=True that has returned, and a shutdown that has, leave
\* no queued and no running turn, no permit and no lock of what they closed.
THEOREM ClosesLeaveNothing == Spec => []CloseLeavesNothing
<1>1. ManagerInv => CloseLeavesNothing
  BY DoneClosesLeaveNothing DEF ManagerInv
<1> QED BY <1>1, ManagerInvariant, PTL

\* A delete that purges is alone with its thread.
LEMMA PurgesAreAlone == RefsAgree /\ HoldersKnown /\ ClosesKnow => DeleteIsExclusive
<1> SUFFICES ASSUME RefsAgree, HoldersKnown, ClosesKnow,
                    NEW k \in CloseIds, closes[k].pc = "purge"
             PROVE  Vacant(k)
  BY DEF DeleteIsExclusive
<1>1. sessions[closes[k].ref] = 0
  BY DEF ClosesKnow, CloseKnows
<1>2. ASSUME NEW c \in SubmitIds, submits[c].pc \in {"queued", "granted", "running"}
      PROVE  submits[c].ref # closes[k].ref
  <2>1. c \in LockHolders
    BY <1>2 DEF LockHolders
  <2>2. Current(c) /\ submits[c].session # 0
    BY <1>2, <2>1, UnsettledIsCurrent DEF RefsAgree
  <2> QED BY <1>1, <2>2 DEF Current
<1> QED BY <1>1, <1>2 DEF Vacant

\* While delete_session_ref waits for the purge of a thread, no runtime is registered
\* for it and no turn of it waits or runs, whatever closes, opens, submits and the
\* callers that are cancelled do.  It ends with the wait: a purge that a cancelled
\* delete leaves behind has nothing of it (PurgeIsExclusive).
THEOREM DeletesAreExclusive == Spec => []DeleteIsExclusive
<1>1. ManagerInv => DeleteIsExclusive
  BY PurgesAreAlone DEF ManagerInv
<1> QED BY <1>1, ManagerInvariant, PTL

\* What max_concurrent_sessions promises: no more turns run, or are about to, than
\* there are permits.
TurnsBounded == Cardinality(PermitHolders) <= Permits

\* The turns that run hold permits, so there are no more than permits.
LEMMA PermitsBoundTurns == Typed /\ PermitsAccounted => TurnsBounded
<1> SUFFICES ASSUME Typed, PermitsAccounted PROVE TurnsBounded
  OBVIOUS
<1>1. PICK p \in Nat, l \in Nat, n \in Nat :
        p = permits /\ l = leaked /\ n = Cardinality(PermitHolders)
  BY HoldersFinite DEF Typed, RegistryTyped
<1>2. p + n + l = Permits
  BY <1>1 DEF PermitsAccounted
<1>3. n <= Permits
  BY <1>2
<1> QED BY <1>1, <1>3 DEF TurnsBounded

\* The semaphore bounds the turns of all threads together, on every path by which a
\* permit is taken or given back.
THEOREM TurnsAreBounded == Spec => []TurnsBounded
<1>1. ManagerInv => TurnsBounded
  BY PermitsBoundTurns DEF ManagerInv, HoldingsAccounted
<1> QED BY <1>1, ManagerInvariant, PTL

\* At most one submit of a thread reserves or runs a turn at a time, across the
\* generations of its runtime and of its lock.
OneTurnPerThread ==
    \A c, d \in LockHolders :
        /\ submits[c].pc # "settled" /\ submits[d].pc # "settled"
        /\ submits[c].ref = submits[d].ref
        => c = d

\* The turns of a thread hold its one lock, so there is one.
LEMMA HoldersAreOne == LocksAccounted /\ HoldersKnown => OneTurnPerThread
BY UnsettledIsCurrent, OneCurrentHolder DEF OneTurnPerThread

\* The popped and recreated submit locks never let two turns of a thread in: a close
\* pops the lock, an open makes another one, and the turn of the old generation is
\* over by then.
THEOREM ThreadsTakeTurns == Spec => []OneTurnPerThread
<1>1. ManagerInv => OneTurnPerThread
  BY HoldersAreOne DEF ManagerInv, HoldingsAccounted
<1> QED BY <1>1, ManagerInvariant, PTL
=============================================================================
