--------------------------- MODULE RuntimeManager ---------------------------
(***************************************************************************)
(* RuntimeManager (runtime/sessions/manager.py): routes submits to the     *)
(* session runtime of their thread, opens and closes runtimes, and bounds  *)
(* the turns that run at once with a semaphore.                            *)
(*                                                                         *)
(* All calls are coroutines of one loop: what a call does between two      *)
(* awaits that can suspend is one action.  Of the calls modelled here only *)
(* a delete holds the lifecycle lock of a thread across a suspension (its  *)
(* purge runs on a worker), so the lock is the holder's number, 0 when     *)
(* free.  Locks are objects: a registry entry that is popped and recreated *)
(* is another lock.  A session runtime is reduced to what the manager      *)
(* reads of it: free, reserved or busy with a turn, and closed.            *)
(***************************************************************************)
EXTENDS Integers, Sequences, FiniteSets

CONSTANTS
    Refs,        \* thread ids
    Permits,     \* max_concurrent_sessions
    MaxSubmits,  \* bound: submit calls
    MaxCloses,   \* bound: close and delete calls
    MaxAbandons  \* bound: turns whose future ends without a result

ASSUME ManagerAssumption ==
    /\ Refs # {}
    /\ Permits \in Nat \ {0} /\ MaxSubmits \in Nat /\ MaxCloses \in Nat
    /\ MaxAbandons \in Nat

VARIABLES
    mgrClosed,   \* _closed
    sessions,    \* _sessions: the runtime registered for a thread, 0 for none
    runtimes,    \* every runtime built, by number
    submitLock,  \* _submit_locks: the lock registered for a thread, 0 for none
    lockCount,   \* lock objects made so far
    locked,      \* lock objects that are held
    lifecycle,   \* _lifecycle_locks: the delete that holds it, 0 for free
    closing,     \* _closing: the close that runs for a thread, 0 for none
    queuedOwner, \* _queued_owners
    releaseTask, \* _release_tasks_by_thread
    permits,     \* value of the semaphore
    waiting,     \* its waiters, first come first served
    submits,     \* the submit calls
    closes,      \* the close and delete calls
    shutdown,    \* the shutdown call: its step and what it captured
    abandoned,   \* submits whose turn's future was cancelled or raised
    leaked       \* history: permits nobody will release

registryVars == <<sessions, runtimes, submitLock, lockCount, closing, lifecycle>>
permitVars == <<permits, waiting, leaked, abandoned>>
vars == <<mgrClosed, sessions, runtimes, submitLock, lockCount, locked, lifecycle,
          closing, queuedOwner, releaseTask, permits, waiting, submits, closes,
          shutdown, abandoned, leaked>>

SubmitIds == 1 .. MaxSubmits
CloseIds == 1 .. MaxCloses
CloseModes == {"cancel", "strict", "delete"}

NoRef == "none"

Init ==
    /\ mgrClosed = FALSE
    /\ sessions = [r \in Refs |-> 0] /\ runtimes = <<>>
    /\ submitLock = [r \in Refs |-> 0] /\ lockCount = 0 /\ locked = {}
    /\ lifecycle = [r \in Refs |-> 0] /\ closing = [r \in Refs |-> 0]
    /\ queuedOwner = [r \in Refs |-> 0] /\ releaseTask = [r \in Refs |-> 0]
    /\ permits = Permits /\ waiting = <<>> /\ leaked = 0 /\ abandoned = {}
    /\ submits = [c \in SubmitIds |->
          [pc |-> "new", ref |-> NoRef, session |-> 0, lock |-> 0, join |-> 0]]
    /\ closes = [k \in CloseIds |->
          [pc |-> "new", ref |-> NoRef, mode |-> "cancel", session |-> 0, join |-> 0]]
    /\ shutdown = [pc |-> "no", owners |-> {}, sessions |-> {}]

\* setdefault on _submit_locks.
EnsureSubmitLock(ref) ==
    IF submitLock[ref] # 0
    THEN UNCHANGED <<submitLock, lockCount>>
    ELSE /\ lockCount' = lockCount + 1
         /\ submitLock' = [submitLock EXCEPT ![ref] = lockCount + 1]

Goto(c, label) == submits' = [submits EXCEPT ![c].pc = label]
-----------------------------------------------------------------------------
(* submit: open_session_ref first *)

\* Calls are numbered in the order they are made.
SubmitCalls(c, ref) ==
    /\ \A d \in SubmitIds : submits[d].pc = "new" <=> d >= c
    /\ submits' = [submits EXCEPT ![c].ref = ref,
                                  ![c].pc = IF mgrClosed THEN "failed" ELSE "open"]
    /\ IF mgrClosed THEN UNCHANGED <<submitLock, lockCount>> ELSE EnsureSubmitLock(ref)
    /\ UNCHANGED <<mgrClosed, sessions, runtimes, locked, lifecycle, closing,
                   queuedOwner, releaseTask, closes, shutdown>>
    /\ UNCHANGED permitVars

\* Faulty: the coordinator is not taken.
LifecycleFree_Ignored(ref) == TRUE

\* The lifecycle lock can be acquired.
LifecycleFree(ref) == lifecycle[ref] = 0

Opens(c) ==
    LET ref == submits[c].ref IN
    /\ submits[c].pc = "open"
    /\ LifecycleFree(ref)
    /\ \/ /\ mgrClosed
          /\ Goto(c, "failed")
          /\ UNCHANGED <<sessions, runtimes>>
       \/ /\ ~mgrClosed /\ closing[ref] # 0
          /\ submits' = [submits EXCEPT ![c].pc = "joinClose", ![c].join = closing[ref]]
          /\ UNCHANGED <<sessions, runtimes>>
       \/ /\ ~mgrClosed /\ closing[ref] = 0 /\ sessions[ref] # 0
          /\ submits' = [submits EXCEPT ![c].pc = "submit", ![c].session = sessions[ref]]
          /\ UNCHANGED <<sessions, runtimes>>
       \/ /\ ~mgrClosed /\ closing[ref] = 0 /\ sessions[ref] = 0
          /\ runtimes' = Append(runtimes, [ref |-> ref, state |-> "free", closed |-> FALSE])
          /\ sessions' = [sessions EXCEPT ![ref] = Len(runtimes')]
          /\ submits' = [submits EXCEPT ![c].pc = "submit", ![c].session = Len(runtimes')]
    /\ UNCHANGED <<mgrClosed, submitLock, lockCount, locked, lifecycle, closing,
                   queuedOwner, releaseTask, closes, shutdown>>
    /\ UNCHANGED permitVars

\* The close it waited for is over: look again, or raise as the close did.
JoinedClose(c) ==
    /\ submits[c].pc = "joinClose"
    /\ \/ closes[submits[c].join].pc = "done" /\ Goto(c, "open")
       \/ closes[submits[c].join].pc = "failed" /\ Goto(c, "failed")
    /\ UNCHANGED <<mgrClosed, locked, queuedOwner, releaseTask, closes, shutdown>>
    /\ UNCHANGED registryVars /\ UNCHANGED permitVars
-----------------------------------------------------------------------------
(* submit: from the lifecycle lock to the release of the permit *)

SetState(session, state) == runtimes' = [runtimes EXCEPT ![session].state = state]
Reservable(session) == runtimes[session].state = "free" /\ ~runtimes[session].closed

\* Under the lifecycle lock: the generation and busy checks, the reservation,
\* and the wait for a permit.
Enqueues(c) ==
    LET ref == submits[c].ref
        session == submits[c].session
        stale == mgrClosed \/ closing[ref] # 0 \/ sessions[ref] # session
        lock == submitLock[ref]
    IN
    /\ submits[c].pc = "submit"
    /\ LifecycleFree(ref)
    /\ \/ /\ stale
          /\ Goto(c, "failed")
          /\ UNCHANGED <<runtimes, locked, queuedOwner, waiting>>
       \/ \* self._submit_locks[thread_id] raises KeyError
          /\ ~stale /\ lock = 0
          /\ Goto(c, "keyerror")
          /\ UNCHANGED <<runtimes, locked, queuedOwner, waiting>>
       \/ /\ ~stale /\ lock \in locked
          /\ runtimes[session].state = "free" /\ releaseTask[ref] # 0
          /\ submits' = [submits EXCEPT ![c].pc = "joinRelease", ![c].join = releaseTask[ref]]
          /\ UNCHANGED <<runtimes, locked, queuedOwner, waiting>>
       \/ /\ ~stale /\ lock # 0
          /\ IF lock \in locked
             THEN runtimes[session].state # "free" \/ releaseTask[ref] = 0
             ELSE ~Reservable(session)
          /\ Goto(c, "failed")
          /\ UNCHANGED <<runtimes, locked, queuedOwner, waiting>>
       \/ /\ ~stale /\ lock # 0 /\ lock \notin locked /\ Reservable(session)
          /\ locked' = locked \cup {lock}
          /\ SetState(session, "reserved")
          /\ submits' = [submits EXCEPT ![c].pc = "queued", ![c].lock = lock]
          /\ queuedOwner' = [queuedOwner EXCEPT ![ref] = c]
          /\ waiting' = Append(waiting, c)
    /\ UNCHANGED <<mgrClosed, sessions, submitLock, lockCount, lifecycle, closing,
                   releaseTask, permits, closes, shutdown, leaked, abandoned>>

\* The turn before it has given its permit and its lock back: look again, or
\* raise what its release task raised.
JoinedRelease(c) ==
    LET prior == submits[c].join IN
    /\ submits[c].pc = "joinRelease"
    /\ submits[prior].pc \in {"freed", "done"}
    /\ Goto(c, IF prior \in abandoned THEN "failed" ELSE "submit")
    /\ UNCHANGED <<mgrClosed, locked, queuedOwner, releaseTask, closes, shutdown>>
    /\ UNCHANGED registryVars /\ UNCHANGED permitVars

\* The acquire task gets a permit; the submit has not resumed yet.
Grants(c) ==
    /\ submits[c].pc = "queued"
    /\ waiting # <<>> /\ Head(waiting) = c
    /\ permits > 0
    /\ permits' = permits - 1
    /\ waiting' = Tail(waiting)
    /\ Goto(c, "granted")
    /\ UNCHANGED <<mgrClosed, locked, queuedOwner, releaseTask, closes, shutdown, leaked, abandoned>>
    /\ UNCHANGED registryVars

\* The except and finally clauses of a queued submit that does not start:
\* release_turn and clear_queued, the submit lock, the owner record.
CleanUp(c) ==
    /\ Goto(c, "failed")
    /\ IF runtimes[submits[c].session].state = "reserved"
       THEN SetState(submits[c].session, "free")
       ELSE UNCHANGED runtimes
    /\ locked' = locked \ {submits[c].lock}
    /\ queuedOwner' = [r \in Refs |-> IF queuedOwner[r] = c THEN 0 ELSE queuedOwner[r]]

\* Faulty: a start refused after the permit arrived keeps the permit.
StartRefused_KeepsPermit(c) ==
    /\ CleanUp(c)
    /\ UNCHANGED permits

\* The permit is there but the turn does not start: a close or shutdown won, or
\* session.submit raised.
StartRefused(c) ==
    /\ CleanUp(c)
    /\ permits' = permits + 1

\* The submit resumes with its permit.
Starts(c) ==
    LET ref == submits[c].ref
        session == submits[c].session
    IN
    /\ submits[c].pc = "granted"
    /\ \/ /\ StartRefused(c)
          /\ UNCHANGED releaseTask
       \/ /\ ~mgrClosed /\ closing[ref] = 0 /\ ~runtimes[session].closed
          /\ SetState(session, "busy")
          /\ Goto(c, "running")
          /\ queuedOwner' = [queuedOwner EXCEPT ![ref] = IF @ = c THEN 0 ELSE @]
          /\ releaseTask' = [releaseTask EXCEPT ![ref] = c]
          /\ UNCHANGED <<permits, locked>>
    /\ UNCHANGED <<mgrClosed, sessions, submitLock, lockCount, lifecycle, closing,
                   waiting, closes, shutdown, leaked, abandoned>>

\* A close or shutdown cancelled the acquire task of this queued submit.
Revoked(c) ==
    /\ submits[c].pc = "revoked"
    /\ CleanUp(c)
    /\ UNCHANGED <<mgrClosed, sessions, submitLock, lockCount, lifecycle, closing,
                   releaseTask, closes, shutdown>>
    /\ UNCHANGED permitVars

\* The caller's task is cancelled while submit is suspended.  Cancelled between
\* the grant and its own resumption, the submit sees acquired = False and does
\* not give the permit back.
CallerCancels(c) ==
    /\ \/ /\ submits[c].pc \in {"open", "joinClose", "submit", "joinRelease"}
          /\ Goto(c, "failed")
          /\ UNCHANGED <<runtimes, locked, queuedOwner, waiting, leaked>>
       \/ /\ submits[c].pc = "queued"
          /\ CleanUp(c)
          /\ waiting' = SelectSeq(waiting, LAMBDA d : d # c)
          /\ UNCHANGED leaked
       \/ /\ submits[c].pc = "granted"
          /\ CleanUp(c)
          /\ leaked' = leaked + 1
          /\ UNCHANGED waiting
    /\ UNCHANGED <<mgrClosed, sessions, submitLock, lockCount, lifecycle, closing,
                   releaseTask, permits, closes, shutdown, abandoned>>

\* Faulty: a closed runtime is never seen to be free again.
TurnSettles_NotWhenClosed(c) ==
    /\ submits[c].pc = "running"
    /\ Goto(c, "settled")
    /\ IF runtimes[submits[c].session].closed
       THEN UNCHANGED runtimes
       ELSE SetState(submits[c].session, "free")
    /\ UNCHANGED <<mgrClosed, sessions, submitLock, lockCount, locked, lifecycle, closing,
                   queuedOwner, releaseTask, closes, shutdown>>
    /\ UNCHANGED permitVars

\* The turn ends and its settlement is published.
TurnSettles(c) ==
    /\ submits[c].pc = "running"
    /\ Goto(c, "settled")
    /\ SetState(submits[c].session, "free")
    /\ UNCHANGED <<mgrClosed, sessions, submitLock, lockCount, locked, lifecycle, closing,
                   queuedOwner, releaseTask, closes, shutdown>>
    /\ UNCHANGED permitVars

\* The turn's future ends without a result (SessionRuntime: Resultless): the
\* release task ends with that, and a close that waits for the turn raises it.
TurnAbandoned(c) ==
    /\ submits[c].pc = "running"
    /\ Cardinality(abandoned) < MaxAbandons
    /\ abandoned' = abandoned \cup {c}
    /\ Goto(c, "settled")
    /\ SetState(submits[c].session, "free")
    /\ closes' = [k \in CloseIds |->
          IF closes[k].pc = "turn" /\ closes[k].session = submits[c].session
          THEN [closes[k] EXCEPT !.pc = "raise"] ELSE closes[k]]
    /\ UNCHANGED <<mgrClosed, sessions, submitLock, lockCount, locked, lifecycle, closing,
                   queuedOwner, releaseTask, shutdown, permits, waiting, leaked>>

\* Faulty: gives the submit lock back and not the permit.
ReleaseWhenDone_KeepsPermit(c) ==
    /\ submits[c].pc = "settled"
    /\ Goto(c, "freed")
    /\ locked' = locked \ {submits[c].lock}
    /\ UNCHANGED <<mgrClosed, queuedOwner, releaseTask, closes, shutdown>>
    /\ UNCHANGED registryVars /\ UNCHANGED permitVars

\* release_when_done.
ReleaseWhenDone(c) ==
    /\ submits[c].pc = "settled"
    /\ Goto(c, "freed")
    /\ permits' = permits + 1
    /\ locked' = locked \ {submits[c].lock}
    /\ UNCHANGED <<mgrClosed, queuedOwner, releaseTask, waiting, closes, shutdown, leaked, abandoned>>
    /\ UNCHANGED registryVars

\* forget_release, the task's done callback.
ForgetRelease(c) ==
    /\ submits[c].pc = "freed"
    /\ Goto(c, "done")
    /\ releaseTask' = [r \in Refs |-> IF releaseTask[r] = c THEN 0 ELSE releaseTask[r]]
    /\ UNCHANGED <<mgrClosed, locked, queuedOwner, closes, shutdown>>
    /\ UNCHANGED registryVars /\ UNCHANGED permitVars
-----------------------------------------------------------------------------
(* close_session_ref and delete_session_ref *)

CloseCalls(k, ref, mode) ==
    LET refused == mode = "delete" /\ mgrClosed IN
    /\ \A d \in CloseIds : closes[d].pc = "new" <=> d >= k
    /\ closes' = [closes EXCEPT ![k].ref = ref, ![k].mode = mode,
                                ![k].pc = IF refused THEN "done" ELSE "claim"]
    /\ IF refused THEN UNCHANGED <<submitLock, lockCount>> ELSE EnsureSubmitLock(ref)
    /\ UNCHANGED <<mgrClosed, sessions, runtimes, locked, lifecycle, closing,
                   queuedOwner, releaseTask, submits, shutdown>>
    /\ UNCHANGED permitVars

\* The runtime leaves the registry, and so does its submit lock.
Detach(ref) ==
    /\ sessions' = [sessions EXCEPT ![ref] = 0]
    /\ submitLock' = [submitLock EXCEPT ![ref] = 0]

\* Faulty: the runtime is dropped and not closed.
MarkClosed_Skipped(session) == UNCHANGED runtimes

\* session.close claims the runtime: it starts no more turns.
MarkClosed(session) == runtimes' = [runtimes EXCEPT ![session].closed = TRUE]

\* Cancel the acquire tasks of these owners, where they still wait.
Revoke(owners) ==
    /\ submits' = [c \in SubmitIds |->
          IF c \in owners /\ submits[c].pc = "queued"
          THEN [submits[c] EXCEPT !.pc = "revoked"] ELSE submits[c]]
    /\ waiting' = SelectSeq(waiting, LAMBDA c : c \notin owners)

\* What the lifecycle lock protects when no close is in flight: a strict close
\* or a delete of a free runtime, or of none.  A delete goes on to its purge and
\* keeps the lock.
ClosesStrictly(k) ==
    LET ref == closes[k].ref
        session == sessions[ref]
        delete == closes[k].mode = "delete"
    IN
    /\ closes[k].mode # "cancel" \/ session = 0
    /\ \/ /\ session # 0 /\ runtimes[session].state # "free"
          /\ closes' = [closes EXCEPT ![k].pc = "done"]
          /\ UNCHANGED <<sessions, submitLock, runtimes, lifecycle>>
       \/ /\ session # 0 => runtimes[session].state = "free"
          /\ closes' = [closes EXCEPT ![k].pc = IF delete THEN "purge" ELSE "done"]
          /\ lifecycle' = IF delete THEN [lifecycle EXCEPT ![ref] = k] ELSE lifecycle
          /\ IF session = 0
             THEN UNCHANGED <<sessions, submitLock, runtimes>>
             ELSE Detach(ref) /\ MarkClosed(session)
    /\ UNCHANGED <<closing, submits, waiting>>

\* cancel_active=True: publish the close and revoke the queued submit; the rest
\* runs in _finish_close.
ClosesActive(k) ==
    LET ref == closes[k].ref
        owner == queuedOwner[ref]
    IN
    /\ closes[k].mode = "cancel" /\ sessions[ref] # 0
    /\ closing' = [closing EXCEPT ![ref] = k]
    /\ closes' = [closes EXCEPT ![k].pc = "owner", ![k].session = sessions[ref],
                                ![k].join = owner]
    /\ Revoke({owner})
    /\ UNCHANGED <<sessions, submitLock, runtimes, lifecycle>>

CloseClaims(k) ==
    LET ref == closes[k].ref
        refused == closes[k].mode = "delete" /\ mgrClosed
    IN
    /\ closes[k].pc = "claim"
    /\ LifecycleFree(ref)
    /\ \/ /\ refused
          /\ closes' = [closes EXCEPT ![k].pc = "done"]
          /\ UNCHANGED <<sessions, submitLock, runtimes, lifecycle, closing, submits, waiting>>
       \/ /\ ~refused /\ closing[ref] # 0
          /\ closes' = [closes EXCEPT ![k].pc = "joinClose", ![k].join = closing[ref]]
          /\ UNCHANGED <<sessions, submitLock, runtimes, lifecycle, closing, submits, waiting>>
       \/ ~refused /\ closing[ref] = 0 /\ ClosesStrictly(k)
       \/ ~refused /\ closing[ref] = 0 /\ ClosesActive(k)
    /\ UNCHANGED <<mgrClosed, lockCount, locked, queuedOwner, releaseTask, permits,
                   shutdown, leaked, abandoned>>

\* The close it joined is over: a close returns its result, a delete retries,
\* both raise what it raised.
CloseJoined(k) ==
    LET joined == closes[closes[k].join].pc IN
    /\ closes[k].pc = "joinClose"
    /\ joined \in {"done", "failed"}
    /\ closes' = [closes EXCEPT ![k].pc =
          IF joined = "done" /\ closes[k].mode = "delete" THEN "claim" ELSE joined]
    /\ UNCHANGED <<mgrClosed, locked, queuedOwner, releaseTask, submits, shutdown>>
    /\ UNCHANGED registryVars /\ UNCHANGED permitVars

\* The task of a close or a delete is cancelled (a disconnect cancels the requests
\* in flight) while it waits for the lifecycle lock, for the close it joined or
\* for the purge.  A delete cancelled in its purge gives the lifecycle lock back
\* while the worker thread goes on; _finish_close is a task of its own.
CloseCancelled(k) ==
    /\ \/ /\ closes[k].pc \in {"claim", "joinClose"}
          /\ closes' = [closes EXCEPT ![k].pc = "failed"]
          /\ UNCHANGED lifecycle
       \/ /\ closes[k].pc = "purge"
          /\ closes' = [closes EXCEPT ![k].pc = "left"]
          /\ lifecycle' = [lifecycle EXCEPT ![closes[k].ref] = 0]
    /\ UNCHANGED <<mgrClosed, sessions, runtimes, submitLock, lockCount, locked, closing,
                   queuedOwner, releaseTask, submits, shutdown>>
    /\ UNCHANGED permitVars

\* owner.cleanup is set.
CleanedUp(c) == submits[c].pc \notin {"queued", "granted", "revoked"}

OwnerGone(k) == \A c \in {closes[k].join} \ {0} : CleanedUp(c)

\* _finish_close: the session is closed once its queued submit is gone ...
FinishCloseSession(k) ==
    /\ closes[k].pc = "owner"
    /\ OwnerGone(k)
    /\ closes' = [closes EXCEPT ![k].pc = "turn"]
    /\ MarkClosed(closes[k].session)
    /\ UNCHANGED <<mgrClosed, sessions, submitLock, lockCount, locked, lifecycle, closing,
                   queuedOwner, releaseTask, submits, shutdown>>
    /\ UNCHANGED permitVars

\* Faulty: forgets the release task.
PriorRelease_None(ref) == 0

PriorRelease(ref) == releaseTask[ref]

\* ... and returns once its turn is settled ...
FinishCloseTurn(k) ==
    /\ closes[k].pc = "turn"
    /\ runtimes[closes[k].session].state # "busy"
    /\ closes' = [closes EXCEPT ![k].pc = "release",
                                ![k].join = PriorRelease(closes[k].ref)]
    /\ UNCHANGED <<mgrClosed, locked, queuedOwner, releaseTask, submits, shutdown>>
    /\ UNCHANGED registryVars /\ UNCHANGED permitVars

\* ... then the permit and the submit lock are back, and the generation goes.
FinishClose(k) ==
    LET ref == closes[k].ref IN
    /\ closes[k].pc = "release"
    /\ \A c \in {closes[k].join} \ {0} :
          submits[c].pc \in {"freed", "done"} /\ c \notin abandoned
    /\ closes' = [closes EXCEPT ![k].pc = "done"]
    /\ closing' = [closing EXCEPT ![ref] = 0]
    /\ IF sessions[ref] = closes[k].session
       THEN Detach(ref)
       ELSE UNCHANGED <<sessions, submitLock>>
    /\ UNCHANGED <<mgrClosed, runtimes, lockCount, locked, lifecycle, queuedOwner,
                   releaseTask, submits, shutdown>>
    /\ UNCHANGED permitVars

\* session.close or the release task raised: the close is over, and the closed
\* runtime stays in the registry with its submit lock.
FinishCloseFails(k) ==
    /\ \/ closes[k].pc = "raise"
       \/ /\ closes[k].pc = "release" /\ closes[k].join \in abandoned
          /\ submits[closes[k].join].pc \in {"freed", "done"}
    /\ closes' = [closes EXCEPT ![k].pc = "failed"]
    /\ closing' = [closing EXCEPT ![closes[k].ref] = 0]
    /\ UNCHANGED <<mgrClosed, sessions, runtimes, submitLock, lockCount, locked, lifecycle,
                   queuedOwner, releaseTask, submits, shutdown>>
    /\ UNCHANGED permitVars

\* purge_history and delete_metadata are done: the lifecycle lock is released.
Purged(k) ==
    /\ closes[k].pc = "purge"
    /\ closes' = [closes EXCEPT ![k].pc = "done"]
    /\ lifecycle' = [lifecycle EXCEPT ![closes[k].ref] = 0]
    /\ UNCHANGED <<mgrClosed, sessions, runtimes, submitLock, lockCount, locked, closing,
                   queuedOwner, releaseTask, submits, shutdown>>
    /\ UNCHANGED permitVars

\* The worker thread of a cancelled delete finishes purge_history; nobody is left
\* to call delete_metadata.
PurgeEnds(k) ==
    /\ closes[k].pc = "left"
    /\ closes' = [closes EXCEPT ![k].pc = "failed"]
    /\ UNCHANGED <<mgrClosed, locked, queuedOwner, releaseTask, submits, shutdown>>
    /\ UNCHANGED registryVars /\ UNCHANGED permitVars
-----------------------------------------------------------------------------
(* shutdown *)

Registered == {sessions[r] : r \in Refs} \ {0}

ShutdownClaims ==
    LET owners == {queuedOwner[r] : r \in Refs} \ {0} IN
    /\ ~mgrClosed
    /\ mgrClosed' = TRUE
    /\ shutdown' = [pc |-> "owners", owners |-> owners, sessions |-> Registered]
    /\ Revoke(owners)
    /\ UNCHANGED <<locked, queuedOwner, releaseTask, permits, closes, leaked, abandoned>>
    /\ UNCHANGED registryVars

ShutdownSessions ==
    /\ shutdown.pc = "owners"
    /\ \A c \in shutdown.owners : CleanedUp(c)
    /\ shutdown' = [shutdown EXCEPT !.pc = "turns"]
    /\ runtimes' = [s \in DOMAIN runtimes |->
          IF s \in shutdown.sessions THEN [runtimes[s] EXCEPT !.closed = TRUE]
                                     ELSE runtimes[s]]
    /\ UNCHANGED <<mgrClosed, sessions, submitLock, lockCount, locked, lifecycle, closing,
                   queuedOwner, releaseTask, submits, closes>>
    /\ UNCHANGED permitVars

\* The sessions are closed and every release task has run.
ShutdownFinishes ==
    /\ shutdown.pc = "turns"
    /\ \A s \in shutdown.sessions : runtimes[s].state # "busy"
    /\ \A c \in SubmitIds : submits[c].pc \notin {"running", "settled"}
    /\ shutdown' = [shutdown EXCEPT !.pc = "done"]
    /\ sessions' = [r \in Refs |-> 0]
    /\ submitLock' = [r \in Refs |-> 0]
    /\ queuedOwner' = [r \in Refs |-> 0]
    /\ UNCHANGED <<mgrClosed, runtimes, lockCount, locked, lifecycle, closing,
                   releaseTask, submits, closes>>
    /\ UNCHANGED permitVars
-----------------------------------------------------------------------------
SubmitRuns(c) ==
    \/ Opens(c) \/ JoinedClose(c) \/ Enqueues(c) \/ JoinedRelease(c)
    \/ Grants(c) \/ Starts(c) \/ Revoked(c)
    \/ TurnSettles(c) \/ ReleaseWhenDone(c) \/ ForgetRelease(c)
CloseRuns(k) ==
    \/ CloseClaims(k) \/ CloseJoined(k) \/ Purged(k) \/ PurgeEnds(k)
    \/ FinishCloseSession(k) \/ FinishCloseTurn(k) \/ FinishClose(k)
    \/ FinishCloseFails(k)
ShutdownRuns == ShutdownSessions \/ ShutdownFinishes

Next ==
    \/ \E c \in SubmitIds :
        \/ \E ref \in Refs : SubmitCalls(c, ref)
        \/ SubmitRuns(c)
        \/ CallerCancels(c) \/ TurnAbandoned(c)
    \/ \E k \in CloseIds :
        \/ \E ref \in Refs, mode \in CloseModes : CloseCalls(k, ref, mode)
        \/ CloseRuns(k) \/ CloseCancelled(k)
    \/ ShutdownClaims \/ ShutdownRuns

Spec == Init /\ [][Next]_vars

\* The loop runs what is ready, and turns end (SessionRuntime: TurnsSettle).
FairSpec ==
    /\ Spec
    /\ \A c \in SubmitIds : WF_vars(SubmitRuns(c))
    /\ \A k \in CloseIds : WF_vars(CloseRuns(k))
    /\ WF_vars(ShutdownRuns)
-----------------------------------------------------------------------------
(* Properties *)

SubmitPcs == {"new", "open", "joinClose", "submit", "joinRelease", "queued", "granted",
              "revoked", "running", "settled", "freed", "done", "failed", "keyerror"}
ClosePcs == {"new", "claim", "joinClose", "owner", "turn", "release", "purge",
             "left", "raise", "failed", "done"}

\* The type of every field of the manager.
TypeOK ==
    /\ mgrClosed \in BOOLEAN
    /\ runtimes \in Seq([ref : Refs, state : {"free", "reserved", "busy"}, closed : BOOLEAN])
    /\ sessions \in [Refs -> 0 .. Len(runtimes)]
    /\ lockCount \in Nat /\ submitLock \in [Refs -> 0 .. lockCount]
    /\ locked \subseteq 1 .. lockCount
    /\ lifecycle \in [Refs -> 0 .. MaxCloses] /\ closing \in [Refs -> 0 .. MaxCloses]
    /\ queuedOwner \in [Refs -> 0 .. MaxSubmits] /\ releaseTask \in [Refs -> 0 .. MaxSubmits]
    /\ permits \in 0 .. Permits /\ leaked \in Nat
    /\ abandoned \subseteq SubmitIds /\ Cardinality(abandoned) <= MaxAbandons
    /\ waiting \in Seq(SubmitIds)
    /\ submits \in [SubmitIds -> [pc : SubmitPcs, ref : Refs \cup {NoRef}, session : 0 .. Len(runtimes),
                                  lock : 0 .. lockCount, join : 0 .. MaxSubmits + MaxCloses]]
    /\ closes \in [CloseIds -> [pc : ClosePcs, ref : Refs \cup {NoRef}, mode : CloseModes,
                                session : 0 .. Len(runtimes), join : 0 .. MaxSubmits + MaxCloses]]
    /\ shutdown \in [pc : {"no", "owners", "turns", "done"}, owners : SUBSET SubmitIds,
                     sessions : SUBSET (1 .. Len(runtimes))]

PermitHolders == {c \in SubmitIds : submits[c].pc \in {"granted", "running", "settled"}}
LockHolders == {c \in SubmitIds :
    submits[c].pc \in {"queued", "granted", "revoked", "running", "settled"}}

\* Every permit is in the semaphore or with one submit, whichever of close,
\* shutdown, failed start and settlement ends that submit: no path gives one back
\* twice.  A permit is lost only to a caller cancelled at the moment of the grant.
PermitsAccounted == permits + Cardinality(PermitHolders) + leaked = Permits

\* A held submit lock has exactly one holder, and the holders are the submits
\* that reserve or run a turn: the lock is released once on every path.
LocksAccounted ==
    /\ locked = {submits[c].lock : c \in LockHolders}
    /\ \A c, d \in LockHolders : submits[c].lock = submits[d].lock => c = d

\* Both: what a submit holds, it holds alone and gives back once.
HoldingsAccounted == PermitsAccounted /\ LocksAccounted

\* At most one runtime of a thread accepts work, across close, delete and open.
OneRuntimePerThread ==
    \A s, u \in DOMAIN runtimes :
        (runtimes[s].ref = runtimes[u].ref /\ ~runtimes[s].closed /\ ~runtimes[u].closed)
            => s = u

\* ADR-S-010: a close with cancel_active=True (and shutdown) returns only when the
\* closed generation has neither a queued nor a running turn, and its permit and
\* submit lock are back.
CloseLeavesNothing ==
    /\ \A k \in CloseIds : closes[k].pc = "done" /\ closes[k].session # 0 =>
          \A c \in LockHolders : submits[c].session # closes[k].session
    /\ shutdown.pc = "done" => LockHolders = {}

\* No runtime of the thread a call works on is open, and no turn of it runs or waits.
Vacant(k) ==
    /\ sessions[closes[k].ref] = 0
    /\ \A c \in SubmitIds :
          submits[c].pc \in {"queued", "granted", "running"} => submits[c].ref # closes[k].ref

\* While a delete waits for the purge of a thread, no turn of it runs or waits and
\* none can be opened.  A delete whose caller was cancelled no longer waits: for
\* its purge see PurgeIsExclusive.
DeleteIsExclusive == \A k \in CloseIds : closes[k].pc = "purge" => Vacant(k)

\* What delete_session_ref claims of an open or a submit that races it: as long as
\* purge_history runs, nothing recreates what it deletes.  Not so for a delete whose
\* caller was cancelled; no configuration lists it, and TLC refutes it with the
\* bounds of manager_safety.cfg.
PurgeIsExclusive == \A k \in CloseIds : closes[k].pc \in {"purge", "left"} => Vacant(k)

Ended(c) == submits[c].pc \in {"new", "done", "failed", "keyerror"}

\* Every submit returns and its turn is released in the end: no cycle of waits
\* between lifecycle lock, close, permit and release task blocks it.  Only a lost
\* permit can.
SubmitsEnd == \A c \in SubmitIds : submits[c].pc = "open" ~> (Ended(c) \/ leaked > 0)

\* Every close, delete and shutdown returns or raises, even behind a full
\* semaphore and when the turn it waits for is abandoned.
ClosesEnd ==
    /\ \A k \in CloseIds : closes[k].pc = "claim" ~> closes[k].pc \in {"done", "failed"}
    /\ shutdown.pc = "owners" ~> shutdown.pc = "done"
=============================================================================
