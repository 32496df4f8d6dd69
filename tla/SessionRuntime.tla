--------------------------- MODULE SessionRuntime ---------------------------
(***************************************************************************)
(* SessionRuntime (runtime/sessions/runtime.py): the life of one session's *)
(* turns, from reservation to settlement, with the commands that race it:  *)
(* cancel, steer, approval resume, rebind and close.  The turn's execution *)
(* (runtime/agent_loop/turn.py) runs in a thread of its own.               *)
(*                                                                         *)
(* submit, settlement and close run on the owner loop: between two awaits  *)
(* they are one action.  cancel_turn, steer_turn and the turn's thread     *)
(* interleave with them at every session-lock section, and what they       *)
(* cannot observe or change in between is not split.  Handle and context   *)
(* are set and cleared together, so active stands for both.  Usage totals, *)
(* last_error and timestamps are left out: no decision reads them.         *)
(***************************************************************************)
EXTENDS Integers, FiniteSets

CONSTANTS
    Agents,      \* agent/settings bindings; each has its own steer queue
    Followups,   \* whether a goal_followup is configured
    MaxTurns,    \* bound: turns started
    MaxClaims,   \* bound: approval claims taken
    MaxAbandon   \* bound: waiters on a turn that are cancelled

ASSUME SessionAssumption ==
    /\ Agents # {} /\ Followups \in BOOLEAN
    /\ MaxTurns \in Nat /\ MaxClaims \in Nat /\ MaxAbandon \in Nat

VARIABLES
    status,      \* _status
    active,      \* _active_handle and _active_context: a turn, 0 for None
    latest,      \* _latest_handle
    generation,  \* _turn_generation
    binding,     \* _binding
    reservation, \* _reservation
    claims,      \* claims handed to resume callers by take_approval_claim
    consumed,    \* _consumed_approval_claim
    settling,    \* _settling_handles
    closed,      \* _closed
    closePc,     \* where the close that holds _close_claim stands
    closeTurn,   \* the handle it captured
    turns,       \* number of turns started; turn ids are 1 .. turns
    phase,       \* the thread executing each turn
    result,      \* the status its TurnResult carries, or "raised"
    token,       \* turns whose CancelToken is set
    orphaned,    \* turns whose future was cancelled while their thread runs
    agentOf,     \* the binding each turn captured
    settlePc,    \* the settlement task of each turn
    queue,       \* SteerQueue of each agent, as the turns its items are for
    resumeOf,    \* history: the paused turn a turn resumes, 0 for none
    dropped      \* history: turns given up by a cancel while paused, or by a close

turnVars == <<turns, phase, result, orphaned, agentOf, resumeOf>>
approvalVars == <<generation, reservation, claims, consumed, dropped>>
closeVars == <<closed, closePc, closeTurn>>
vars == <<status, active, latest, generation, binding, reservation, claims,
          consumed, settling, closed, closePc, closeTurn, turns, phase, result,
          token, orphaned, agentOf, settlePc, queue, resumeOf, dropped>>

Turns == 1 .. MaxTurns
NoTurn == 0
NoClaim == [id |-> 0, turn |-> NoTurn, gen |-> 0]

\* TurnReservation: for a plain turn, or for the resume a claim authorizes, with
\* the execution_binding it carries.
NoReservation == [kind |-> "none", claim |-> NoClaim, captured |-> {}]
PlainReservation == [kind |-> "plain", claim |-> NoClaim, captured |-> {}]
ResumeReservation(claim, agent) ==
    [kind |-> "resume", claim |-> claim, captured |-> {agent}]

\* handle.done(): the thread has returned or raised, or the future was cancelled.
Done(t) == phase[t] = "done" \/ t \in orphaned

\* The turn's future ended with a cancellation or an exception, not a result.
Resultless(t) == t \in orphaned \/ result[t] = "raised"
HasLiveTurn == active # NoTurn /\ ~Done(active)

Init ==
    /\ status = "idle" /\ active = NoTurn /\ latest = NoTurn /\ generation = 0
    /\ binding \in Agents
    /\ reservation = NoReservation /\ claims = {} /\ consumed = NoClaim
    /\ settling = {} /\ closed = FALSE /\ closePc = "no" /\ closeTurn = NoTurn
    /\ turns = 0
    /\ phase = [t \in Turns |-> "none"] /\ result = [t \in Turns |-> "none"]
    /\ token = {} /\ orphaned = {}
    /\ agentOf = [t \in Turns |-> binding]
    /\ settlePc = [t \in Turns |-> "none"]
    /\ queue = [a \in Agents |-> {}]
    /\ resumeOf = [t \in Turns |-> NoTurn] /\ dropped = {}
-----------------------------------------------------------------------------
(* Submitting: reserve_turn_or_raise and mark_queued, then mark_starting and *)
(* start once the manager holds a permit                                     *)

Free == ~closed /\ reservation = NoReservation /\ settling = {} /\ ~HasLiveTurn

Enqueue ==
    /\ Free
    /\ status # "waiting_approval"
    /\ reservation' = PlainReservation
    /\ status' = "queued"
    /\ UNCHANGED <<active, latest, generation, binding, claims, consumed, dropped,
                   settling, token, settlePc, queue>>
    /\ UNCHANGED closeVars /\ UNCHANGED turnVars

\* build_approval_resume and take_approval_claim.  The second lock section of
\* the build repeats the checks of the first, and a cancel that lands before
\* the take clears the claim, so the pair has the effect of one step.
ClaimResume(t) ==
    /\ status = "waiting_approval" /\ active = t
    /\ Cardinality(claims) < MaxClaims
    /\ consumed' = [id |-> Cardinality(claims) + 1, turn |-> t, gen |-> generation]
    /\ claims' = claims \cup {consumed'}
    /\ UNCHANGED <<status, active, latest, generation, binding, reservation, dropped,
                   settling, token, settlePc, queue>>
    /\ UNCHANGED closeVars /\ UNCHANGED turnVars

\* _active_context_binding_locked: what the waiting turn captured.
ResumeAgent == agentOf[active]

EnqueueResume(claim) ==
    /\ Free
    /\ status = "waiting_approval" /\ active # NoTurn /\ Done(active)
    /\ claim = consumed /\ claim.gen = generation
    /\ reservation' = ResumeReservation(claim, ResumeAgent)
    /\ status' = "queued"
    /\ UNCHANGED <<active, latest, generation, binding, claims, consumed, dropped,
                   settling, token, settlePc, queue>>
    /\ UNCHANGED closeVars /\ UNCHANGED turnVars

\* The common part of every start: the turn's thread is submitted, the handle
\* becomes the session's, and its settlement is scheduled.
Begin(agent, resumes) ==
    /\ turns < MaxTurns
    /\ turns' = turns + 1
    /\ active' = turns' /\ latest' = turns'
    /\ generation' = generation + 1
    /\ status' = "running"
    /\ phase' = [phase EXCEPT ![turns'] = "running"]
    /\ agentOf' = [agentOf EXCEPT ![turns'] = agent]
    /\ resumeOf' = [resumeOf EXCEPT ![turns'] = resumes]
    /\ settling' = settling \cup {turns'}

StartPlain ==
    /\ status = "queued" /\ reservation.kind = "plain"
    /\ ~closed /\ ~HasLiveTurn /\ settling = {}
    /\ Begin(binding, NoTurn)
    /\ settlePc' = [settlePc EXCEPT ![turns'] = "wait"]
    /\ reservation' = NoReservation /\ consumed' = NoClaim
    /\ UNCHANGED <<binding, claims, dropped, token, queue, result, orphaned>>
    /\ UNCHANGED closeVars

StartResume ==
    /\ status = "queued" /\ reservation.kind = "resume"
    /\ ~closed /\ ~HasLiveTurn /\ settling = {}
    /\ reservation.claim.gen = generation
    /\ reservation.claim.id = consumed.id
    /\ \E agent \in reservation.captured : Begin(agent, reservation.claim.turn)
    /\ settlePc' = [settlePc EXCEPT ![turns'] = "wait"]
    /\ reservation' = NoReservation /\ consumed' = NoClaim
    /\ UNCHANGED <<binding, claims, dropped, token, queue, result, orphaned>>
    /\ UNCHANGED closeVars

\* A queued turn that does not start: the caller is cancelled, the start fails
\* or a close revoked the reservation.  release_turn (or start's own cleanup)
\* and clear_queued leave the session idle.
Withdraw ==
    /\ status = "queued"
    /\ status' = "idle"
    /\ reservation' = NoReservation
    /\ UNCHANGED <<active, latest, generation, binding, claims, consumed, dropped,
                   settling, token, settlePc, queue>>
    /\ UNCHANGED closeVars /\ UNCHANGED turnVars
-----------------------------------------------------------------------------
(* The turn's thread *)

\* The steer middleware drains the agent's queue before a model call.
TurnDrains(t) ==
    /\ phase[t] = "running"
    /\ queue[agentOf[t]] # {}
    /\ queue' = [queue EXCEPT ![agentOf[t]] = {}]
    /\ UNCHANGED <<status, active, latest, binding, settling, token, settlePc>>
    /\ UNCHANGED approvalVars /\ UNCHANGED closeVars /\ UNCHANGED turnVars

\* _run_sync_once fixes the outcome, then reads the workspace for the turn's
\* changes before the result is handed over.
TurnDecides(t, outcome) ==
    /\ phase[t] = "running"
    /\ outcome = "cancelled" => t \in token
    /\ outcome \in {"completed", "waiting"} => t \notin token
    /\ phase' = [phase EXCEPT ![t] = "decided"]
    /\ result' = [result EXCEPT ![t] = outcome]
    /\ UNCHANGED <<status, active, latest, binding, settling, token, settlePc, queue>>
    /\ UNCHANGED <<turns, orphaned, agentOf, resumeOf>>
    /\ UNCHANGED approvalVars /\ UNCHANGED closeVars

TurnReturns(t) ==
    /\ phase[t] = "decided"
    /\ phase' = [phase EXCEPT ![t] = "done"]
    /\ UNCHANGED <<status, active, latest, binding, settling, token, settlePc, queue>>
    /\ UNCHANGED <<turns, result, orphaned, agentOf, resumeOf>>
    /\ UNCHANGED approvalVars /\ UNCHANGED closeVars

\* turn_changes(), outside the try of the run, raises: the future ends with the
\* exception although the outcome was fixed.
TurnRaises(t) ==
    /\ phase[t] = "decided"
    /\ phase' = [phase EXCEPT ![t] = "done"]
    /\ result' = [result EXCEPT ![t] = "raised"]
    /\ UNCHANGED <<status, active, latest, binding, settling, token, settlePc, queue>>
    /\ UNCHANGED <<turns, orphaned, agentOf, resumeOf>>
    /\ UNCHANGED approvalVars /\ UNCHANGED closeVars

\* A task that awaits wait_for_settlement is cancelled: wrap_future passes the
\* cancellation on to the turn's future, and the thread goes on unobserved.
AbandonWait(t) ==
    /\ Cardinality(orphaned) < MaxAbandon
    /\ phase[t] \in {"running", "decided"}
    /\ t \notin orphaned
    /\ orphaned' = orphaned \cup {t}
    /\ UNCHANGED <<status, active, latest, binding, settling, token, settlePc, queue>>
    /\ UNCHANGED <<turns, phase, result, agentOf, resumeOf>>
    /\ UNCHANGED approvalVars /\ UNCHANGED closeVars
-----------------------------------------------------------------------------
(* Commands on a live turn *)

\* Faulty: a paused turn loses the authorizations taken so far, not its pause.
CancelTurn_KeepsPause(t) ==
    LET paused == status = "waiting_approval" IN
    /\ ~closed
    /\ active = t /\ (Done(t) => paused)
    /\ t \notin token
    /\ token' = token \cup {t}
    /\ IF paused
       THEN /\ consumed' = NoClaim
            /\ generation' = generation + 1
            /\ dropped' = dropped \cup {t}
            /\ UNCHANGED status
       ELSE /\ status' = "cancelling"
            /\ UNCHANGED <<consumed, generation, dropped>>
    /\ UNCHANGED <<active, latest, binding, reservation, claims, settling, settlePc,
                   queue>>
    /\ UNCHANGED closeVars /\ UNCHANGED turnVars

\* cancel_turn: a live turn is cancelled through its token, a paused one is
\* dropped at once together with every authorization to resume it.  A token
\* that is set already makes the call a no-op.
CancelTurn(t) ==
    LET paused == status = "waiting_approval" IN
    /\ ~closed
    /\ active = t /\ (Done(t) => paused)
    /\ t \notin token
    /\ token' = token \cup {t}
    /\ IF paused
       THEN /\ status' = "cancelled"
            /\ active' = NoTurn
            /\ consumed' = NoClaim
            /\ generation' = generation + 1
            /\ dropped' = dropped \cup {t}
       ELSE /\ status' = "cancelling"
            /\ UNCHANGED <<active, consumed, generation, dropped>>
    /\ UNCHANGED <<latest, binding, reservation, claims, settling, settlePc, queue>>
    /\ UNCHANGED closeVars /\ UNCHANGED turnVars

\* steer_turn, with push_silent inside the session lock.
SteerTurn(t) ==
    /\ ~closed
    /\ active = t /\ ~Done(t)
    /\ status # "cancelling"
    /\ queue' = [queue EXCEPT ![agentOf[t]] = @ \cup {t}]
    /\ UNCHANGED <<status, active, latest, binding, settling, token, settlePc>>
    /\ UNCHANGED approvalVars /\ UNCHANGED closeVars /\ UNCHANGED turnVars

Rebind(agent) ==
    /\ ~closed
    /\ agent # binding
    /\ binding' = agent
    /\ UNCHANGED <<status, active, latest, settling, token, settlePc, queue>>
    /\ UNCHANGED approvalVars /\ UNCHANGED closeVars /\ UNCHANGED turnVars
-----------------------------------------------------------------------------
(* _settle: the settlement task of a turn *)

\* Faulty: does not wait for the turn's future.
SettleWakes_Early(t) ==
    /\ settlePc[t] = "wait"
    /\ settlePc' = [settlePc EXCEPT ![t] = "persist"]
    /\ UNCHANGED <<status, active, latest, binding, settling, token, queue>>
    /\ UNCHANGED approvalVars /\ UNCHANGED closeVars /\ UNCHANGED turnVars

\* The turn's future is done: persist_result runs, or the task ends with the
\* cancellation or the exception of the future, and the handle is not given up.
SettleWakes(t) ==
    /\ settlePc[t] = "wait"
    /\ Done(t)
    /\ settlePc' = [settlePc EXCEPT ![t] = IF Resultless(t) THEN "ended" ELSE "persist"]
    /\ UNCHANGED <<status, active, latest, binding, settling, token, queue>>
    /\ UNCHANGED approvalVars /\ UNCHANGED closeVars /\ UNCHANGED turnVars

\* The agent whose queue a settlement or a close clears.
ContextAgent == IF active = NoTurn THEN binding ELSE agentOf[active]

\* Faulty: the guidance the turn did not consume stays queued.
SettleClears_KeepsGuidance(t) ==
    /\ settlePc[t] = "persist"
    /\ active' = IF active = t /\ result[t] # "waiting" THEN NoTurn ELSE active
    /\ settlePc' = [settlePc EXCEPT ![t] = "goal"]
    /\ UNCHANGED <<status, latest, binding, settling, token, queue>>
    /\ UNCHANGED approvalVars /\ UNCHANGED closeVars /\ UNCHANGED turnVars

\* Persistence is over, well or badly: the handle is given up unless the turn
\* waits for an approval, and the unconsumed guidance is cleared.
SettleClears(t) ==
    /\ settlePc[t] = "persist"
    /\ active' = IF active = t /\ result[t] # "waiting" THEN NoTurn ELSE active
    /\ queue' = [queue EXCEPT ![ContextAgent] = {}]
    /\ settlePc' = [settlePc EXCEPT ![t] = "goal"]
    /\ UNCHANGED <<status, latest, binding, settling, token>>
    /\ UNCHANGED approvalVars /\ UNCHANGED closeVars /\ UNCHANGED turnVars

\* _settle_goal starts a goal follow-up on behalf of the settling turn.
GoalFollowup(t) ==
    /\ Followups
    /\ settlePc[t] = "goal" /\ t \in settling
    /\ result[t] # "cancelled"
    /\ ~closed /\ ~HasLiveTurn
    /\ status # "waiting_approval"
    /\ reservation = NoReservation
    /\ Begin(binding, NoTurn)
    /\ settlePc' = [settlePc EXCEPT ![t] = "publish", ![turns'] = "wait"]
    /\ UNCHANGED <<binding, reservation, claims, consumed, dropped, token, queue,
                   result, orphaned>>
    /\ UNCHANGED closeVars

SettledStatus(t) ==
    CASE result[t] = "completed" -> "idle"
      [] result[t] = "cancelled" -> "cancelled"
      [] result[t] = "waiting"   -> "waiting_approval"
      [] OTHER                   -> "failed"

\* publish_terminal: the settled turn still owns the session's status.
PublishesTerminal(t) ==
    /\ ~closed
    /\ latest = t
    /\ \/ active = NoTurn
       \/ result[t] = "waiting" /\ active = t
    /\ reservation = NoReservation

\* Faulty: a settlement that may not publish does not end.
SettlePublishes_OnlyOwner(t) ==
    /\ settlePc[t] \in {"goal", "publish"}
    /\ PublishesTerminal(t)
    /\ settlePc' = [settlePc EXCEPT ![t] = "ended"]
    /\ status' = SettledStatus(t) /\ settling' = settling \ {t}
    /\ UNCHANGED <<active, latest, binding, token, queue>>
    /\ UNCHANGED approvalVars /\ UNCHANGED closeVars /\ UNCHANGED turnVars

SettlePublishes(t) ==
    /\ settlePc[t] \in {"goal", "publish"}
    /\ settlePc' = [settlePc EXCEPT ![t] = "ended"]
    /\ IF PublishesTerminal(t)
       THEN status' = SettledStatus(t) /\ settling' = settling \ {t}
       ELSE UNCHANGED <<status, settling>>
    /\ UNCHANGED <<active, latest, binding, token, queue>>
    /\ UNCHANGED approvalVars /\ UNCHANGED closeVars /\ UNCHANGED turnVars

\* The task's done callback; close does the same to the tasks it has gathered.
Settled(t) ==
    /\ settlePc[t] = "ended"
    /\ settlePc' = [settlePc EXCEPT ![t] = "settled"]
    /\ settling' = settling \ {t}
    /\ UNCHANGED <<status, active, latest, binding, token, queue>>
    /\ UNCHANGED approvalVars /\ UNCHANGED closeVars /\ UNCHANGED turnVars
-----------------------------------------------------------------------------
(* _close_on_owner *)

CloseModes == {"cancel", "lenient", "strict"}

\* What a close with cancel_active=False refuses, with and without _strict_busy.
Refuses(mode) ==
    \/ mode = "strict" /\ \/ reservation # NoReservation
                          \/ status \in {"queued", "starting", "cancelling"}
                          \/ settling # {}
    \/ mode # "cancel" /\ HasLiveTurn

CloseClaim(mode) ==
    LET cancels == mode = "cancel" /\ HasLiveTurn /\ active \notin token IN
    /\ ~closed
    /\ ~Refuses(mode)
    /\ closed' = TRUE
    /\ reservation' = NoReservation
    /\ closeTurn' = active
    /\ dropped' = dropped \cup ({active} \ {NoTurn})
    /\ closePc' = IF HasLiveTurn THEN "turn" ELSE "tasks"
    /\ queue' = [queue EXCEPT ![ContextAgent] = {}]
    /\ token' = IF cancels THEN token \cup {active} ELSE token
    /\ status' = IF cancels THEN "cancelling" ELSE status
    /\ UNCHANGED <<active, latest, generation, binding, claims, consumed, settling,
                   settlePc>>
    /\ UNCHANGED turnVars

\* The captured future is done; if it was cancelled, so is the close, and if it
\* raised, so does the close.
CloseTurnEnds ==
    /\ closePc = "turn"
    /\ Done(closeTurn)
    /\ closePc' = IF Resultless(closeTurn) THEN "failed" ELSE "tasks"
    /\ UNCHANGED <<status, active, latest, binding, settling, token, settlePc, queue>>
    /\ UNCHANGED <<closed, closeTurn>>
    /\ UNCHANGED approvalVars /\ UNCHANGED turnVars

\* Faulty: does not join the settlement tasks.
TasksJoined_Skipped == TRUE

\* Faulty: waits for an outcome, which a closed session never publishes.
TasksJoined_ByStatus == status \in {"idle", "cancelled", "failed"}

\* The loop over _settle_tasks.
TasksJoined == \A t \in Turns : settlePc[t] \in {"none", "settled"}

CloseFinishes ==
    /\ closePc = "tasks"
    /\ TasksJoined
    /\ closePc' = "closed"
    /\ status' = "closed"
    /\ active' = NoTurn /\ latest' = NoTurn
    /\ UNCHANGED <<binding, settling, token, settlePc, queue, closed, closeTurn>>
    /\ UNCHANGED approvalVars /\ UNCHANGED turnVars
-----------------------------------------------------------------------------
Outcomes == {"completed", "waiting", "cancelled", "failed"}

TurnRuns(t) ==
    \/ TurnReturns(t) \/ TurnRaises(t)
    \/ \E outcome \in Outcomes : TurnDecides(t, outcome)
Settle(t) == SettleWakes(t) \/ SettleClears(t) \/ SettlePublishes(t) \/ Settled(t)
CloseRuns == CloseTurnEnds \/ CloseFinishes

Next ==
    \/ Enqueue \/ StartPlain \/ StartResume \/ Withdraw
    \/ \E claim \in claims : EnqueueResume(claim)
    \/ \E agent \in Agents : Rebind(agent)
    \/ \E mode \in CloseModes : CloseClaim(mode)
    \/ CloseRuns
    \/ \E t \in Turns :
        \/ ClaimResume(t) \/ CancelTurn(t) \/ SteerTurn(t) \/ AbandonWait(t)
        \/ TurnDrains(t) \/ TurnRuns(t)
        \/ Settle(t) \/ GoalFollowup(t)

Spec == Init /\ [][Next]_vars

\* Threads and loop tasks keep running, and a turn's runner returns: its model
\* calls end or fail, and a cancelled one stops at its next event.
FairSpec ==
    /\ Spec
    /\ \A t \in Turns : WF_vars(TurnRuns(t)) /\ WF_vars(Settle(t))
    /\ WF_vars(CloseRuns)
-----------------------------------------------------------------------------
(* Properties *)

Statuses == {"idle", "queued", "running", "cancelling", "cancelled",
             "waiting_approval", "failed", "closed"}
Claims == [id : 0 .. MaxClaims, turn : 0 .. MaxTurns, gen : Nat]

\* The type of every field of the session.
TypeOK ==
    /\ status \in Statuses /\ closed \in BOOLEAN
    /\ turns \in 0 .. MaxTurns
    /\ active \in 0 .. turns /\ latest \in 0 .. turns /\ closeTurn \in 0 .. turns
    /\ generation \in Nat /\ binding \in Agents
    /\ reservation \in [kind : {"none", "plain", "resume"}, claim : Claims,
                        captured : SUBSET Agents]
    /\ claims \subseteq Claims /\ consumed \in Claims
    /\ settling \subseteq 1 .. turns
    /\ closePc \in {"no", "turn", "tasks", "closed", "failed"}
    /\ phase \in [Turns -> {"none", "running", "decided", "done"}]
    /\ result \in [Turns -> Outcomes \cup {"none", "raised"}]
    /\ token \subseteq Turns /\ orphaned \subseteq Turns
    /\ agentOf \in [Turns -> Agents]
    /\ settlePc \in [Turns -> {"none", "wait", "persist", "goal", "publish",
                               "ended", "settled"}]
    /\ queue \in [Agents -> SUBSET Turns]
    /\ resumeOf \in [Turns -> 0 .. MaxTurns] /\ dropped \subseteq 1 .. turns

Live == {t \in Turns : phase[t] \in {"running", "decided"}}

\* The same session never runs two turns concurrently, whatever mix of plain
\* turns, resumes and goal follow-ups is submitted while one is settling.
OneLiveTurn == orphaned = {} => \A t, u \in Live : t = u

\* Guidance is fenced to the turn it was accepted for: the queue a running turn
\* drains never holds guidance of an earlier one, although both use the same
\* queue and the session may have been rebound in between.  Only a turn whose
\* future raised leaves its guidance behind: its settlement does not clear it.
GuidanceFenced ==
    orphaned = {} =>
        \A t \in Turns : phase[t] = "running" =>
            \A u \in queue[agentOf[t]] : u = t \/ result[u] = "raised"

\* A session nobody works for reports an outcome: no race of cancel, failed
\* start, settlement and follow-up leaves it queued, running or cancelling,
\* unless the future of its newest turn ended without a result.
QuietMeansSettled ==
    (orphaned = {} /\ ~closed /\ reservation = NoReservation /\ settling = {} /\ Live = {})
        => \/ status \in {"idle", "cancelled", "failed", "waiting_approval"}
           \/ latest # NoTurn /\ result[latest] = "raised"

\* The status tells the truth about ownership: a live turn shows as running or
\* cancelling and a reserved one as queued, whoever settles or withdraws late.
OwnedMeansBusy ==
    /\ (orphaned = {} /\ Live # {}) => status \in {"running", "cancelling"}
    /\ reservation # NoReservation => status = "queued"

\* CLOSED is published only when the session is over: no turn of it runs, none
\* is settling, none can still start (ADR-S-010: close waits for the active
\* future and for the settlement).
ClosedIsQuiet ==
    status = "closed" => Live = {} /\ settling = {} /\ reservation = NoReservation

\* The same, as long as nobody cancels a task that waits for the turn.
ClosedIsQuietUnlessAbandoned == orphaned = {} => ClosedIsQuiet

\* CLOSED is final: no settlement, withdrawal or late start replaces it.
ClosedIsFinal == [][status = "closed" => status' = "closed"]_vars

\* An approval is answered at most once, and never after the paused turn was
\* cancelled or its session closed: a turn resumes the newest turn, which paused
\* for an approval and was not given up, and a queued resume is for such a turn
\* (so no two turns resume the same one).
ResumedOnce ==
    /\ \A t \in 1 .. turns : resumeOf[t] # NoTurn =>
          /\ resumeOf[t] = t - 1
          /\ result[resumeOf[t]] = "waiting"
          /\ resumeOf[t] \notin dropped
    /\ reservation.kind = "resume" =>
          /\ reservation.claim.turn = turns /\ result[turns] = "waiting"
          /\ turns \notin dropped

\* A resumed turn runs with the agent its paused predecessor was started with,
\* although the session may have been rebound meanwhile.
ResumeKeepsBinding ==
    \A t \in 1 .. turns : resumeOf[t] # NoTurn => agentOf[t] = agentOf[resumeOf[t]]

\* Every started turn is settled in the end.
TurnsSettle == \A t \in Turns : phase[t] = "running" ~> settlePc[t] = "settled"

\* A claimed close publishes CLOSED in the end, unless the future it waits for
\* ends without a result: then the close fails with it.
CloseCompletes ==
    closed ~> (status = "closed" \/ (closePc = "failed" /\ Resultless(closeTurn)))
=============================================================================
