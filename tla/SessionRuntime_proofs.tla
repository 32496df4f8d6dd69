----------------------- MODULE SessionRuntime_proofs -----------------------
(***************************************************************************)
(* Proofs about SessionRuntime, for any number of turns, claims, agents    *)
(* and abandoned waiters.                                                  *)
(***************************************************************************)
EXTENDS SessionRuntime, FiniteSetTheorems, TLAPS

\* The settlement of a turn before it hands over, and before it ends.
Early == {"wait", "persist"}
Settling == {"wait", "persist", "goal", "publish"}

\* The settlement task of a turn follows its thread: it wakes when the future is
\* done, and the fence settling holds the turn as long as the task works.
TaskInv ==
    \A t \in Turns :
        /\ phase[t] = "none" <=> t > turns
        /\ settlePc[t] = "none" <=> t > turns
        /\ settlePc[t] \in {"persist", "goal", "publish"} => phase[t] = "done"
        /\ settlePc[t] \in {"ended", "settled"} => Done(t)
        /\ settlePc[t] \in Settling => t \in settling
        /\ t \in settling => settlePc[t] \in Settling \cup {"ended"}
        /\ result[t] # "none" => phase[t] \in {"decided", "done"}

\* Only the newest turn can own the session, and it does until its settlement
\* hands over.
OwnerInv ==
    /\ active \in {NoTurn, turns}
    /\ ~closed => latest = turns
    /\ \A t \in Turns :
        /\ settlePc[t] \in Early => t = turns /\ active = t
        /\ settlePc[t] = "goal" => t = turns /\ (active = t => result[t] = "waiting")
        /\ settlePc[t] = "publish" => t < turns

\* The thread of a paused turn has handed over a result that asks for an approval.
Paused(t) == phase[t] = "done" /\ result[t] = "waiting"

\* What each status says about the newest turn and the reservation.
StatusInv ==
    /\ \A t \in Turns : settlePc[t] \in Early => status \in {"running", "cancelling"}
    /\ reservation # NoReservation => status = "queued" /\ settling = {}
    /\ status = "queued" => closed \/ reservation # NoReservation
    /\ status \in {"running", "cancelling"} =>
          \/ closed \/ orphaned # {}
          \/ turns # 0 /\ settlePc[turns] \in Early \cup {"goal"}
          \/ turns # 0 /\ result[turns] = "raised"
    /\ status = "waiting_approval" /\ active # NoTurn => Paused(active)

CloseInv ==
    /\ closed => reservation = NoReservation
    /\ closePc # "no" => closed
    /\ status = "closed" => closed /\ TasksJoined

\* Queued guidance is for the newest turn, in its agent's queue, and only until
\* its settlement has cleared it, or for a turn whose future raised.
GuidanceInv ==
    orphaned = {} => \A a \in Agents : \A t \in queue[a] :
        \/ agentOf[t] = a /\ t = turns /\ settlePc[t] \in Early
        \/ result[t] = "raised"

\* A current authorization is for the newest turn, and neither a turn that still
\* holds the session nor one that was resumed has been given up.
ApprovalInv ==
    /\ IsFiniteSet(claims)
    /\ \A c \in claims : c.id # 0
    /\ consumed.gen <= generation
    /\ consumed.id # 0 /\ consumed.gen = generation => consumed.turn = turns
    /\ reservation.kind = "resume" =>
          /\ turns # 0
          /\ reservation.claim.turn = turns
          /\ Paused(turns)
          /\ reservation.captured = {agentOf[turns]}
          /\ turns \notin dropped
    /\ ~closed => active \notin dropped
    /\ \A t \in 1 .. turns : resumeOf[t] # NoTurn =>
          /\ resumeOf[t] = t - 1
          /\ Paused(t - 1)
          /\ agentOf[t] = agentOf[t - 1]
          /\ t - 1 \notin dropped

Inv == TypeOK /\ TaskInv /\ OwnerInv /\ StatusInv /\ CloseInv /\ GuidanceInv /\ ApprovalInv
-----------------------------------------------------------------------------
(* One lemma for each part of the invariant, one step for each action *)

\* Every step keeps the types of the session's fields.
LEMMA TypeStep ==
    ASSUME TypeOK, IsFiniteSet(claims), [Next]_vars
    PROVE  TypeOK'
<1> USE SessionAssumption DEF TypeOK, Statuses, Claims, Outcomes, Turns,
        NoTurn, NoClaim, NoReservation
<1>1. CASE Enqueue
  <2>1. status' \in Statuses
    BY <1>1 DEF Enqueue
  <2>2. reservation' \in [kind : {"none", "plain", "resume"}, claim : Claims,
                          captured : SUBSET Agents]
    <3>1. NoClaim \in Claims
      BY SessionAssumption
    <3> HIDE DEF Claims, NoClaim
    <3> QED BY <1>1, <3>1 DEF Enqueue, PlainReservation
  <2>3. UNCHANGED <<active, latest, generation, binding, claims, consumed, dropped,
                    settling, token, settlePc, queue, closeVars, turnVars>>
    BY <1>1 DEF Enqueue
  <2> HIDE DEF Claims, Statuses
  <2> QED BY <2>1, <2>2, <2>3 DEF closeVars, turnVars
<1>2. ASSUME NEW claim \in claims, EnqueueResume(claim)
      PROVE  TypeOK'
  <2>1. status' \in Statuses
    BY <1>2 DEF EnqueueResume
  <2>2. ResumeAgent \in Agents
    BY <1>2 DEF EnqueueResume, ResumeAgent
  <2>3. reservation' \in [kind : {"none", "plain", "resume"}, claim : Claims,
                          captured : SUBSET Agents]
    <3> HIDE DEF Claims
    <3> QED BY <1>2, <2>2 DEF EnqueueResume, ResumeReservation
  <2>4. UNCHANGED <<active, latest, generation, binding, claims, consumed, dropped,
                    settling, token, settlePc, queue, closeVars, turnVars>>
    BY <1>2 DEF EnqueueResume
  <2> HIDE DEF Claims, Statuses
  <2> QED BY <2>1, <2>3, <2>4 DEF closeVars, turnVars
<1>3. CASE StartPlain
  <2>1. /\ turns' = turns + 1 /\ turns' \in Turns
        /\ active' = turns' /\ latest' = turns'
        /\ generation' = generation + 1 /\ status' = "running"
        /\ settling' = settling \cup {turns'}
    BY <1>3 DEF StartPlain, Begin
  <2>2. /\ phase' \in [Turns -> {"none", "running", "decided", "done"}]
        /\ agentOf' \in [Turns -> Agents]
        /\ resumeOf' \in [Turns -> 0 .. MaxTurns]
    BY <1>3, <2>1 DEF StartPlain, Begin
  <2>3. settlePc' \in [Turns -> {"none", "wait", "persist", "goal", "publish",
                                 "ended", "settled"}]
    BY <1>3 DEF StartPlain
  <2>4. NoClaim \in Claims
    BY SessionAssumption
  <2>5. /\ consumed' \in Claims
        /\ reservation' \in [kind : {"none", "plain", "resume"}, claim : Claims,
                             captured : SUBSET Agents]
    <3> HIDE DEF Claims, NoClaim
    <3> QED BY <1>3, <2>4 DEF StartPlain
  <2>6. UNCHANGED <<binding, claims, dropped, token, queue, result, orphaned, closeVars>>
    BY <1>3 DEF StartPlain
  <2> HIDE DEF Claims
  <2> QED BY <2>1, <2>2, <2>3, <2>5, <2>6 DEF closeVars
<1>4. CASE StartResume
  <2>1. /\ turns' = turns + 1 /\ turns' \in Turns
        /\ active' = turns' /\ latest' = turns'
        /\ generation' = generation + 1 /\ status' = "running"
        /\ settling' = settling \cup {turns'}
    BY <1>4 DEF StartResume, Begin
  <2>2. /\ phase' \in [Turns -> {"none", "running", "decided", "done"}]
        /\ agentOf' \in [Turns -> Agents]
        /\ resumeOf' \in [Turns -> 0 .. MaxTurns]
    BY <1>4, <2>1 DEF StartResume, Begin
  <2>3. settlePc' \in [Turns -> {"none", "wait", "persist", "goal", "publish",
                                 "ended", "settled"}]
    BY <1>4 DEF StartResume
  <2>4. NoClaim \in Claims
    BY SessionAssumption
  <2>5. /\ consumed' \in Claims
        /\ reservation' \in [kind : {"none", "plain", "resume"}, claim : Claims,
                             captured : SUBSET Agents]
    <3> HIDE DEF Claims, NoClaim
    <3> QED BY <1>4, <2>4 DEF StartResume
  <2>6. UNCHANGED <<binding, claims, dropped, token, queue, result, orphaned, closeVars>>
    BY <1>4 DEF StartResume
  <2> HIDE DEF Claims
  <2> QED BY <2>1, <2>2, <2>3, <2>5, <2>6 DEF closeVars
<1>5. CASE Withdraw
  <2>1. status' \in Statuses
    BY <1>5 DEF Withdraw
  <2>2. reservation' \in [kind : {"none", "plain", "resume"}, claim : Claims,
                          captured : SUBSET Agents]
    <3>1. NoClaim \in Claims
      BY SessionAssumption
    <3> HIDE DEF Claims, NoClaim
    <3> QED BY <1>5, <3>1 DEF Withdraw
  <2>3. UNCHANGED <<active, latest, generation, binding, claims, consumed, dropped,
                    settling, token, settlePc, queue, closeVars, turnVars>>
    BY <1>5 DEF Withdraw
  <2> HIDE DEF Claims, Statuses
  <2> QED BY <2>1, <2>2, <2>3 DEF closeVars, turnVars
<1>6. ASSUME NEW agent \in Agents, Rebind(agent)
      PROVE  TypeOK'
  BY <1>6 DEF Rebind, approvalVars, closeVars, turnVars
<1>7. ASSUME NEW t \in Turns, ClaimResume(t)
      PROVE  TypeOK'
  <2>1. Cardinality(claims) \in Nat
    BY FS_CardinalityType
  <2>2. consumed' \in Claims
    BY <1>7, <2>1 DEF ClaimResume
  <2>3. claims' \subseteq Claims
    BY <1>7, <2>2 DEF ClaimResume
  <2>4. UNCHANGED <<status, active, latest, generation, binding, reservation, dropped,
                    settling, token, settlePc, queue, closeVars, turnVars>>
    BY <1>7 DEF ClaimResume
  <2> HIDE DEF Claims
  <2> QED BY <2>2, <2>3, <2>4 DEF closeVars, turnVars
<1>8. ASSUME NEW t \in Turns, CancelTurn(t)
      PROVE  TypeOK'
  <2>1. /\ status' \in Statuses /\ active' \in 0 .. turns /\ generation' \in Nat
        /\ consumed' \in Claims
    <3>1. NoClaim \in Claims
      BY SessionAssumption
    <3>2. CASE status = "waiting_approval"
      <4> HIDE DEF Claims, NoClaim
      <4> QED BY <1>8, <3>1, <3>2 DEF CancelTurn
    <3>3. CASE status # "waiting_approval"
      <4> HIDE DEF Claims
      <4> QED BY <1>8, <3>3 DEF CancelTurn
    <3> QED BY <3>2, <3>3
  <2>2. token' \subseteq Turns
    BY <1>8 DEF CancelTurn
  <2>3. UNCHANGED <<latest, binding, reservation, claims, settling, settlePc, queue,
                    closeVars, turnVars>>
    BY <1>8 DEF CancelTurn
  <2>4. dropped' \subseteq 1 .. turns
    <3>1. t \in 1 .. turns
      BY <1>8 DEF CancelTurn
    <3>2. dropped' \subseteq dropped \cup {t}
      BY <1>8 DEF CancelTurn
    <3> HIDE DEF Claims
    <3> QED BY <3>1, <3>2
  <2> HIDE DEF Claims, Statuses
  <2> QED BY <2>1, <2>2, <2>3, <2>4 DEF closeVars, turnVars
<1>9. ASSUME NEW t \in Turns, SteerTurn(t)
      PROVE  TypeOK'
  BY <1>9 DEF SteerTurn, approvalVars, closeVars, turnVars
<1>10. ASSUME NEW t \in Turns, AbandonWait(t)
       PROVE  TypeOK'
  BY <1>10 DEF AbandonWait, approvalVars, closeVars
<1>11. ASSUME NEW t \in Turns, TurnDrains(t)
       PROVE  TypeOK'
  BY <1>11 DEF TurnDrains, approvalVars, closeVars, turnVars
<1>12. ASSUME NEW t \in Turns, NEW outcome \in Outcomes, TurnDecides(t, outcome)
       PROVE  TypeOK'
  BY <1>12 DEF TurnDecides, approvalVars, closeVars
<1>13. ASSUME NEW t \in Turns, TurnReturns(t)
       PROVE  TypeOK'
  BY <1>13 DEF TurnReturns, approvalVars, closeVars
<1>14. ASSUME NEW t \in Turns, SettleWakes(t)
       PROVE  TypeOK'
  BY <1>14 DEF SettleWakes, Resultless, approvalVars, closeVars, turnVars
<1>15. ASSUME NEW t \in Turns, SettleClears(t)
       PROVE  TypeOK'
  <2>1. ContextAgent \in Agents
    BY DEF ContextAgent
  <2>2. active' \in 0 .. turns
    BY <1>15 DEF SettleClears
  <2>3. queue' \in [Agents -> SUBSET Turns]
    BY <1>15, <2>1 DEF SettleClears
  <2>4. settlePc' \in [Turns -> {"none", "wait", "persist", "goal", "publish",
                                 "ended", "settled"}]
    BY <1>15 DEF SettleClears
  <2>5. UNCHANGED <<status, latest, binding, settling, token, approvalVars,
                    closeVars, turnVars>>
    BY <1>15 DEF SettleClears
  <2> HIDE DEF Claims, Statuses
  <2> QED BY <2>2, <2>3, <2>4, <2>5 DEF approvalVars, closeVars, turnVars
<1>16. ASSUME NEW t \in Turns, SettlePublishes(t)
       PROVE  TypeOK'
  BY <1>16 DEF SettlePublishes, PublishesTerminal, SettledStatus, approvalVars,
     closeVars, turnVars
<1>17. ASSUME NEW t \in Turns, Settled(t)
       PROVE  TypeOK'
  BY <1>17 DEF Settled, approvalVars, closeVars, turnVars
<1>18. ASSUME NEW t \in Turns, GoalFollowup(t)
       PROVE  TypeOK'
  <2>1. /\ turns' = turns + 1 /\ turns' \in Turns
        /\ active' = turns' /\ latest' = turns'
        /\ generation' = generation + 1 /\ status' = "running"
        /\ settling' = settling \cup {turns'}
    BY <1>18 DEF GoalFollowup, Begin
  <2>2. /\ phase' \in [Turns -> {"none", "running", "decided", "done"}]
        /\ agentOf' \in [Turns -> Agents]
        /\ resumeOf' \in [Turns -> 0 .. MaxTurns]
    BY <1>18, <2>1 DEF GoalFollowup, Begin
  <2>3. settlePc' \in [Turns -> {"none", "wait", "persist", "goal", "publish",
                                 "ended", "settled"}]
    BY <1>18 DEF GoalFollowup
  <2>4. UNCHANGED <<binding, reservation, claims, consumed, dropped, token, queue,
                    result, orphaned, closeVars>>
    BY <1>18 DEF GoalFollowup
  <2> HIDE DEF Claims
  <2> QED BY <2>1, <2>2, <2>3, <2>4 DEF closeVars
<1>19. ASSUME NEW mode \in CloseModes, CloseClaim(mode)
       PROVE  TypeOK'
  <2>1. ContextAgent \in Agents
    BY DEF ContextAgent
  <2>2. queue' \in [Agents -> SUBSET Turns]
    BY <1>19, <2>1 DEF CloseClaim
  <2>3. /\ closed' \in BOOLEAN /\ closeTurn' \in 0 .. turns
        /\ closePc' \in {"no", "turn", "tasks", "closed", "failed"}
        /\ status' \in Statuses
    BY <1>19 DEF CloseClaim
  <2>4. token' \subseteq Turns
    BY <1>19 DEF CloseClaim, HasLiveTurn
  <2>5. reservation' \in [kind : {"none", "plain", "resume"}, claim : Claims,
                          captured : SUBSET Agents]
    <3>1. NoClaim \in Claims
      BY SessionAssumption
    <3> HIDE DEF Claims, NoClaim
    <3> QED BY <1>19, <3>1 DEF CloseClaim
  <2>6. UNCHANGED <<active, latest, generation, binding, claims, consumed, settling,
                    settlePc, turnVars>>
    BY <1>19 DEF CloseClaim
  <2>7. dropped' \subseteq 1 .. turns
    BY <1>19 DEF CloseClaim
  <2> HIDE DEF Claims, Statuses
  <2> QED BY <2>2, <2>3, <2>4, <2>5, <2>6, <2>7 DEF turnVars
<1>20. CASE CloseTurnEnds
  <2>1. closePc' \in {"no", "turn", "tasks", "closed", "failed"}
    BY <1>20 DEF CloseTurnEnds
  <2>2. UNCHANGED <<status, active, latest, binding, settling, token, settlePc, queue,
                    closed, closeTurn, approvalVars, turnVars>>
    BY <1>20 DEF CloseTurnEnds
  <2> HIDE DEF Claims, Statuses
  <2> QED BY <2>1, <2>2 DEF approvalVars, turnVars
<1>21. CASE CloseFinishes
  <2>1. /\ status' \in Statuses /\ closePc' \in {"no", "turn", "tasks", "closed", "failed"}
        /\ active' \in 0 .. turns /\ latest' \in 0 .. turns
    BY <1>21 DEF CloseFinishes
  <2>2. UNCHANGED <<binding, settling, token, settlePc, queue, closed, closeTurn,
                    approvalVars, turnVars>>
    BY <1>21 DEF CloseFinishes
  <2> HIDE DEF Claims, Statuses
  <2> QED BY <2>1, <2>2 DEF approvalVars, turnVars
<1>22. CASE UNCHANGED vars
  BY <1>22 DEF vars
<1>23. ASSUME NEW t \in Turns, TurnRaises(t)
       PROVE  TypeOK'
  BY <1>23 DEF TurnRaises, approvalVars, closeVars
<1> QED
  BY <1>1, <1>2, <1>3, <1>4, <1>5, <1>6, <1>7, <1>8, <1>9, <1>10, <1>11,
     <1>12, <1>13, <1>14, <1>15, <1>16, <1>17, <1>18, <1>19, <1>20, <1>21, <1>22,
     <1>23, ZenonT(40) DEF Next, TurnRuns, Settle, CloseRuns

\* Every step keeps threads, settlement tasks and the settling fence in step.
LEMMA TaskStep ==
    ASSUME TypeOK, TaskInv, [Next]_vars
    PROVE  TaskInv'
<1> USE DEF TypeOK, TaskInv, Early, Settling, Done, Turns, NoTurn
<1>1. CASE Enqueue
  BY <1>1 DEF Enqueue, PlainReservation, Free, HasLiveTurn, closeVars, turnVars
<1>2. ASSUME NEW claim \in claims, EnqueueResume(claim)
      PROVE  TaskInv'
  BY <1>2 DEF EnqueueResume, ResumeReservation, Free, HasLiveTurn, ResumeAgent,
     closeVars, turnVars
<1>3. CASE StartPlain
  BY <1>3 DEF StartPlain, Begin, HasLiveTurn, closeVars
<1>4. CASE StartResume
  BY <1>4 DEF StartResume, Begin, HasLiveTurn, closeVars
<1>5. CASE Withdraw
  BY <1>5 DEF Withdraw, closeVars, turnVars
<1>6. ASSUME NEW agent \in Agents, Rebind(agent)
      PROVE  TaskInv'
  BY <1>6 DEF Rebind, approvalVars, closeVars, turnVars
<1>7. ASSUME NEW t \in Turns, ClaimResume(t)
      PROVE  TaskInv'
  BY <1>7 DEF ClaimResume, closeVars, turnVars
<1>8. ASSUME NEW t \in Turns, CancelTurn(t)
      PROVE  TaskInv'
  BY <1>8 DEF CancelTurn, closeVars, turnVars
<1>9. ASSUME NEW t \in Turns, SteerTurn(t)
      PROVE  TaskInv'
  BY <1>9 DEF SteerTurn, approvalVars, closeVars, turnVars
<1>10. ASSUME NEW t \in Turns, AbandonWait(t)
       PROVE  TaskInv'
  BY <1>10 DEF AbandonWait, approvalVars, closeVars
<1>11. ASSUME NEW t \in Turns, TurnDrains(t)
       PROVE  TaskInv'
  BY <1>11 DEF TurnDrains, approvalVars, closeVars, turnVars
<1>12. ASSUME NEW t \in Turns, NEW outcome \in Outcomes, TurnDecides(t, outcome)
       PROVE  TaskInv'
  BY <1>12 DEF TurnDecides, Outcomes, approvalVars, closeVars
<1>13. ASSUME NEW t \in Turns, TurnReturns(t)
       PROVE  TaskInv'
  BY <1>13 DEF TurnReturns, approvalVars, closeVars
<1>14. ASSUME NEW t \in Turns, SettleWakes(t)
       PROVE  TaskInv'
  BY <1>14 DEF SettleWakes, Resultless, approvalVars, closeVars, turnVars
<1>15. ASSUME NEW t \in Turns, SettleClears(t)
       PROVE  TaskInv'
  BY <1>15 DEF SettleClears, ContextAgent, approvalVars, closeVars, turnVars
<1>16. ASSUME NEW t \in Turns, SettlePublishes(t)
       PROVE  TaskInv'
  BY <1>16 DEF SettlePublishes, PublishesTerminal, SettledStatus, approvalVars,
     closeVars, turnVars
<1>17. ASSUME NEW t \in Turns, Settled(t)
       PROVE  TaskInv'
  BY <1>17 DEF Settled, approvalVars, closeVars, turnVars
<1>18. ASSUME NEW t \in Turns, GoalFollowup(t)
       PROVE  TaskInv'
  BY <1>18 DEF GoalFollowup, Begin, HasLiveTurn, closeVars
<1>19. ASSUME NEW mode \in CloseModes, CloseClaim(mode)
       PROVE  TaskInv'
  BY <1>19 DEF CloseClaim, HasLiveTurn, ContextAgent, turnVars
<1>20. CASE CloseTurnEnds
  BY <1>20 DEF CloseTurnEnds, Resultless, approvalVars, turnVars
<1>21. CASE CloseFinishes
  BY <1>21 DEF CloseFinishes, TasksJoined, approvalVars, turnVars
<1>22. CASE UNCHANGED vars
  BY <1>22 DEF vars
<1>23. ASSUME NEW t \in Turns, TurnRaises(t)
       PROVE  TaskInv'
  BY <1>23 DEF TurnRaises, approvalVars, closeVars
<1> QED
  BY <1>1, <1>2, <1>3, <1>4, <1>5, <1>6, <1>7, <1>8, <1>9, <1>10, <1>11,
     <1>12, <1>13, <1>14, <1>15, <1>16, <1>17, <1>18, <1>19, <1>20, <1>21, <1>22,
     <1>23 DEF Next, TurnRuns, Settle, CloseRuns

\* No step takes the session from its newest turn before that turn hands over.
LEMMA OwnerStep ==
    ASSUME TypeOK, TaskInv, OwnerInv, StatusInv, CloseInv, [Next]_vars
    PROVE  OwnerInv'
<1> USE DEF TypeOK, TaskInv, OwnerInv, StatusInv, CloseInv, TasksJoined,
        Early, Settling, Done, Turns, NoTurn
<1>1. CASE Enqueue
  BY <1>1 DEF Enqueue, PlainReservation, Free, HasLiveTurn, closeVars, turnVars
<1>2. ASSUME NEW claim \in claims, EnqueueResume(claim)
      PROVE  OwnerInv'
  BY <1>2 DEF EnqueueResume, ResumeReservation, Free, HasLiveTurn, ResumeAgent,
     closeVars, turnVars
<1>3. CASE StartPlain
  BY <1>3 DEF StartPlain, Begin, HasLiveTurn, closeVars
<1>4. CASE StartResume
  BY <1>4 DEF StartResume, Begin, HasLiveTurn, closeVars
<1>5. CASE Withdraw
  BY <1>5 DEF Withdraw, closeVars, turnVars
<1>6. ASSUME NEW agent \in Agents, Rebind(agent)
      PROVE  OwnerInv'
  BY <1>6 DEF Rebind, approvalVars, closeVars, turnVars
<1>7. ASSUME NEW t \in Turns, ClaimResume(t)
      PROVE  OwnerInv'
  BY <1>7 DEF ClaimResume, closeVars, turnVars
<1>8. ASSUME NEW t \in Turns, CancelTurn(t)
      PROVE  OwnerInv'
  BY <1>8 DEF CancelTurn, closeVars, turnVars
<1>9. ASSUME NEW t \in Turns, SteerTurn(t)
      PROVE  OwnerInv'
  BY <1>9 DEF SteerTurn, approvalVars, closeVars, turnVars
<1>10. ASSUME NEW t \in Turns, AbandonWait(t)
       PROVE  OwnerInv'
  BY <1>10 DEF AbandonWait, approvalVars, closeVars
<1>11. ASSUME NEW t \in Turns, TurnDrains(t)
       PROVE  OwnerInv'
  BY <1>11 DEF TurnDrains, approvalVars, closeVars, turnVars
<1>12. ASSUME NEW t \in Turns, NEW outcome \in Outcomes, TurnDecides(t, outcome)
       PROVE  OwnerInv'
  BY <1>12 DEF TurnDecides, Outcomes, approvalVars, closeVars
<1>13. ASSUME NEW t \in Turns, TurnReturns(t)
       PROVE  OwnerInv'
  BY <1>13 DEF TurnReturns, approvalVars, closeVars
<1>14. ASSUME NEW t \in Turns, SettleWakes(t)
       PROVE  OwnerInv'
  BY <1>14 DEF SettleWakes, Resultless, approvalVars, closeVars, turnVars
<1>15. ASSUME NEW t \in Turns, SettleClears(t)
       PROVE  OwnerInv'
  BY <1>15 DEF SettleClears, ContextAgent, approvalVars, closeVars, turnVars
<1>16. ASSUME NEW t \in Turns, SettlePublishes(t)
       PROVE  OwnerInv'
  BY <1>16 DEF SettlePublishes, PublishesTerminal, SettledStatus, approvalVars,
     closeVars, turnVars
<1>17. ASSUME NEW t \in Turns, Settled(t)
       PROVE  OwnerInv'
  BY <1>17 DEF Settled, approvalVars, closeVars, turnVars
<1>18. ASSUME NEW t \in Turns, GoalFollowup(t)
       PROVE  OwnerInv'
  BY <1>18 DEF GoalFollowup, Begin, HasLiveTurn, closeVars
<1>19. ASSUME NEW mode \in CloseModes, CloseClaim(mode)
       PROVE  OwnerInv'
  BY <1>19 DEF CloseClaim, HasLiveTurn, ContextAgent, turnVars
<1>20. CASE CloseTurnEnds
  BY <1>20 DEF CloseTurnEnds, Resultless, approvalVars, turnVars
<1>21. CASE CloseFinishes
  BY <1>21 DEF CloseFinishes, approvalVars, turnVars
<1>22. CASE UNCHANGED vars
  BY <1>22 DEF vars
<1>23. ASSUME NEW t \in Turns, TurnRaises(t)
       PROVE  OwnerInv'
  BY <1>23 DEF TurnRaises, approvalVars, closeVars
<1> QED
  BY <1>1, <1>2, <1>3, <1>4, <1>5, <1>6, <1>7, <1>8, <1>9, <1>10, <1>11,
     <1>12, <1>13, <1>14, <1>15, <1>16, <1>17, <1>18, <1>19, <1>20, <1>21, <1>22,
     <1>23 DEF Next, TurnRuns, Settle, CloseRuns

\* No step publishes a status that contradicts the owner or the reservation.
LEMMA StatusStep ==
    ASSUME TypeOK, TaskInv, OwnerInv, StatusInv, CloseInv, [Next]_vars
    PROVE  StatusInv'
<1> USE DEF TypeOK, TaskInv, OwnerInv, StatusInv, CloseInv, TasksJoined,
        Early, Settling, Done, Paused, Turns, NoTurn, NoReservation, NoClaim
<1>1. CASE Enqueue
  BY <1>1 DEF Enqueue, PlainReservation, Free, HasLiveTurn, closeVars, turnVars
<1>2. ASSUME NEW claim \in claims, EnqueueResume(claim)
      PROVE  StatusInv'
  BY <1>2 DEF EnqueueResume, ResumeReservation, Free, HasLiveTurn, ResumeAgent,
     closeVars, turnVars
<1>3. CASE StartPlain
  <2>1. /\ turns' = turns + 1 /\ turns' \in Turns /\ status' = "running"
        /\ reservation' = NoReservation
        /\ settlePc' = [settlePc EXCEPT ![turns'] = "wait"]
    BY <1>3, SessionAssumption DEF StartPlain, Begin
  <2> QED BY <2>1
<1>4. CASE StartResume
  <2>1. /\ turns' = turns + 1 /\ turns' \in Turns /\ status' = "running"
        /\ reservation' = NoReservation
        /\ settlePc' = [settlePc EXCEPT ![turns'] = "wait"]
    BY <1>4, SessionAssumption DEF StartResume, Begin
  <2> QED BY <2>1
<1>5. CASE Withdraw
  BY <1>5 DEF Withdraw, closeVars, turnVars
<1>6. ASSUME NEW agent \in Agents, Rebind(agent)
      PROVE  StatusInv'
  BY <1>6 DEF Rebind, approvalVars, closeVars, turnVars
<1>7. ASSUME NEW t \in Turns, ClaimResume(t)
      PROVE  StatusInv'
  BY <1>7 DEF ClaimResume, closeVars, turnVars
<1>8. ASSUME NEW t \in Turns, CancelTurn(t)
      PROVE  StatusInv'
  BY <1>8 DEF CancelTurn, closeVars, turnVars
<1>9. ASSUME NEW t \in Turns, SteerTurn(t)
      PROVE  StatusInv'
  BY <1>9 DEF SteerTurn, approvalVars, closeVars, turnVars
<1>10. ASSUME NEW t \in Turns, AbandonWait(t)
       PROVE  StatusInv'
  BY <1>10 DEF AbandonWait, approvalVars, closeVars
<1>11. ASSUME NEW t \in Turns, TurnDrains(t)
       PROVE  StatusInv'
  BY <1>11 DEF TurnDrains, approvalVars, closeVars, turnVars
<1>12. ASSUME NEW t \in Turns, NEW outcome \in Outcomes, TurnDecides(t, outcome)
       PROVE  StatusInv'
  BY <1>12 DEF TurnDecides, Outcomes, approvalVars, closeVars
<1>13. ASSUME NEW t \in Turns, TurnReturns(t)
       PROVE  StatusInv'
  BY <1>13 DEF TurnReturns, approvalVars, closeVars
<1>14. ASSUME NEW t \in Turns, SettleWakes(t)
       PROVE  StatusInv'
  BY <1>14 DEF SettleWakes, Resultless, approvalVars, closeVars, turnVars
<1>15. ASSUME NEW t \in Turns, SettleClears(t)
       PROVE  StatusInv'
  BY <1>15 DEF SettleClears, ContextAgent, approvalVars, closeVars, turnVars
<1>16. ASSUME NEW t \in Turns, SettlePublishes(t)
       PROVE  StatusInv'
  BY <1>16 DEF SettlePublishes, PublishesTerminal, SettledStatus, approvalVars,
     closeVars, turnVars
<1>17. ASSUME NEW t \in Turns, Settled(t)
       PROVE  StatusInv'
  BY <1>17 DEF Settled, approvalVars, closeVars, turnVars
<1>18. ASSUME NEW t \in Turns, GoalFollowup(t)
       PROVE  StatusInv'
  <2>1. /\ turns' = turns + 1 /\ turns' \in Turns /\ status' = "running"
        /\ reservation = NoReservation /\ reservation' = NoReservation
        /\ settlePc' = [settlePc EXCEPT ![t] = "publish", ![turns'] = "wait"]
    BY <1>18, SessionAssumption DEF GoalFollowup, Begin
  <2> QED BY <2>1
<1>19. ASSUME NEW mode \in CloseModes, CloseClaim(mode)
       PROVE  StatusInv'
  BY <1>19 DEF CloseClaim, HasLiveTurn, ContextAgent, turnVars
<1>20. CASE CloseTurnEnds
  BY <1>20 DEF CloseTurnEnds, Resultless, approvalVars, turnVars
<1>21. CASE CloseFinishes
  BY <1>21 DEF CloseFinishes, approvalVars, turnVars
<1>22. CASE UNCHANGED vars
  BY <1>22 DEF vars
<1>23. ASSUME NEW t \in Turns, TurnRaises(t)
       PROVE  StatusInv'
  BY <1>23 DEF TurnRaises, approvalVars, closeVars
<1> QED
  BY <1>1, <1>2, <1>3, <1>4, <1>5, <1>6, <1>7, <1>8, <1>9, <1>10, <1>11,
     <1>12, <1>13, <1>14, <1>15, <1>16, <1>17, <1>18, <1>19, <1>20, <1>21, <1>22,
     <1>23 DEF Next, TurnRuns, Settle, CloseRuns

\* A claimed close revokes the reservation, and a finished one has joined every task.
LEMMA CloseStep ==
    ASSUME TypeOK, TaskInv, CloseInv, [Next]_vars
    PROVE  CloseInv'
<1> USE DEF TypeOK, TaskInv, CloseInv, TasksJoined, Settling, Turns, NoTurn,
        NoReservation, NoClaim
<1>1. CASE Enqueue
  BY <1>1 DEF Enqueue, PlainReservation, Free, HasLiveTurn, closeVars, turnVars
<1>2. ASSUME NEW claim \in claims, EnqueueResume(claim)
      PROVE  CloseInv'
  BY <1>2 DEF EnqueueResume, ResumeReservation, Free, HasLiveTurn, ResumeAgent,
     closeVars, turnVars
<1>3. CASE StartPlain
  BY <1>3 DEF StartPlain, Begin, HasLiveTurn, closeVars
<1>4. CASE StartResume
  BY <1>4 DEF StartResume, Begin, HasLiveTurn, closeVars
<1>5. CASE Withdraw
  BY <1>5 DEF Withdraw, closeVars, turnVars
<1>6. ASSUME NEW agent \in Agents, Rebind(agent)
      PROVE  CloseInv'
  BY <1>6 DEF Rebind, approvalVars, closeVars, turnVars
<1>7. ASSUME NEW t \in Turns, ClaimResume(t)
      PROVE  CloseInv'
  BY <1>7 DEF ClaimResume, closeVars, turnVars
<1>8. ASSUME NEW t \in Turns, CancelTurn(t)
      PROVE  CloseInv'
  BY <1>8 DEF CancelTurn, closeVars, turnVars
<1>9. ASSUME NEW t \in Turns, SteerTurn(t)
      PROVE  CloseInv'
  BY <1>9 DEF SteerTurn, approvalVars, closeVars, turnVars
<1>10. ASSUME NEW t \in Turns, AbandonWait(t)
       PROVE  CloseInv'
  BY <1>10 DEF AbandonWait, approvalVars, closeVars
<1>11. ASSUME NEW t \in Turns, TurnDrains(t)
       PROVE  CloseInv'
  BY <1>11 DEF TurnDrains, approvalVars, closeVars, turnVars
<1>12. ASSUME NEW t \in Turns, NEW outcome \in Outcomes, TurnDecides(t, outcome)
       PROVE  CloseInv'
  BY <1>12 DEF TurnDecides, Outcomes, approvalVars, closeVars
<1>13. ASSUME NEW t \in Turns, TurnReturns(t)
       PROVE  CloseInv'
  BY <1>13 DEF TurnReturns, approvalVars, closeVars
<1>14. ASSUME NEW t \in Turns, SettleWakes(t)
       PROVE  CloseInv'
  BY <1>14 DEF SettleWakes, Resultless, approvalVars, closeVars, turnVars
<1>15. ASSUME NEW t \in Turns, SettleClears(t)
       PROVE  CloseInv'
  BY <1>15 DEF SettleClears, ContextAgent, approvalVars, closeVars, turnVars
<1>16. ASSUME NEW t \in Turns, SettlePublishes(t)
       PROVE  CloseInv'
  BY <1>16 DEF SettlePublishes, PublishesTerminal, SettledStatus, approvalVars,
     closeVars, turnVars
<1>17. ASSUME NEW t \in Turns, Settled(t)
       PROVE  CloseInv'
  BY <1>17 DEF Settled, approvalVars, closeVars, turnVars
<1>18. ASSUME NEW t \in Turns, GoalFollowup(t)
       PROVE  CloseInv'
  BY <1>18 DEF GoalFollowup, Begin, HasLiveTurn, closeVars
<1>19. ASSUME NEW mode \in CloseModes, CloseClaim(mode)
       PROVE  CloseInv'
  BY <1>19 DEF CloseClaim, HasLiveTurn, ContextAgent, turnVars
<1>20. CASE CloseTurnEnds
  BY <1>20 DEF CloseTurnEnds, Resultless, approvalVars, turnVars
<1>21. CASE CloseFinishes
  BY <1>21 DEF CloseFinishes, approvalVars, turnVars
<1>22. CASE UNCHANGED vars
  BY <1>22 DEF vars
<1>23. ASSUME NEW t \in Turns, TurnRaises(t)
       PROVE  CloseInv'
  BY <1>23 DEF TurnRaises, approvalVars, closeVars
<1> QED
  BY <1>1, <1>2, <1>3, <1>4, <1>5, <1>6, <1>7, <1>8, <1>9, <1>10, <1>11,
     <1>12, <1>13, <1>14, <1>15, <1>16, <1>17, <1>18, <1>19, <1>20, <1>21, <1>22,
     <1>23 DEF Next, TurnRuns, Settle, CloseRuns

\* No step leaves guidance behind for a later turn.
LEMMA GuidanceStep ==
    ASSUME TypeOK, TaskInv, OwnerInv, GuidanceInv, [Next]_vars
    PROVE  GuidanceInv'
<1> USE DEF TypeOK, TaskInv, OwnerInv, GuidanceInv, Early, Settling, Done,
        Turns, NoTurn
<1>1. CASE Enqueue
  BY <1>1 DEF Enqueue, PlainReservation, Free, HasLiveTurn, closeVars, turnVars
<1>2. ASSUME NEW claim \in claims, EnqueueResume(claim)
      PROVE  GuidanceInv'
  BY <1>2 DEF EnqueueResume, ResumeReservation, Free, HasLiveTurn, ResumeAgent,
     closeVars, turnVars
<1>3. CASE StartPlain
  BY <1>3 DEF StartPlain, Begin, HasLiveTurn, closeVars
<1>4. CASE StartResume
  BY <1>4 DEF StartResume, Begin, HasLiveTurn, closeVars
<1>5. CASE Withdraw
  BY <1>5 DEF Withdraw, closeVars, turnVars
<1>6. ASSUME NEW agent \in Agents, Rebind(agent)
      PROVE  GuidanceInv'
  BY <1>6 DEF Rebind, approvalVars, closeVars, turnVars
<1>7. ASSUME NEW t \in Turns, ClaimResume(t)
      PROVE  GuidanceInv'
  BY <1>7 DEF ClaimResume, closeVars, turnVars
<1>8. ASSUME NEW t \in Turns, CancelTurn(t)
      PROVE  GuidanceInv'
  BY <1>8 DEF CancelTurn, closeVars, turnVars
<1>9. ASSUME NEW t \in Turns, SteerTurn(t)
      PROVE  GuidanceInv'
  BY <1>9 DEF SteerTurn, approvalVars, closeVars, turnVars
<1>10. ASSUME NEW t \in Turns, AbandonWait(t)
       PROVE  GuidanceInv'
  BY <1>10 DEF AbandonWait, approvalVars, closeVars
<1>11. ASSUME NEW t \in Turns, TurnDrains(t)
       PROVE  GuidanceInv'
  BY <1>11 DEF TurnDrains, approvalVars, closeVars, turnVars
<1>12. ASSUME NEW t \in Turns, NEW outcome \in Outcomes, TurnDecides(t, outcome)
       PROVE  GuidanceInv'
  BY <1>12 DEF TurnDecides, Outcomes, approvalVars, closeVars
<1>13. ASSUME NEW t \in Turns, TurnReturns(t)
       PROVE  GuidanceInv'
  BY <1>13 DEF TurnReturns, approvalVars, closeVars
<1>14. ASSUME NEW t \in Turns, SettleWakes(t)
       PROVE  GuidanceInv'
  BY <1>14 DEF SettleWakes, Resultless, approvalVars, closeVars, turnVars
<1>15. ASSUME NEW t \in Turns, SettleClears(t)
       PROVE  GuidanceInv'
  BY <1>15 DEF SettleClears, ContextAgent, approvalVars, closeVars, turnVars
<1>16. ASSUME NEW t \in Turns, SettlePublishes(t)
       PROVE  GuidanceInv'
  BY <1>16 DEF SettlePublishes, PublishesTerminal, SettledStatus, approvalVars,
     closeVars, turnVars
<1>17. ASSUME NEW t \in Turns, Settled(t)
       PROVE  GuidanceInv'
  BY <1>17 DEF Settled, approvalVars, closeVars, turnVars
<1>18. ASSUME NEW t \in Turns, GoalFollowup(t)
       PROVE  GuidanceInv'
  BY <1>18 DEF GoalFollowup, Begin, HasLiveTurn, closeVars
<1>19. ASSUME NEW mode \in CloseModes, CloseClaim(mode)
       PROVE  GuidanceInv'
  BY <1>19 DEF CloseClaim, HasLiveTurn, ContextAgent, turnVars
<1>20. CASE CloseTurnEnds
  BY <1>20 DEF CloseTurnEnds, Resultless, approvalVars, turnVars
<1>21. CASE CloseFinishes
  BY <1>21 DEF CloseFinishes, TasksJoined, approvalVars, turnVars
<1>22. CASE UNCHANGED vars
  BY <1>22 DEF vars
<1>23. ASSUME NEW t \in Turns, TurnRaises(t)
       PROVE  GuidanceInv'
  BY <1>23 DEF TurnRaises, approvalVars, closeVars
<1> QED
  BY <1>1, <1>2, <1>3, <1>4, <1>5, <1>6, <1>7, <1>8, <1>9, <1>10, <1>11,
     <1>12, <1>13, <1>14, <1>15, <1>16, <1>17, <1>18, <1>19, <1>20, <1>21, <1>22,
     <1>23 DEF Next, TurnRuns, Settle, CloseRuns

\* No step gives an authorization to resume to another turn than the newest.
LEMMA ApprovalStep ==
    ASSUME TypeOK, TaskInv, OwnerInv, StatusInv, CloseInv, ApprovalInv, [Next]_vars
    PROVE  ApprovalInv'
<1> USE DEF TypeOK, TaskInv, OwnerInv, StatusInv, CloseInv, ApprovalInv,
        Early, Settling, Done, Paused, Turns, NoTurn, NoReservation, NoClaim
<1>1. CASE Enqueue
  BY <1>1 DEF Enqueue, PlainReservation, Free, HasLiveTurn, closeVars, turnVars
<1>2. ASSUME NEW claim \in claims, EnqueueResume(claim)
      PROVE  ApprovalInv'
  BY <1>2 DEF EnqueueResume, ResumeReservation, Free, HasLiveTurn, ResumeAgent,
     closeVars, turnVars
<1>3. CASE StartPlain
  <2>1. /\ turns' = turns + 1 /\ turns' \in Turns /\ generation' = generation + 1
        /\ claims' = claims /\ result' = result /\ reservation' = NoReservation
        /\ agentOf' = [agentOf EXCEPT ![turns'] = binding]
        /\ resumeOf' = [resumeOf EXCEPT ![turns'] = NoTurn]
        /\ dropped' = dropped /\ active' = turns'
        /\ phase' = [phase EXCEPT ![turns'] = "running"]
    BY <1>3, SessionAssumption DEF StartPlain, Begin
  <2>2. consumed'.gen <= generation'
        /\ ~(consumed'.id # 0 /\ consumed'.gen = generation')
    BY <1>3, <2>1 DEF StartPlain, Claims
  <2>3. ASSUME NEW u \in 1 .. turns', resumeOf'[u] # NoTurn
        PROVE  /\ resumeOf'[u] = u - 1
               /\ Paused(u - 1)'
               /\ agentOf'[u] = agentOf'[u - 1]
               /\ u - 1 \notin dropped'
    <3>1. u \in 1 .. turns /\ u \in Turns /\ resumeOf[u] # NoTurn
      BY <2>1, <2>3, SessionAssumption
    <3>2. /\ resumeOf[u] = u - 1 /\ Paused(u - 1)
          /\ agentOf[u] = agentOf[u - 1] /\ u - 1 \notin dropped
      BY <3>1
    <3>3. u - 1 \in Turns /\ u - 1 # turns' /\ u # turns'
      BY <2>1, <3>1, <3>2, SessionAssumption
    <3> QED BY <2>1, <3>1, <3>2, <3>3
  <2> QED BY <2>1, <2>2, <2>3
<1>4. CASE StartResume
  <2> PICK agent \in reservation.captured : Begin(agent, reservation.claim.turn)
    BY <1>4 DEF StartResume
  <2>1. /\ turns' = turns + 1 /\ turns' \in Turns /\ generation' = generation + 1
        /\ claims' = claims /\ result' = result /\ reservation' = NoReservation
        /\ agentOf' = [agentOf EXCEPT ![turns'] = agent]
        /\ resumeOf' = [resumeOf EXCEPT ![turns'] = reservation.claim.turn]
        /\ dropped' = dropped /\ active' = turns'
        /\ phase' = [phase EXCEPT ![turns'] = "running"]
    BY <1>4, SessionAssumption DEF StartResume, Begin
  <2>2. reservation.claim.turn = turns /\ turns # 0 /\ Paused(turns)
        /\ agent = agentOf[turns] /\ turns \notin dropped
    BY <1>4 DEF StartResume
  <2>3. consumed' = NoClaim
    BY <1>4 DEF StartResume
  <2>4. ASSUME NEW u \in 1 .. turns', resumeOf'[u] # NoTurn
        PROVE  /\ resumeOf'[u] = u - 1
               /\ Paused(u - 1)'
               /\ agentOf'[u] = agentOf'[u - 1]
               /\ u - 1 \notin dropped'
    <3>1. CASE u = turns'
      BY <2>1, <2>2, <3>1, SessionAssumption, SMTT(40)
    <3>2. CASE u # turns'
      <4>1. u \in 1 .. turns /\ u \in Turns /\ resumeOf[u] # NoTurn
        BY <2>1, <2>4, <3>2, SessionAssumption
      <4>2. u - 1 \in Turns
        BY <4>1, SessionAssumption
      <4> QED BY <2>1, <4>1, <4>2
    <3> QED BY <3>1, <3>2
  <2> QED BY <2>1, <2>3, <2>4
<1>5. CASE Withdraw
  BY <1>5 DEF Withdraw, closeVars, turnVars
<1>6. ASSUME NEW agent \in Agents, Rebind(agent)
      PROVE  ApprovalInv'
  BY <1>6 DEF Rebind, approvalVars, closeVars, turnVars
<1>7. ASSUME NEW t \in Turns, ClaimResume(t)
      PROVE  ApprovalInv'
  <2>1. IsFiniteSet(claims') /\ Cardinality(claims) \in Nat
    BY <1>7, FS_AddElement, FS_CardinalityType DEF ClaimResume
  <2>2. consumed' = [id |-> Cardinality(claims) + 1, turn |-> t, gen |-> generation]
        /\ claims' = claims \cup {consumed'}
    BY <1>7 DEF ClaimResume
  <2>3. t = turns
    BY <1>7 DEF ClaimResume
  <2>4. UNCHANGED <<generation, reservation, active, closed, dropped, turnVars>>
    BY <1>7 DEF ClaimResume, closeVars
  <2>5. \A c \in claims' : c.id # 0
    BY <2>1, <2>2
  <2> QED BY <2>1, <2>2, <2>3, <2>4, <2>5 DEF turnVars
<1>8. ASSUME NEW t \in Turns, CancelTurn(t)
      PROVE  ApprovalInv'
  BY <1>8 DEF CancelTurn, closeVars, turnVars
<1>9. ASSUME NEW t \in Turns, SteerTurn(t)
      PROVE  ApprovalInv'
  BY <1>9 DEF SteerTurn, approvalVars, closeVars, turnVars
<1>10. ASSUME NEW t \in Turns, AbandonWait(t)
       PROVE  ApprovalInv'
  BY <1>10 DEF AbandonWait, approvalVars, closeVars
<1>11. ASSUME NEW t \in Turns, TurnDrains(t)
       PROVE  ApprovalInv'
  BY <1>11 DEF TurnDrains, approvalVars, closeVars, turnVars
<1>12. ASSUME NEW t \in Turns, NEW outcome \in Outcomes, TurnDecides(t, outcome)
       PROVE  ApprovalInv'
  BY <1>12 DEF TurnDecides, Outcomes, approvalVars, closeVars
<1>13. ASSUME NEW t \in Turns, TurnReturns(t)
       PROVE  ApprovalInv'
  BY <1>13 DEF TurnReturns, approvalVars, closeVars
<1>14. ASSUME NEW t \in Turns, SettleWakes(t)
       PROVE  ApprovalInv'
  BY <1>14 DEF SettleWakes, Resultless, approvalVars, closeVars, turnVars
<1>15. ASSUME NEW t \in Turns, SettleClears(t)
       PROVE  ApprovalInv'
  BY <1>15 DEF SettleClears, ContextAgent, approvalVars, closeVars, turnVars
<1>16. ASSUME NEW t \in Turns, SettlePublishes(t)
       PROVE  ApprovalInv'
  BY <1>16 DEF SettlePublishes, PublishesTerminal, SettledStatus, approvalVars,
     closeVars, turnVars
<1>17. ASSUME NEW t \in Turns, Settled(t)
       PROVE  ApprovalInv'
  BY <1>17 DEF Settled, approvalVars, closeVars, turnVars
<1>18. ASSUME NEW t \in Turns, GoalFollowup(t)
       PROVE  ApprovalInv'
  <2>1. /\ turns' = turns + 1 /\ turns' \in Turns /\ generation' = generation + 1
        /\ claims' = claims /\ result' = result /\ reservation' = NoReservation
        /\ agentOf' = [agentOf EXCEPT ![turns'] = binding]
        /\ resumeOf' = [resumeOf EXCEPT ![turns'] = NoTurn]
        /\ dropped' = dropped /\ active' = turns'
        /\ phase' = [phase EXCEPT ![turns'] = "running"]
    BY <1>18, SessionAssumption DEF GoalFollowup, Begin
  <2>2. consumed'.gen <= generation'
        /\ ~(consumed'.id # 0 /\ consumed'.gen = generation')
    BY <1>18, <2>1 DEF GoalFollowup, Claims
  <2>3. ASSUME NEW u \in 1 .. turns', resumeOf'[u] # NoTurn
        PROVE  /\ resumeOf'[u] = u - 1
               /\ Paused(u - 1)'
               /\ agentOf'[u] = agentOf'[u - 1]
               /\ u - 1 \notin dropped'
    <3>1. u \in 1 .. turns /\ u \in Turns /\ resumeOf[u] # NoTurn
      BY <2>1, <2>3, SessionAssumption
    <3>2. /\ resumeOf[u] = u - 1 /\ Paused(u - 1)
          /\ agentOf[u] = agentOf[u - 1] /\ u - 1 \notin dropped
      BY <3>1
    <3>3. u - 1 \in Turns /\ u - 1 # turns' /\ u # turns'
      BY <2>1, <3>1, <3>2, SessionAssumption
    <3> QED BY <2>1, <3>1, <3>2, <3>3
  <2> QED BY <2>1, <2>2, <2>3
<1>19. ASSUME NEW mode \in CloseModes, CloseClaim(mode)
       PROVE  ApprovalInv'
  BY <1>19 DEF CloseClaim, HasLiveTurn, ContextAgent, turnVars
<1>20. CASE CloseTurnEnds
  BY <1>20 DEF CloseTurnEnds, Resultless, approvalVars, turnVars
<1>21. CASE CloseFinishes
  BY <1>21 DEF CloseFinishes, TasksJoined, approvalVars, turnVars
<1>22. CASE UNCHANGED vars
  BY <1>22 DEF vars
<1>23. ASSUME NEW t \in Turns, TurnRaises(t)
       PROVE  ApprovalInv'
  BY <1>23 DEF TurnRaises, approvalVars, closeVars
<1> QED
  BY <1>1, <1>2, <1>3, <1>4, <1>5, <1>6, <1>7, <1>8, <1>9, <1>10, <1>11,
     <1>12, <1>13, <1>14, <1>15, <1>16, <1>17, <1>18, <1>19, <1>20, <1>21, <1>22,
     <1>23 DEF Next, TurnRuns, Settle, CloseRuns

\* A new session satisfies the invariant.
LEMMA InitInv == Init => Inv
<1> SUFFICES ASSUME Init PROVE Inv
  OBVIOUS
<1>1. TypeOK
  <2>1. NoClaim \in Claims
    BY SessionAssumption DEF NoClaim, Claims, NoTurn
  <2>2. reservation \in [kind : {"none", "plain", "resume"}, claim : Claims,
                         captured : SUBSET Agents]
    BY <2>1 DEF Init, NoReservation
  <2>3. /\ phase \in [Turns -> {"none", "running", "decided", "done"}]
        /\ result \in [Turns -> Outcomes \cup {"none"}]
        /\ agentOf \in [Turns -> Agents]
        /\ settlePc \in [Turns -> {"none", "wait", "persist", "goal", "publish",
                                   "ended", "settled"}]
        /\ queue \in [Agents -> SUBSET Turns]
    BY DEF Init
  <2>4. resumeOf \in [Turns -> 0 .. MaxTurns]
    <3>1. 0 \in 0 .. MaxTurns
      BY SessionAssumption
    <3> QED BY <3>1 DEF Init, NoTurn
  <2>5. /\ status \in Statuses /\ closed \in BOOLEAN /\ turns \in 0 .. MaxTurns
        /\ active \in 0 .. turns /\ latest \in 0 .. turns /\ closeTurn \in 0 .. turns
        /\ generation \in Nat /\ settling \subseteq 1 .. turns
    <3>1. /\ status = "idle" /\ closed = FALSE /\ turns = 0 /\ active = 0 /\ latest = 0
          /\ closeTurn = 0 /\ generation = 0 /\ settling = {}
      BY DEF Init, NoTurn
    <3>2. status \in Statuses /\ closed \in BOOLEAN
      BY <3>1 DEF Statuses
    <3>3. turns \in 0 .. MaxTurns /\ generation \in Nat
      BY <3>1, SessionAssumption
    <3>4. active \in 0 .. turns /\ latest \in 0 .. turns /\ closeTurn \in 0 .. turns
      BY <3>1
    <3> QED BY <3>1, <3>2, <3>3, <3>4
  <2> QED BY <2>1, <2>2, <2>3, <2>4, <2>5 DEF Init, TypeOK
<1>2. TaskInv /\ OwnerInv
  BY SessionAssumption DEF Init, TaskInv, OwnerInv, Early, Settling, Turns, NoTurn
<1>3. StatusInv /\ CloseInv
  BY DEF Init, StatusInv, CloseInv, Early, NoTurn
<1>4. GuidanceInv
  BY DEF Init, GuidanceInv
<1>5. ApprovalInv
  BY FS_EmptySet DEF Init, ApprovalInv, NoReservation, NoClaim
<1> QED BY <1>1, <1>2, <1>3, <1>4, <1>5 DEF Inv

\* Every reachable state satisfies the invariant.
THEOREM Invariance == Spec => []Inv
<1>1. Inv /\ [Next]_vars => Inv'
  <2> SUFFICES ASSUME Inv, [Next]_vars PROVE Inv'
    OBVIOUS
  <2>1. /\ TypeOK /\ TaskInv /\ OwnerInv /\ StatusInv /\ CloseInv
        /\ GuidanceInv /\ ApprovalInv /\ IsFiniteSet(claims)
    BY DEF Inv, ApprovalInv
  <2> QED
    BY <2>1, TypeStep, TaskStep, OwnerStep, StatusStep, CloseStep, GuidanceStep,
       ApprovalStep DEF Inv
<1> QED BY <1>1, InitInv, PTL DEF Spec
-----------------------------------------------------------------------------
(* What follows from the invariant *)

\* A thread that runs and is not orphaned is the newest turn's, whose settlement
\* still waits for it.
LEMMA LiveTurn ==
    ASSUME Inv, orphaned = {}, NEW t \in Live
    PROVE  t \in Turns /\ settlePc[t] = "wait" /\ t = turns /\ t \in settling
<1>1. t \in Turns /\ phase[t] \in {"running", "decided"}
  BY DEF Live
<1>2. settlePc[t] \in {"none", "wait", "persist", "goal", "publish", "ended", "settled"}
  BY <1>1 DEF Inv, TypeOK
<1>3. settlePc[t] = "wait"
  BY <1>1, <1>2 DEF Inv, TaskInv, Done
<1> QED BY <1>1, <1>3 DEF Inv, TaskInv, OwnerInv, Early, Settling

\* Every field of the session keeps its type.
THEOREM SessionTypeCorrect == Spec => []TypeOK
<1>1. Inv => TypeOK
  BY DEF Inv
<1> QED BY <1>1, Invariance, PTL

\* The same session never runs two turns concurrently.
THEOREM OneTurnAtATime == Spec => []OneLiveTurn
<1>1. Inv => OneLiveTurn
  BY LiveTurn DEF OneLiveTurn
<1> QED BY <1>1, Invariance, PTL

\* A running turn finds no guidance of an earlier turn in the queue it drains, but for
\* that of a turn whose future raised, as long as no waiter of a turn is cancelled.
THEOREM GuidanceStaysFenced == Spec => []GuidanceFenced
<1>1. Inv => GuidanceFenced
  <2> SUFFICES ASSUME Inv, orphaned = {}, NEW t \in Turns, phase[t] = "running",
                      NEW u \in queue[agentOf[t]]
               PROVE  u = t \/ result[u] = "raised"
    BY DEF GuidanceFenced
  <2>1. t \in Live /\ agentOf[t] \in Agents
    BY DEF Live, Inv, TypeOK
  <2>2. u = turns \/ result[u] = "raised"
    BY <2>1 DEF Inv, GuidanceInv
  <2> QED BY <2>1, <2>2, LiveTurn
<1> QED BY <1>1, Invariance, PTL

\* A session nobody works for reports an outcome, unless the future of its newest turn
\* ended without a result.
THEOREM QuietSessionsSettled == Spec => []QuietMeansSettled
<1>1. Inv => QuietMeansSettled
  <2> SUFFICES ASSUME Inv, orphaned = {}, ~closed, reservation = NoReservation,
                      settling = {}, ~(latest # NoTurn /\ result[latest] = "raised")
               PROVE  status \in {"idle", "cancelled", "failed", "waiting_approval"}
    BY DEF QuietMeansSettled
  <2>1. status # "queued" /\ status # "closed"
    BY DEF Inv, StatusInv, CloseInv
  <2>2. ASSUME status \in {"running", "cancelling"} PROVE FALSE
    <3>1. turns \in Turns /\ settlePc[turns] \in Settling
      BY <2>2, SessionAssumption DEF Inv, TypeOK, StatusInv, OwnerInv, Turns, NoTurn,
         Early, Settling
    <3> QED BY <3>1 DEF Inv, TaskInv
  <2> QED BY <2>1, <2>2 DEF Inv, TypeOK, Statuses
<1> QED BY <1>1, Invariance, PTL

\* A live turn shows as running or cancelling, a reserved one as queued.
THEOREM StatusTellsOwner == Spec => []OwnedMeansBusy
<1>1. Inv => OwnedMeansBusy
  <2> SUFFICES ASSUME Inv PROVE OwnedMeansBusy
    OBVIOUS
  <2>1. ASSUME orphaned = {}, NEW t \in Live PROVE status \in {"running", "cancelling"}
    BY <2>1, LiveTurn DEF Inv, StatusInv, Early
  <2>2. reservation # NoReservation => status = "queued"
    BY DEF Inv, StatusInv
  <2> QED BY <2>1, <2>2 DEF OwnedMeansBusy
<1> QED BY <1>1, Invariance, PTL

\* CLOSED is published when no turn runs, settles or can start, as long as no
\* waiter of a turn is cancelled.
THEOREM ClosedMeansQuiet == Spec => []ClosedIsQuietUnlessAbandoned
<1>1. Inv => ClosedIsQuietUnlessAbandoned
  <2> SUFFICES ASSUME Inv, orphaned = {}, status = "closed"
               PROVE  Live = {} /\ settling = {} /\ reservation = NoReservation
    BY DEF ClosedIsQuietUnlessAbandoned, ClosedIsQuiet
  <2>1. closed /\ reservation = NoReservation /\ TasksJoined
    BY DEF Inv, CloseInv
  <2>2. \A t \in Turns : settlePc[t] \in {"none", "settled"}
    BY <2>1 DEF TasksJoined
  <2>3. Live = {}
    BY <2>2, LiveTurn
  <2>4. settling \subseteq Turns
    BY SessionAssumption DEF Inv, TypeOK, Turns
  <2>5. settling = {}
    BY <2>2, <2>4 DEF Inv, TaskInv, Settling
  <2> QED BY <2>1, <2>3, <2>5
<1> QED BY <1>1, Invariance, PTL

\* No settlement, withdrawal or late start replaces CLOSED.
THEOREM ClosedStays == Spec => ClosedIsFinal
<1>1. Inv /\ [Next]_vars => [status = "closed" => status' = "closed"]_vars
  <2> SUFFICES ASSUME Inv, [Next]_vars, status = "closed" PROVE status' = "closed"
    OBVIOUS
  <2>1. closed /\ \A t \in Turns : settlePc[t] \in {"none", "settled"}
    BY DEF Inv, CloseInv, TasksJoined
  <2>2. CASE UNCHANGED vars
    BY <2>2 DEF vars
  <2>3. CASE Enqueue \/ StartPlain \/ StartResume \/ Withdraw
    BY <2>1, <2>3 DEF Enqueue, Free, StartPlain, StartResume, Withdraw
  <2>4. CASE \/ \E claim \in claims : EnqueueResume(claim)
             \/ \E agent \in Agents : Rebind(agent)
             \/ \E mode \in CloseModes : CloseClaim(mode)
    BY <2>1, <2>4 DEF EnqueueResume, Free, Rebind, CloseClaim
  <2>5. CASE CloseRuns
    BY <2>5 DEF CloseRuns, CloseTurnEnds, CloseFinishes
  <2>6. ASSUME NEW t \in Turns,
               ClaimResume(t) \/ CancelTurn(t) \/ SteerTurn(t) \/ AbandonWait(t)
        PROVE  status' = "closed"
    BY <2>1, <2>6 DEF ClaimResume, CancelTurn, SteerTurn, AbandonWait
  <2>7. ASSUME NEW t \in Turns, TurnDrains(t) \/ TurnRuns(t)
        PROVE  status' = "closed"
    BY <2>7 DEF TurnDrains, TurnRuns, TurnReturns, TurnRaises, TurnDecides
  <2>8. ASSUME NEW t \in Turns, Settle(t) \/ GoalFollowup(t)
        PROVE  status' = "closed"
    BY <2>1, <2>8 DEF Settle, SettleWakes, SettleClears, SettlePublishes, Settled,
       GoalFollowup
  <2> QED BY <2>2, <2>3, <2>4, <2>5, <2>6, <2>7, <2>8 DEF Next
<1> QED BY <1>1, Invariance, PTL DEF Spec, ClosedIsFinal

\* An approval is answered at most once, only for the newest turn, and never when
\* that turn was cancelled or its session closed.
THEOREM ApprovalAnsweredOnce == Spec => []ResumedOnce
<1>1. Inv => ResumedOnce
  <2> SUFFICES ASSUME Inv PROVE ResumedOnce
    OBVIOUS
  <2>1. \A t \in 1 .. turns : resumeOf[t] # NoTurn =>
            resumeOf[t] = t - 1 /\ result[t - 1] = "waiting" /\ t - 1 \notin dropped
    BY DEF Inv, ApprovalInv, Paused
  <2>2. reservation.kind = "resume" =>
            /\ reservation.claim.turn = turns /\ result[turns] = "waiting"
            /\ turns \notin dropped
    BY DEF Inv, ApprovalInv, Paused
  <2> QED BY <2>1, <2>2 DEF ResumedOnce
<1> QED BY <1>1, Invariance, PTL

\* A resumed turn runs with the agent of the turn it resumes.
THEOREM ResumeBinding == Spec => []ResumeKeepsBinding
<1>1. Inv => ResumeKeepsBinding
  BY DEF Inv, ApprovalInv, ResumeKeepsBinding
<1> QED BY <1>1, Invariance, PTL
=============================================================================
