---------------------------- MODULE Collaboration ---------------------------
(***************************************************************************)
(* Sessions that hand work to each other (runtime/collaboration): a source *)
(* session opens a scope, sends requests to target sessions, and the two   *)
(* exchange questions, supplements and a reply.  Every message is a durable*)
(* delivery in the recipient's mailbox; a worker claims it, starts a turn  *)
(* for it in the recipient's session, links the turn and waits for it.     *)
(* Stop commands fence a scope or one request and then cancel its turns.   *)
(*                                                                         *)
(* A store transaction is one action.  Tools run in the threads of their   *)
(* turns and stop commands in threads of their own, so they come between   *)
(* any two transactions of a worker.  Versions are left out: the version a *)
(* worker holds is current exactly while the delivery is still "claimed",  *)
(* and stop commands carry the version their client has just read.  So are *)
(* operation keys: a repeated call returns the stored row.                 *)
(***************************************************************************)
EXTENDS Naturals, FiniteSets

CONSTANTS
    Sessions,
    Sources,       \* bound: sessions that open scopes
    MaxScopes,     \* bound: scopes opened
    MaxRequests,   \* bound: requests created
    MaxDeliveries, \* bound: messages posted
    MaxMessages,   \* MAX_MESSAGES: messages of one request
    MaxPending,    \* max_pending: capacity of a mailbox
    Workers,       \* how many recipients are served at a time
    MaxCrashes,    \* bound: ends of the daemon process
    MaxPauses,     \* bound: turns that stop for an approval
    MaxBreaks,     \* bound: turns that end and take their worker along
    MaxStops       \* bound: scopes and requests that a source restricts

ASSUME CollaborationAssumption ==
    /\ Sessions # {} /\ IsFiniteSet(Sessions) /\ Sources \subseteq Sessions
    /\ {MaxScopes, MaxRequests, MaxDeliveries, MaxCrashes, MaxPauses, MaxBreaks,
        MaxStops} \subseteq Nat
    /\ MaxMessages \in Nat \ {0, 1} /\ MaxPending \in Nat \ {0}
    /\ Workers \in Nat \ {0}

VARIABLES
    scope,    \* table scopes: state and owning source session
    req,      \* table requests: scope, target, state and continuation
    mail,     \* tables messages and deliveries: request, kind and state
    turn,     \* the turn started for a delivery; see NoTurn
    worker,   \* the worker task of each recipient: where it stands, with what
    stops,    \* stop commands that are fenced and have yet to cancel turns
    boot,     \* "up", "down" or "recovered" (startup after recover_uncertain)
    crashes, pauses, breaks

vars == <<scope, req, mail, turn, worker, stops, boot, crashes, pauses, breaks>>
bounds == <<crashes, pauses, breaks>>

Scopes == 1 .. MaxScopes
Requests == 1 .. MaxRequests
Deliveries == 1 .. MaxDeliveries

ScopeStates == {"active", "receive_only", "revoked"}
RequestStates == {"pending", "working", "waiting_input", "replied", "cancelled",
                  "failed"}
Kinds == {"request", "clarification", "supplement", "reply", "progress"}
Owned == {"claimed", "running", "review"}
Unresolved == Owned \cup {"pending"}
DeliveryStates == Unresolved \cup {"settled", "cancelled"}

(* live while its thread runs, paused while it waits for an approval,      *)
(* broken when it ended so that whoever waits for it gets an exception.    *)
(* linked: its turn_id is the one the delivery records; token: its cancel  *)
(* token is set; starts counts the turns submitted for the delivery.       *)
NoTurn == [state |-> "none", linked |-> FALSE, token |-> FALSE, starts |-> 0]
Idle == [pc |-> "none", d |-> 0]

Source(r) == scope[req[r].group].owner
Posted == {d \in Deliveries : mail[d].state # "none"}
Of(d) == mail[d].of
Recipient(r, kind) ==
    IF kind \in {"request", "supplement"} THEN req[r].target ELSE Source(r)
To(d) == Recipient(Of(d), mail[d].kind)

MailOf(s, states) == {d \in Posted : To(d) = s /\ mail[d].state \in states}
MailAbout(r, states) == {d \in Posted : Of(d) = r /\ mail[d].state \in states}

(* The source goes on with a request only while nobody restricted it.      *)
MayContinue(r) == scope[req[r].group].state = "active" /\ req[r].cont = "active"
Revoked(r) == "revoked" \in {scope[req[r].group].state, req[r].cont}
Permits(r, s) == ~Revoked(r) /\ (s = Source(r) => MayContinue(r))

SetState(f, D, st) == [d \in DOMAIN f |-> IF d \in D THEN [f[d] EXCEPT !.state = st]
                                                     ELSE f[d]]

Init ==
    /\ scope = [g \in Scopes |-> [state |-> "none", owner |-> CHOOSE s \in Sessions : TRUE]]
    /\ req = [r \in Requests |-> [group |-> 0, target |-> CHOOSE s \in Sessions : TRUE,
                                  state |-> "none", cont |-> "active"]]
    /\ mail = [d \in Deliveries |-> [of |-> 0, kind |-> "request", state |-> "none"]]
    /\ turn = [d \in Deliveries |-> NoTurn]
    /\ worker = [s \in Sessions |-> Idle]
    /\ stops = {}
    /\ boot = "up"
    /\ crashes = 0 /\ pauses = 0 /\ breaks = 0

-----------------------------------------------------------------------------
(* Requests and messages.                                                  *)

(* begin_scope: a further group of requests; it retires no other.          *)
BeginScope(s, g) ==
    /\ boot = "up" /\ s \in Sources
    /\ scope[g].state = "none" /\ \A h \in 1 .. (g - 1) : scope[h].state # "none"
    /\ scope' = [scope EXCEPT ![g] = [state |-> "active", owner |-> s]]
    /\ UNCHANGED <<req, mail, turn, worker, stops, boot, bounds>>

\* Faulty: no message is reserved for the reply.
Append_NoReserve(r, kind, s, executable, C) ==
    LET d == Cardinality(Posted) + 1
        state == IF executable THEN "pending"
                 ELSE IF kind = "progress" THEN "settled" ELSE "cancelled"
    IN  /\ d \in Deliveries
        /\ Cardinality(MailAbout(r, DeliveryStates)) < MaxMessages
        /\ executable => Cardinality(MailOf(s, Unresolved) \ C) < MaxPending
        /\ mail' = [SetState(mail, C, "cancelled") EXCEPT
                      ![d] = [of |-> r, kind |-> kind, state |-> state]]

(* _append: the message and its delivery to s, in the transaction that     *)
(* also retires the deliveries in C.  The last message of a request is     *)
(* reserved for the reply.                                                 *)
Append(r, kind, s, executable, C) ==
    LET d == Cardinality(Posted) + 1
        ceiling == IF kind = "reply" THEN MaxMessages ELSE MaxMessages - 1
        state == IF executable THEN "pending"
                 ELSE IF kind = "progress" THEN "settled" ELSE "cancelled"
    IN  /\ d \in Deliveries
        /\ Cardinality(MailAbout(r, DeliveryStates)) < ceiling
        /\ executable => Cardinality(MailOf(s, Unresolved) \ C) < MaxPending
        /\ mail' = [SetState(mail, C, "cancelled") EXCEPT
                      ![d] = [of |-> r, kind |-> kind, state |-> state]]

(* contact_session: a turn of the scope's owner, whether the user's or one *)
(* of a delivery, turns to another session.                                *)
MayContact(g, t) == scope[g].state # "none" /\ t # scope[g].owner

(* create_request, with its first message.                                 *)
CreateRequest(g, t, r) ==
    /\ boot = "up"
    /\ req[r].state = "none" /\ \A q \in 1 .. (r - 1) : req[q].state # "none"
    /\ MayContact(g, t) /\ scope[g].state = "active"
    /\ req' = [req EXCEPT ![r] = [group |-> g, target |-> t, state |-> "pending",
                                  cont |-> "active"]]
    /\ Append(r, "request", t, TRUE, {})
    /\ UNCHANGED <<scope, turn, worker, stops, boot, bounds>>

Questions(r) == {d \in MailAbout(r, {"pending"}) : mail[d].kind = "clarification"}

(* reply_to_collaboration: called by the turn of delivery d0 while its     *)
(* thread runs, cancelled or not, linked or not.                           *)
MaySay(d0, kind) ==
    /\ turn[d0].state = "live"
    /\ kind \in (IF To(d0) = req[Of(d0)].target
                 THEN {"clarification", "reply", "progress"} ELSE {"supplement"})

(* The states of a request that a message of this kind takes further.      *)
AnsweredBy(kind) ==
    CASE kind = "clarification" -> {"working"}
      [] kind = "supplement" -> {"waiting_input"}
      [] OTHER -> {"working", "waiting_input"}

(* post_message: the message, its delivery and the request's new state.    *)
Post(d0, kind) ==
    LET r == Of(d0)
        s == Recipient(r, kind)
        executable == /\ kind # "progress"
                      /\ req[r].cont # "revoked"
                      /\ s = Source(r) => MayContinue(r)
        next == CASE kind = "clarification" -> "waiting_input"
                  [] kind = "supplement" -> "pending"
                  [] kind = "reply" -> "replied"
                  [] kind = "progress" -> req[r].state
    IN  /\ boot = "up" /\ MaySay(d0, kind)
        /\ req[r].state \in AnsweredBy(kind)
        /\ kind = "supplement" => MayContinue(r)
        /\ Append(r, kind, s, executable,
                  IF kind \in {"supplement", "reply"} THEN Questions(r) ELSE {})
        /\ req' = [req EXCEPT ![r].state = next]
        /\ UNCHANGED <<scope, turn, worker, stops, boot, bounds>>

-----------------------------------------------------------------------------
(* The turns of deliveries (SessionRuntime, as this code uses it).  A turn *)
(* settles on the loop of the workers, hence not while its worker goes     *)
(* from a successful start to the link.                                    *)

CanSettle(d) ==
    /\ turn[d].state = "live"
    /\ worker[To(d)] # [pc |-> "link", d |-> d]

TurnEnds(d) ==
    /\ CanSettle(d)
    /\ turn' = [turn EXCEPT ![d].state = "over"]
    /\ UNCHANGED <<scope, req, mail, worker, stops, boot, bounds>>

(* The future of the turn ends with an exception or a cancellation         *)
(* (SessionRuntime: Resultless).                                           *)
TurnBreaks(d) ==
    /\ CanSettle(d)
    /\ breaks < MaxBreaks /\ breaks' = breaks + 1
    /\ turn' = [turn EXCEPT ![d].state = "broken"]
    /\ UNCHANGED <<scope, req, mail, worker, stops, boot, crashes, pauses>>

(* An approval interrupts the turn, unless its token is set.  (A cancel    *)
(* that comes after the turn has read its token is in SessionRuntime and   *)
(* left out here.)                                                         *)
TurnPauses(d) ==
    /\ CanSettle(d) /\ ~turn[d].token
    /\ pauses < MaxPauses /\ pauses' = pauses + 1
    /\ turn' = [turn EXCEPT ![d].state = "paused"]
    /\ UNCHANGED <<scope, req, mail, worker, stops, boot, crashes, breaks>>

(* The answer to an approval continues the work as a turn of another id;   *)
(* the user may also drop it.                                              *)
Resume(d) ==
    /\ turn[d].state = "paused"
    /\ turn' = [turn EXCEPT ![d] = [@ EXCEPT !.state = "live", !.linked = FALSE,
                                             !.token = FALSE]]
    /\ UNCHANGED <<scope, req, mail, worker, stops, boot, bounds>>

DropPaused(d) ==
    /\ turn[d].state = "paused"
    /\ turn' = [turn EXCEPT ![d].state = "over"]
    /\ UNCHANGED <<scope, req, mail, worker, stops, boot, bounds>>

(* cancel_turn_ref: a live turn gets its token set, a paused one is over;  *)
(* a repeated cancel does nothing.                                         *)
Cancelled(t) ==
    IF t.state \in {"live", "paused"} /\ ~t.token
    THEN [t EXCEPT !.token = TRUE, !.state = IF @ = "paused" THEN "over" ELSE @]
    ELSE t

-----------------------------------------------------------------------------
(* The dispatcher and the worker of one recipient.                         *)

At(s, pc) == worker[s].pc = pc
Goto(s, pc) == worker' = [worker EXCEPT ![s].pc = pc]
Release(s) == worker' = [worker EXCEPT ![s] = [pc |-> "claim", d |-> 0]]

Oldest(D) == CHOOSE d \in D : \A e \in D : d <= e
Waiting(s) == MailOf(s, Owned) = {} /\ MailOf(s, {"pending"}) # {}

(* _dispatch: recipients without an owned delivery, oldest mail first, as  *)
(* long as there are slots.                                                *)
Dispatch(s) ==
    /\ boot = "up" /\ At(s, "none") /\ Waiting(s)
    /\ Cardinality({t \in Sessions : ~At(t, "none")}) < Workers
    /\ \A t \in Sessions : Waiting(t) /\ At(t, "none") =>
          Oldest(MailOf(s, {"pending"})) <= Oldest(MailOf(t, {"pending"}))
    /\ Goto(s, "claim")
    /\ UNCHANGED <<scope, req, mail, turn, stops, boot, bounds>>

(* claim_next: the oldest delivery, never past one that is still owned.    *)
Claim(s) ==
    /\ At(s, "claim")
    /\ IF Waiting(s)
       THEN LET d == Oldest(MailOf(s, {"pending"})) IN
              /\ mail' = SetState(mail, {d}, "claimed")
              /\ worker' = [worker EXCEPT ![s] = [pc |-> "check", d |-> d]]
       ELSE /\ worker' = [worker EXCEPT ![s] = Idle]
            /\ UNCHANGED mail
    /\ UNCHANGED <<scope, req, turn, stops, boot, bounds>>

\* Faulty: any delivery to the source is taken for a question.
MayStart_ReplyAsQuestion(d, s) ==
    /\ Permits(Of(d), s)
    /\ req[Of(d)].state \in (IF s # Source(Of(d)) THEN {"pending", "working"}
                             ELSE {"waiting_input"})

(* _may_start, on the snapshot that execution_context reads.               *)
MayStart(d, s) ==
    LET r == Of(d) IN
    /\ Permits(r, s)
    /\ req[r].state \in (IF s # Source(r) THEN {"pending", "working"}
                         ELSE IF mail[d].kind = "reply" THEN {"replied"}
                         ELSE {"waiting_input"})

Check(s) ==
    /\ At(s, "check")
    /\ Goto(s, IF MayStart(worker[s].d, s) THEN "start" ELSE "abandon")
    /\ UNCHANGED <<scope, req, mail, turn, stops, boot, bounds>>

(* _abandon reads the delivery; a stopped claim is resolved, another one   *)
(* dropped, in a transaction that follows.                                 *)
Abandon(s) ==
    /\ At(s, "abandon")
    /\ Goto(s, IF mail[worker[s].d].state = "review" THEN "resolve" ELSE "drop")
    /\ UNCHANGED <<scope, req, mail, turn, stops, boot, bounds>>

(* A transition of the delivery from one state, refused (and the refusal   *)
(* suppressed) when it is in another; then the next claim.                 *)
Transition(s, before, after) ==
    LET d == worker[s].d IN
    /\ mail' = IF mail[d].state = before THEN SetState(mail, {d}, after) ELSE mail
    /\ Release(s)
    /\ UNCHANGED <<scope, req, turn, stops, boot, bounds>>

Drop(s) == At(s, "drop") /\ Transition(s, "claimed", "cancelled")
Resolve(s) == At(s, "resolve") /\ Transition(s, "review", "settled")
Settle(s) == At(s, "settle") /\ Transition(s, "running", "settled")

(* ManagerExecutor.start refuses: the project or session is not available, *)
(* or the submission fails; the delivery is held for review.               *)
StartFails(s) == At(s, "start") /\ Transition(s, "claimed", "review")

\* Faulty: a busy session makes the worker forget its claim.
StartBusy_LosesClaim(s) ==
    /\ At(s, "start")
    /\ Release(s)
    /\ UNCHANGED <<scope, req, mail, turn, stops, boot, bounds>>

(* The session is busy, with the user's turn or another one; the claim is  *)
(* kept and tried again after a pause.                                     *)
StartBusy(s) ==
    /\ At(s, "start")
    /\ Goto(s, "check")
    /\ UNCHANGED <<scope, req, mail, turn, stops, boot, bounds>>

StartOk(s) ==
    /\ At(s, "start")
    /\ \A d \in Posted : To(d) = s => turn[d].state \notin {"live", "paused"}
    /\ turn' = [turn EXCEPT ![worker[s].d] =
                  [state |-> "live", linked |-> FALSE, token |-> FALSE,
                   starts |-> @.starts + 1]]
    /\ Goto(s, "link")
    /\ UNCHANGED <<scope, req, mail, stops, boot, bounds>>

(* transition_delivery to RUNNING: the authority on the start.  When it    *)
(* refuses, the worker cancels the turn it has just started.               *)
MayRun(d, s) ==
    LET r == Of(d) IN
    /\ mail[d].state = "claimed"
    /\ Permits(r, s)
    /\ req[r].state = CASE mail[d].kind = "clarification" -> "waiting_input"
                        [] mail[d].kind = "reply" -> "replied"
                        [] OTHER -> "pending"

Link(s) ==
    LET d == worker[s].d
        r == Of(d)
    IN  /\ At(s, "link")
        /\ IF MayRun(d, s)
           THEN /\ mail' = SetState(mail, {d}, "running")
                /\ req' = IF s = req[r].target THEN [req EXCEPT ![r].state = "working"] ELSE req
                /\ turn' = [turn EXCEPT ![d].linked = TRUE]
                /\ Goto(s, "wait")
           ELSE /\ turn' = [turn EXCEPT ![d] = Cancelled(@)]
                /\ Goto(s, "resolve")
                /\ UNCHANGED <<req, mail>>
        /\ UNCHANGED <<scope, stops, boot, bounds>>

(* ManagerExecutor.settled: the turn is over, or broken, or goes on after  *)
(* an approval under another id.                                           *)
WaitOver(s) ==
    /\ At(s, "wait")
    /\ turn[worker[s].d].state = "over"
    /\ Goto(s, "fail")
    /\ UNCHANGED <<scope, req, mail, turn, stops, boot, bounds>>

(* settled raises what the future of the turn raised, and the worker's     *)
(* task ends: nobody waits for the delivery that is running.               *)
WorkerDies(s) ==
    /\ At(s, "wait")
    /\ turn[worker[s].d].state = "broken"
    /\ worker' = [worker EXCEPT ![s] = Idle]
    /\ UNCHANGED <<scope, req, mail, turn, stops, boot, bounds>>

\* Faulty: the resumed turn is linked without asking for permission.
WaitResumed_NoFence(s) ==
    /\ At(s, "wait")
    /\ turn[worker[s].d].state \in {"live", "paused"} /\ ~turn[worker[s].d].linked
    /\ turn' = [turn EXCEPT ![worker[s].d].linked = TRUE]
    /\ UNCHANGED <<scope, req, mail, worker, stops, boot, bounds>>

(* link_resumed_turn records the new id, unless a stop came first: then    *)
(* the turn is cancelled and not waited for.  If it has ended by then,     *)
(* cancel_turn_ref raises NoActiveTurnError, and the worker's task ends.   *)
WaitResumed(s) ==
    LET d == worker[s].d
        allowed == mail[d].state = "running" /\ Permits(Of(d), s)
    IN
    /\ At(s, "wait")
    /\ turn[d].state \in {"live", "paused"} /\ ~turn[d].linked
    /\ \/ /\ allowed
          /\ turn' = [turn EXCEPT ![d].linked = TRUE]
          /\ UNCHANGED <<worker, breaks>>
       \/ /\ ~allowed
          /\ turn' = [turn EXCEPT ![d] = Cancelled(@)]
          /\ Goto(s, "fail")
          /\ UNCHANGED breaks
       \/ /\ ~allowed /\ turn[d].state = "live"
          /\ breaks < MaxBreaks /\ breaks' = breaks + 1
          /\ turn' = [turn EXCEPT ![d].state = "broken"]
          /\ worker' = [worker EXCEPT ![s] = Idle]
    /\ UNCHANGED <<scope, req, mail, stops, boot, crashes, pauses>>

\* Faulty: a settled delivery leaves its request working.
Fail_Never(s) ==
    /\ At(s, "fail")
    /\ Goto(s, "settle")
    /\ UNCHANGED <<scope, req, mail, turn, stops, boot, bounds>>

(* _finish and fail_request: a target that left its request working has    *)
(* failed it; the delivery is settled in the next transaction.             *)
Fail(s) ==
    LET r == Of(worker[s].d) IN
    /\ At(s, "fail")
    /\ IF s = req[r].target /\ req[r].state = "working"
       THEN /\ req' = [req EXCEPT ![r].state = "failed"]
            /\ mail' = SetState(mail, Questions(r), "cancelled")
       ELSE UNCHANGED <<req, mail>>
    /\ Goto(s, "settle")
    /\ UNCHANGED <<scope, turn, stops, boot, bounds>>

\* Faulty: revoked scopes are forgotten.
Sweep_ReceiveOnly(r) ==
    /\ boot = "up"
    /\ req[r].state = "pending"
    /\ scope[req[r].group].state = "receive_only"
    /\ MailAbout(r, Unresolved) = {}
    /\ req' = [req EXCEPT ![r].state = "cancelled"]
    /\ UNCHANGED <<scope, mail, turn, worker, stops, boot, bounds>>

(* _sweep: a request that waits behind a stopped scope, its mail resolved. *)
Sweep(r) ==
    /\ boot = "up"
    /\ req[r].state = "pending"
    /\ scope[req[r].group].state # "active"
    /\ MailAbout(r, Unresolved) = {}
    /\ req' = [req EXCEPT ![r].state = "cancelled"]
    /\ UNCHANGED <<scope, mail, turn, worker, stops, boot, bounds>>

-----------------------------------------------------------------------------
(* Stop commands of the source: first the durable fence, then the cancel.  *)

(* Mail that only waits is cancelled; a claim may have started a turn and  *)
(* is kept for review.                                                     *)
Fenced(F) == [d \in Deliveries |->
    IF d \notin F THEN mail[d]
    ELSE CASE mail[d].state = "pending" -> [mail[d] EXCEPT !.state = "cancelled"]
           [] mail[d].state = "claimed" -> [mail[d] EXCEPT !.state = "review"]
           [] OTHER -> mail[d]]

ScopeEdge(before, after) ==
    <<before, after>> \in {<<"active", "receive_only">>, <<"active", "revoked">>,
                           <<"receive_only", "revoked">>}

RestrictedScopes == {g \in Scopes : scope[g].state \in {"receive_only", "revoked"}}
RestrictedRequests == {r \in Requests : req[r].cont # "active"}

(* stop and restrict_scope.  receive_only fences the replies alone.        *)
StopScope(g, mode) ==
    LET R == {r \in Requests : req[r].state # "none" /\ req[r].group = g}
        F == {d \in Posted : Of(d) \in R /\ (mode = "receive_only" => mail[d].kind = "reply")}
        idle == {r \in R : /\ mode = "revoked" /\ req[r].state = "pending"
                           /\ MailAbout(r, Owned) = {}}
    IN  /\ boot = "up"
        /\ ScopeEdge(scope[g].state, mode)
        /\ Cardinality(RestrictedScopes \ {g}) + Cardinality(RestrictedRequests) < MaxStops
        /\ scope' = [scope EXCEPT ![g].state = mode]
        /\ mail' = Fenced(F)
        /\ req' = SetState(req, idle, "cancelled")
        /\ stops' = stops \cup {[about |-> R, mode |-> mode, targets |-> FALSE]}
        /\ UNCHANGED <<turn, worker, boot, bounds>>

(* stop_assignment and control_request.                                    *)
StopAssignment(r, mode) ==
    LET F == {d \in Posted : Of(d) = r /\ (mode = "receive_only" => To(d) = Source(r))}
        next == IF /\ mode = "revoked"
                   /\ req[r].state \in {"pending", "working", "waiting_input"}
                THEN "cancelled" ELSE req[r].state
    IN  /\ boot = "up"
        /\ req[r].state # "none" /\ ScopeEdge(req[r].cont, mode)
        /\ Cardinality(RestrictedScopes) + Cardinality(RestrictedRequests \ {r}) < MaxStops
        /\ mail' = Fenced(F)
        /\ req' = [req EXCEPT ![r].cont = mode, ![r].state = next]
        /\ stops' = stops \cup {[about |-> {r}, mode |-> mode,
                                 targets |-> mode = "revoked"]}
        /\ UNCHANGED <<scope, turn, worker, boot, bounds>>

(* The turns whose id a running delivery records; another turn that the    *)
(* session runs by now is not touched.                                     *)
CancelRuns(c) ==
    LET D == {d \in Posted : /\ Of(d) \in c.about /\ mail[d].state = "running"
                             /\ turn[d].linked
                             /\ c.targets \/ To(d) = Source(Of(d))}
    IN  /\ c \in stops
        /\ stops' = stops \ {c}
        /\ turn' = [d \in Deliveries |-> IF d \in D THEN Cancelled(turn[d]) ELSE turn[d]]
        /\ UNCHANGED <<scope, req, mail, worker, boot, bounds>>

-----------------------------------------------------------------------------
(* The end of the daemon, by a crash or by a stop that does not wait for   *)
(* its workers, and the startup that follows it.                           *)

Crash ==
    /\ boot # "down"
    /\ crashes < MaxCrashes /\ crashes' = crashes + 1
    /\ boot' = "down"
    /\ worker' = [s \in Sessions |-> Idle]
    /\ stops' = {}
    /\ turn' = SetState(turn, {d \in Deliveries : turn[d].state \in {"live", "paused"}}, "over")
    /\ UNCHANGED <<scope, req, mail, pauses, breaks>>

\* Faulty: interrupted deliveries are queued again.
RecoverUncertain_Replays ==
    /\ boot = "down" /\ boot' = "recovered"
    /\ mail' = SetState(mail, {d \in Deliveries : mail[d].state \in {"claimed", "running"}},
                        "pending")
    /\ UNCHANGED <<scope, req, turn, worker, stops, bounds>>

RecoverUncertain ==
    /\ boot = "down" /\ boot' = "recovered"
    /\ mail' = SetState(mail, {d \in Deliveries : mail[d].state \in {"claimed", "running"}},
                        "review")
    /\ UNCHANGED <<scope, req, turn, worker, stops, bounds>>

(* settle_interrupted: nothing is executed again; a request whose target   *)
(* was interrupted has failed.                                             *)
SettleInterrupted ==
    LET D == {d \in Deliveries : mail[d].state = "review"}
        R == {r \in Requests : /\ req[r].state \in {"pending", "working"}
                               /\ \E d \in D : Of(d) = r /\ To(d) = req[r].target}
    IN  /\ boot = "recovered" /\ boot' = "up"
        /\ mail' = SetState(mail, D, "settled")
        /\ req' = SetState(req, R, "failed")
        /\ UNCHANGED <<scope, turn, worker, stops, bounds>>

-----------------------------------------------------------------------------
Work(s) ==
    \/ Claim(s) \/ Check(s) \/ Abandon(s) \/ Drop(s) \/ Resolve(s) \/ Settle(s)
    \/ StartFails(s) \/ StartBusy(s) \/ StartOk(s) \/ Link(s)
    \/ WaitOver(s) \/ WorkerDies(s) \/ WaitResumed(s) \/ Fail(s)

Next ==
    \/ \E s \in Sessions : \/ Dispatch(s) \/ Work(s)
                           \/ \E g \in Scopes : BeginScope(s, g)
                           \/ \E g \in Scopes, r \in Requests : CreateRequest(g, s, r)
    \/ \E d \in Deliveries : \/ TurnEnds(d) \/ TurnBreaks(d) \/ TurnPauses(d)
                             \/ Resume(d) \/ DropPaused(d)
                             \/ \E kind \in Kinds : Post(d, kind)
    \/ \E mode \in ScopeStates : \/ \E g \in Scopes : StopScope(g, mode)
                                 \/ \E r \in Requests : StopAssignment(r, mode)
    \/ \E r \in Requests : Sweep(r)
    \/ \E c \in stops : CancelRuns(c)
    \/ Crash \/ RecoverUncertain \/ SettleInterrupted

Spec == Init /\ [][Next]_vars

(* Fairness: the workers and the dispatcher run on a loop that is not      *)
(* blocked, a turn comes to its end or to an approval, a command that has  *)
(* fenced goes on to cancel, the daemon is restarted.  A session is not    *)
(* busy at every single attempt to start a turn, hence SF for StartOk.     *)
(* Nobody need answer an approval, send a message or stop anything.        *)
Fairness ==
    /\ WF_vars(\E s \in Sessions : Dispatch(s))
    /\ \A s \in Sessions : WF_vars(Work(s)) /\ SF_vars(StartOk(s))
    /\ \A d \in Deliveries : WF_vars(TurnEnds(d))
    /\ \A r \in Requests : WF_vars(Sweep(r))
    /\ WF_vars(\E c \in stops : CancelRuns(c))
    /\ WF_vars(RecoverUncertain) /\ WF_vars(SettleInterrupted)

FairSpec == Spec /\ Fairness

-----------------------------------------------------------------------------
(* Properties.                                                             *)

WorkerPcs == {"none", "claim", "check", "start", "link", "wait", "fail", "settle",
              "abandon", "drop", "resolve"}

(* Every variable has its type.                                            *)
TypeOK ==
    /\ scope \in [Scopes -> [state : ScopeStates \cup {"none"}, owner : Sessions]]
    /\ req \in [Requests -> [group : Scopes \cup {0}, target : Sessions,
                             state : RequestStates \cup {"none"}, cont : ScopeStates]]
    /\ mail \in [Deliveries -> [of : Requests \cup {0}, kind : Kinds,
                                state : DeliveryStates \cup {"none"}]]
    /\ turn \in [Deliveries -> [state : {"none", "live", "paused", "over", "broken"},
                                linked : BOOLEAN, token : BOOLEAN, starts : Nat]]
    /\ worker \in [Sessions -> [pc : WorkerPcs, d : Deliveries \cup {0}]]
    /\ stops \subseteq [about : SUBSET Requests, mode : ScopeStates, targets : BOOLEAN]
    /\ boot \in {"up", "down", "recovered"}
    /\ crashes \in Nat /\ pauses \in Nat /\ breaks \in Nat

(* The mailboxes as Mailbox sees them.                                     *)
box == [d \in Deliveries |->
          CASE mail[d].state = "none" -> "new"
            [] mail[d].state = "pending" -> "waiting"
            [] mail[d].state \in Owned -> "owned"
            [] OTHER -> "closed"]
to == [d \in Deliveries |-> IF d \in Posted THEN To(d) ELSE CHOOSE s \in Sessions : TRUE]
runs == [d \in Deliveries |-> turn[d].starts]

MailboxOf == INSTANCE Mailbox WITH Messages <- Deliveries, Recipients <- Sessions

(* The deliveries of a session form a FIFO queue with one owner at a time, *)
(* and a delivery is executed at most once: whatever stops, refused links, *)
(* retries, crashes and restarts come between claim_next and settlement.   *)
ImplementsMailbox == MailboxOf!Spec

(* Once a stop command has returned, no turn of what it stopped runs on    *)
(* without its cancel token, except one whose worker has yet to link it    *)
(* and will be refused: the start race and the approval race of            *)
(* coordinator.stop and stop_assignment.                                   *)
Stopped(d) ==
    LET r == Of(d) IN
    req[r].cont = "revoked" \/ (To(d) = Source(r) /\ ~MayContinue(r))

NoRunaway ==
    \A d \in Posted :
        turn[d].state = "live" /\ ~turn[d].token /\ Stopped(d) =>
          \/ \E c \in stops : Of(d) \in c.about /\ (c.targets \/ To(d) = Source(Of(d)))
          \/ /\ ~turn[d].linked
             /\ worker[To(d)].d = d /\ worker[To(d)].pc \in {"link", "wait"}

(* A request that is open has something behind it.  Working: a delivery to *)
(* its target that runs, or is under review until the next startup fails   *)
(* the request.  Pending: mail its target will be given, or a sweep will   *)
(* cancel it.  Waiting for its source: the last question is on its way, or *)
(* it was put to the source, or the source wanted none, or a startup has   *)
(* closed it, interrupted, without failing the request (settle_interrupted *)
(* fails pending and working ones).  In the last three cases the request   *)
(* may stay open for good.                                                 *)
LastQuestion(r, d) ==
    /\ d \in Posted /\ Of(d) = r /\ mail[d].kind = "clarification"
    /\ \A e \in Posted : Of(e) = r /\ mail[e].kind = "clarification" => e <= d

QuestionBacked(r) ==
    \E d \in Deliveries :
        /\ LastQuestion(r, d)
        /\ \/ mail[d].state \in Unresolved
           \/ ~MayContinue(r)
           \/ mail[d].state = "settled" /\ (turn[d].starts = 1 \/ crashes > 0)

RequestBacked ==
    \A r \in Requests :
        /\ req[r].state = "working" =>
             \E d \in MailAbout(r, {"running", "review"}) : To(d) = req[r].target
        /\ req[r].state = "pending" =>
             \/ \E d \in MailAbout(r, Unresolved) : To(d) = req[r].target
             \/ scope[req[r].group].state = "revoked"
        /\ req[r].state = "waiting_input" => QuestionBacked(r)

(* A question to the source whose turn was started, and whose link was     *)
(* refused because its answer or a stop came first: the turn is cancelled, *)
(* and nobody resolves the claim.                                          *)
Refused(d) ==
    mail[d].kind = "clarification" /\ turn[d].starts = 1 /\ turn[d].token

(* While the daemon is up, a running delivery is being waited for, or its  *)
(* turn broke and took the worker along; a claimed one is held by the      *)
(* worker that will start or release it, or it is a refused question.      *)
(* What nobody attends blocks its mailbox until the next startup.          *)
OwnerAttended ==
    boot = "up" =>
      \A d \in Posted :
        /\ mail[d].state = "running" => worker[To(d)].d = d \/ turn[d].state = "broken"
        /\ mail[d].state = "claimed" => worker[To(d)].d = d \/ Refused(d)

(* A reply is given to its source: the step that closes one which has not  *)
(* been running there is taken because the source restricted its scope or  *)
(* request, or it is the startup that closes, and never repeats, what a    *)
(* failed start or a crash has left under review.                          *)
Closed(d) == mail[d].state \in {"settled", "cancelled"}

ReplyNotLost ==
    [][\A d \in Deliveries :
          Closed(d)' /\ mail'[d].kind = "reply" /\ ~Closed(d) /\ mail[d].state # "running" =>
              \/ ~MayContinue(Of(d))'
              \/ boot = "recovered" /\ mail[d].state = "review"]_vars

(* However long the two sessions talk, an open request has room for one    *)
(* more message: the reply (MAX_MESSAGES in _append).                      *)
ReplyHasRoom ==
    \A r \in Requests : req[r].state \in {"pending", "working", "waiting_input"}
                          => Cardinality(MailAbout(r, DeliveryStates)) < MaxMessages

(* A request that is with its target gets out of the target's mailbox: it  *)
(* is answered, questioned, failed or cancelled, unless one of the two     *)
(* sessions is held up by a delivery under review, an approval nobody      *)
(* answers or a delivery that nobody attends (OwnerAttended); a review at  *)
(* the source keeps the sweep from closing a stopped request.              *)
HeldUp(s) ==
    \E d \in MailOf(s, Owned) :
        \/ mail[d].state = "review" \/ turn[d].state = "paused"
        \/ mail[d].state \in {"claimed", "running"} /\ worker[s].d # d

RequestsMoveOn ==
    \A r \in Requests :
        req[r].state \in {"pending", "working"} ~>
            \/ req[r].state \notin {"pending", "working"}
            \/ HeldUp(req[r].target) \/ HeldUp(Source(r))

=============================================================================
