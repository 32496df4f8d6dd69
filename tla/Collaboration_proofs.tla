------------------------ MODULE Collaboration_proofs ------------------------
(***************************************************************************)
(* Theorems about collaborating sessions, for every set of sessions, any   *)
(* number of scopes, requests and messages, and every capacity.            *)
(***************************************************************************)
EXTENDS Collaboration, FiniteSetTheorems, WellFoundedInduction, TLAPS

USE CollaborationAssumption

ScopeType == [Scopes -> [state : ScopeStates \cup {"none"}, owner : Sessions]]
ReqType == [Requests -> [group : Scopes \cup {0}, target : Sessions,
                         state : RequestStates \cup {"none"}, cont : ScopeStates]]
MailType == [Deliveries -> [of : Requests \cup {0}, kind : Kinds,
                            state : DeliveryStates \cup {"none"}]]
TurnType == [Deliveries -> [state : {"none", "live", "paused", "over", "broken"},
                            linked : BOOLEAN, token : BOOLEAN, starts : Nat]]
WorkerType == [Sessions -> [pc : WorkerPcs, d : Deliveries \cup {0}]]

-----------------------------------------------------------------------------
(* What the assignments of the actions do, field by field.                 *)

\* The deliveries D are in state st now, the others are what they were.
Marked(D, st) ==
    /\ mail' \in MailType
    /\ \A d \in Deliveries : /\ mail'[d].of = mail[d].of
                             /\ mail'[d].kind = mail[d].kind
                             /\ d \in D => mail'[d].state = st
                             /\ d \notin D => mail'[d].state = mail[d].state

\* So are the requests R.
Moved(R, st) ==
    /\ req' \in ReqType
    /\ \A r \in Requests : /\ req'[r].group = req[r].group
                           /\ req'[r].target = req[r].target
                           /\ req'[r].cont = req[r].cont
                           /\ r \in R => req'[r].state = st
                           /\ r \notin R => req'[r].state = req[r].state

\* The worker of s is at pc now, with d.
WorkerNow(s, pc, d) ==
    /\ worker' \in WorkerType
    /\ worker'[s].pc = pc /\ worker'[s].d = d
    /\ \A t \in Sessions : t # s => worker'[t] = worker[t]

\* The turn of d, and no other one, is changed.
TurnNow(d, state, linked, token, starts) ==
    /\ turn' \in TurnType
    /\ turn'[d].state = state /\ turn'[d].linked = linked
    /\ turn'[d].token = token /\ turn'[d].starts = starts
    /\ \A e \in Deliveries : e # d => turn'[e] = turn[e]

\* SetState marks deliveries.
LEMMA SetMail ==
  ASSUME TypeOK, NEW D, NEW st \in DeliveryStates, mail' = SetState(mail, D, st)
  PROVE  Marked(D, st)
<1>1. mail \in MailType
  BY DEF TypeOK, MailType
<1>2. /\ DOMAIN mail = Deliveries
      /\ \A d \in Deliveries :
           mail[d] \in [of : Requests \cup {0}, kind : Kinds,
                        state : DeliveryStates \cup {"none"}]
  BY <1>1 DEF MailType
<1>3. \A d \in Deliveries :
        mail'[d] = IF d \in D THEN [mail[d] EXCEPT !.state = st] ELSE mail[d]
  BY <1>2 DEF SetState
<1>4. mail' \in MailType
  BY <1>2 DEF SetState, MailType
<1> QED BY <1>2, <1>3, <1>4 DEF Marked

\* It takes requests further.
LEMMA SetReq ==
  ASSUME TypeOK, NEW R, NEW st \in RequestStates, req' = SetState(req, R, st)
  PROVE  Moved(R, st)
<1>1. req \in ReqType
  BY DEF TypeOK, ReqType
<1>2. /\ DOMAIN req = Requests
      /\ \A r \in Requests :
           req[r] \in [group : Scopes \cup {0}, target : Sessions,
                       state : RequestStates \cup {"none"}, cont : ScopeStates]
  BY <1>1 DEF ReqType
<1>3. \A r \in Requests :
        req'[r] = IF r \in R THEN [req[r] EXCEPT !.state = st] ELSE req[r]
  BY <1>2 DEF SetState
<1>4. req' \in ReqType
  BY <1>2 DEF SetState, ReqType
<1> QED BY <1>2, <1>3, <1>4 DEF Moved

\* So does the update of one request.
LEMMA OneReq ==
  ASSUME TypeOK, NEW r \in Requests, NEW st \in RequestStates,
         req' = [req EXCEPT ![r].state = st]
  PROVE  Moved({r}, st)
BY SMTT(40) DEF TypeOK, Moved, ReqType

\* A worker goes to another place with its delivery.
LEMMA WorkerGoes ==
  ASSUME TypeOK, NEW s \in Sessions, NEW pc \in WorkerPcs, Goto(s, pc)
  PROVE  WorkerNow(s, pc, worker[s].d)
<1>1. worker \in WorkerType
  BY DEF TypeOK, WorkerType
<1>2. worker' = [worker EXCEPT ![s] = [worker[s] EXCEPT !.pc = pc]]
  BY DEF Goto
<1>3. [worker[s] EXCEPT !.pc = pc] = [pc |-> pc, d |-> worker[s].d]
  BY <1>1 DEF WorkerType
<1>4. worker' = [worker EXCEPT ![s] = [pc |-> pc, d |-> worker[s].d]]
  BY <1>2, <1>3
<1>5. [pc |-> pc, d |-> worker[s].d] \in [pc : WorkerPcs, d : Deliveries \cup {0}]
  BY <1>1 DEF WorkerType
<1> QED BY <1>1, <1>4, <1>5 DEF WorkerNow, WorkerType

\* A worker lets its delivery go, for the next claim.
LEMMA WorkerReleases ==
  ASSUME TypeOK, NEW s \in Sessions, Release(s)
  PROVE  WorkerNow(s, "claim", 0)
BY DEF TypeOK, Release, WorkerNow, WorkerType, WorkerPcs

\* cancel_turn_ref sets the token of a turn that goes on, and drops one that waits
\* for an approval.
CancelledTurn(t, u) ==
    /\ u.linked = t.linked /\ u.starts = t.starts
    /\ u = t \/ (u.state \in {t.state, "over"} /\ u.state # "paused")
    /\ t.state \notin {"live", "paused"} => u = t
    /\ t.state = "live" => u.state = "live"
    /\ t.token => u = t
    /\ u.token \/ u = t
    /\ t.state \in {"live", "paused"} => u.token

\* A cancelled turn is over or was not there, and keeps its type.
LEMMA CancelTurn ==
  ASSUME NEW t \in [state : {"none", "live", "paused", "over", "broken"},
                    linked : BOOLEAN, token : BOOLEAN, starts : Nat]
  PROVE  /\ Cancelled(t) \in [state : {"none", "live", "paused", "over", "broken"},
                              linked : BOOLEAN, token : BOOLEAN, starts : Nat]
         /\ CancelledTurn(t, Cancelled(t))
BY DEF Cancelled, CancelledTurn
-----------------------------------------------------------------------------
(* A new message.                                                          *)

\* Messages are numbered in the order in which they are posted, and belong to a
\* request between two different sessions.
Addressed ==
    /\ \E n \in 0 .. MaxDeliveries : Posted = 1 .. n
    /\ \A d \in Posted : Of(d) \in Requests /\ req[Of(d)].state # "none"
    /\ \A r \in Requests : req[r].state # "none" =>
          /\ req[r].group \in Scopes /\ scope[req[r].group].state # "none"
          /\ req[r].target # Source(r)

\* Message d of request r is posted behind all others, and the deliveries C retire.
NewMessage(d, r, kind, st, C) ==
    /\ mail' \in MailType
    /\ \A e \in Deliveries : e < d <=> e \in Posted
    /\ mail'[d].of = r /\ mail'[d].kind = kind /\ mail'[d].state = st
    /\ \A e \in Deliveries : e # d => /\ mail'[e].of = mail[e].of
                                      /\ mail'[e].kind = mail[e].kind
                                      /\ e \in C => mail'[e].state = "cancelled"
                                      /\ e \notin C => mail'[e].state = mail[e].state

\* The state of the delivery of a new message.
FirstState(kind, executable) ==
    IF executable THEN "pending" ELSE IF kind = "progress" THEN "settled" ELSE "cancelled"

\* _append_message stores one new message, and retires what it replaces.
LEMMA AppendPosts ==
  ASSUME TypeOK, Addressed, NEW r \in Requests, NEW kind \in Kinds, NEW s,
         NEW executable \in BOOLEAN, NEW C \in SUBSET Posted, Append(r, kind, s, executable, C)
  PROVE  \E d \in Deliveries : NewMessage(d, r, kind, FirstState(kind, executable), C)
<1> DEFINE d == Cardinality(Posted) + 1
<1> DEFINE st == FirstState(kind, executable)
<1>1. PICK n \in 0 .. MaxDeliveries : Posted = 1 .. n
  BY DEF Addressed
<1>2. n \in Nat
  BY <1>1 DEF CollaborationAssumption
<1>3. Cardinality(Posted) = n
  <2>1. Cardinality(1 .. n) = IF 1 > n THEN 0 ELSE n - 1 + 1
    BY <1>2, FS_Interval
  <2> QED BY <1>1, <1>2, <2>1
<1>4. d \in Deliveries
  BY DEF Append
<1>5. mail' = [SetState(mail, C, "cancelled") EXCEPT
                 ![d] = [of |-> r, kind |-> kind, state |-> st]]
  BY DEF Append, FirstState
<1>6. \A e \in Deliveries : e < d <=> e \in Posted
  BY <1>1, <1>2, <1>3 DEF Deliveries
<1> HIDE DEF d
<1>7. st \in DeliveryStates
  BY DEF FirstState, DeliveryStates, Unresolved, Owned
<1> HIDE DEF st
<1>8. /\ DOMAIN mail = Deliveries
      /\ \A e \in Deliveries :
           mail[e] \in [of : Requests \cup {0}, kind : Kinds,
                        state : DeliveryStates \cup {"none"}]
  BY DEF TypeOK
<1> DEFINE f == SetState(mail, C, "cancelled")
<1>9. /\ DOMAIN f = Deliveries
      /\ \A e \in Deliveries :
           f[e] = IF e \in C THEN [mail[e] EXCEPT !.state = "cancelled"] ELSE mail[e]
  BY <1>8 DEF SetState
<1>10. \A e \in Deliveries :
         f[e] \in [of : Requests \cup {0}, kind : Kinds, state : DeliveryStates \cup {"none"}]
  BY <1>8, <1>9, ZenonT(40) DEF DeliveryStates
<1>11. f = [e \in Deliveries |-> f[e]]
  BY DEF SetState, TypeOK
<1> HIDE DEF f
<1>12. /\ mail'[d] = [of |-> r, kind |-> kind, state |-> st]
       /\ \A e \in Deliveries : e # d => mail'[e] = f[e]
  BY <1>4, <1>5, <1>9 DEF f
<1>13. mail' \in MailType
  BY <1>4, <1>5, <1>7, <1>10, <1>11 DEF f, MailType
<1>14. NewMessage(d, r, kind, st, C)
  BY <1>6, <1>8, <1>9, <1>12, <1>13 DEF NewMessage
<1> QED BY <1>4, <1>14 DEF st
\* A fence cancels what waits and holds for review what is claimed.
FencedNow(F) ==
    /\ mail' \in MailType
    /\ \A d \in Deliveries :
         /\ mail'[d].of = mail[d].of /\ mail'[d].kind = mail[d].kind
         /\ d \in F /\ mail[d].state = "pending" => mail'[d].state = "cancelled"
         /\ d \in F /\ mail[d].state = "claimed" => mail'[d].state = "review"
         /\ d \notin F \/ mail[d].state \notin {"pending", "claimed"} =>
               mail'[d].state = mail[d].state

\* Fenced does that.
LEMMA FenceMail ==
  ASSUME TypeOK, NEW F, mail' = Fenced(F)
  PROVE  FencedNow(F)
<1>1. \A d \in Deliveries :
        mail[d] \in [of : Requests \cup {0}, kind : Kinds,
                     state : DeliveryStates \cup {"none"}]
  BY DEF TypeOK
<1>2. \A d \in Deliveries :
        mail'[d] = IF d \notin F THEN mail[d]
                   ELSE CASE mail[d].state = "pending" -> [mail[d] EXCEPT !.state = "cancelled"]
                          [] mail[d].state = "claimed" -> [mail[d] EXCEPT !.state = "review"]
                          [] OTHER -> mail[d]
  BY DEF Fenced
<1>3. \A d \in Deliveries :
        mail'[d] \in [of : Requests \cup {0}, kind : Kinds,
                      state : DeliveryStates \cup {"none"}]
  <2>1. {"cancelled", "review"} \subseteq DeliveryStates
    BY DEF DeliveryStates, Unresolved, Owned
  <2>2. ASSUME NEW d \in Deliveries
        PROVE  mail'[d] \in [of : Requests \cup {0}, kind : Kinds,
                             state : DeliveryStates \cup {"none"}]
    <3>1. mail'[d] = mail[d] \/ mail'[d] = [mail[d] EXCEPT !.state = "cancelled"]
            \/ mail'[d] = [mail[d] EXCEPT !.state = "review"]
      BY <1>2, <2>2
    <3> QED BY <1>1, <2>1, <2>2, <3>1
  <2> QED BY <2>2
<1>4. mail' \in MailType
  BY <1>3 DEF Fenced, MailType
<1> QED BY <1>1, <1>2, <1>4 DEF FencedNow

\* The oldest of some deliveries is one of them, and precedes the others.
LEMMA OldestIsFirst ==
  ASSUME NEW D \in SUBSET Deliveries, D # {}
  PROVE  Oldest(D) \in D /\ \A e \in D : Oldest(D) <= e
<1>1. D \subseteq Nat
  BY DEF Deliveries
<1> DEFINE Under == {ss \in Nat \X Nat : ss[1] < ss[2]}
<1>2. IsWellFoundedOn(Under, Nat)
  BY NatLessThanWellFounded, Zenon DEF OpToRel
<1> HIDE DEF Under
<1>3. PICK m \in D : \A e \in D : ~(<<e, m>> \in Under)
  BY <1>1, <1>2, WFMin
<1>4. \A e \in D : m <= e
  <2>1. ASSUME NEW e \in D PROVE m <= e
    <3>1. e \in Nat /\ m \in Nat
      BY <1>1
    <3>2. ~(e < m)
      BY <1>3, <3>1 DEF Under
    <3> QED BY <3>1, <3>2
  <2> QED BY <2>1
<1> QED BY <1>4 DEF Oldest
-----------------------------------------------------------------------------
(* The mailboxes.                                                          *)

\* The worker of s holds the delivery that s owns, and knows how far it is.
Held(s) ==
    LET pc == worker[s].pc
        d == worker[s].d
    IN  /\ pc \in {"none", "claim"} <=> d = 0
        /\ d # 0 => d \in Posted /\ To(d) = s
        /\ pc \in {"check", "start", "abandon", "drop"} =>
              /\ mail[d].state \in {"claimed", "review"}
              /\ turn[d].state = "none" /\ turn[d].starts = 0
        /\ pc \in {"link", "resolve"} => mail[d].state \in {"claimed", "review"}
        /\ pc = "link" => turn[d].starts = 1
        /\ pc \in {"wait", "fail", "settle"} => mail[d].state = "running"

\* A delivery that nobody has claimed has no turn.
NotYetStarted ==
    \A d \in Deliveries : mail[d].state \in {"none", "pending"} =>
        turn[d].state = "none" /\ turn[d].starts = 0

\* A mailbox has one owned delivery at most.
OneOwner ==
    \A d, e \in Posted :
        mail[d].state \in Owned /\ mail[e].state \in Owned /\ To(d) = To(e) => d = e

\* A daemon that is not up has no workers.
NoWorkers == boot # "up" => \A s \in Sessions : worker[s].pc = "none"

MailInv ==
    /\ TypeOK /\ Addressed /\ NotYetStarted /\ OneOwner /\ NoWorkers
    /\ \A s \in Sessions : Held(s)

\* Requests and scopes keep what deliveries are addressed by.
RequestStays(r) ==
    /\ req'[r].group = req[r].group /\ req'[r].target = req[r].target
    /\ req'[r].state = "none" <=> req[r].state = "none"

ScopeStays(g) ==
    scope[g].state # "none" => scope'[g].owner = scope[g].owner /\ scope'[g].state # "none"

\* A step that neither posts, claims nor starts anything: it may resolve deliveries
\* and hold claimed ones for review.
Progresses(d) ==
    /\ mail'[d].of = mail[d].of /\ mail'[d].kind = mail[d].kind
    /\ \/ mail'[d].state = mail[d].state
       \/ mail[d].state \in Unresolved /\ mail'[d].state \in {"settled", "cancelled"}
       \/ mail[d].state \in Owned /\ mail'[d].state \in Owned
    /\ turn'[d].starts = turn[d].starts
    /\ turn'[d].state = "none" <=> turn[d].state = "none"

Routine ==
    /\ \A d \in Deliveries : Progresses(d)
    /\ \A r \in Requests : RequestStays(r)
    /\ \A g \in Scopes : ScopeStays(g)

\* Whatever is posted keeps its recipient, and its request.
AddressKept ==
    \A d \in Posted : d \in Posted' /\ To(d)' = To(d) /\ Of(d)' = Of(d)

\* Messages keep their addressees while requests and scopes keep theirs.
LEMMA StaysAddressed ==
  ASSUME TypeOK, Addressed,
         \A d \in Posted : /\ mail'[d].of = mail[d].of /\ mail'[d].kind = mail[d].kind
                           /\ mail'[d].state # "none",
         \A r \in Requests : req[r].state # "none" =>
             req'[r].group = req[r].group /\ req'[r].target = req[r].target,
         \A g \in Scopes : ScopeStays(g)
  PROVE  AddressKept
<1>1. ASSUME NEW d \in Posted
      PROVE  d \in Posted' /\ To(d)' = To(d) /\ Of(d)' = Of(d)
  <2>1. d \in Deliveries /\ Of(d) \in Requests /\ req[Of(d)].state # "none"
    BY <1>1 DEF Addressed, Posted
  <2>2. d \in Posted' /\ Of(d)' = Of(d) /\ mail'[d].kind = mail[d].kind
    BY <1>1, <2>1 DEF Posted, Of
  <2>3. /\ req'[Of(d)].group = req[Of(d)].group /\ req'[Of(d)].target = req[Of(d)].target
        /\ req[Of(d)].group \in Scopes /\ scope[req[Of(d)].group].state # "none"
    BY <2>1 DEF Addressed
  <2>4. Source(Of(d))' = Source(Of(d))
    BY <2>2, <2>3 DEF Source, ScopeStays
  <2> QED BY <2>2, <2>3, <2>4 DEF To, Recipient
<1> QED BY <1>1 DEF AddressKept

\* What a routine step does to the mailboxes.
LEMMA RoutineKeepsAddresses ==
  ASSUME MailInv, TypeOK', Routine
  PROVE  /\ Posted' = Posted
         /\ AddressKept
         /\ Addressed'
<1>1. \A d \in Deliveries : Progresses(d)
  BY DEF Routine
<1>2. \A d \in Deliveries : mail'[d].state = "none" <=> mail[d].state = "none"
  BY <1>1 DEF Progresses, Unresolved, Owned
<1>3. Posted' = Posted
  BY <1>2 DEF Posted
<1>4. AddressKept
  <2>1. TypeOK /\ Addressed
    BY DEF MailInv
  <2>2. \A d \in Posted : /\ mail'[d].of = mail[d].of /\ mail'[d].kind = mail[d].kind
                          /\ mail'[d].state # "none"
    BY <1>1, <1>2 DEF Posted, Progresses
  <2>3. /\ \A r \in Requests : req[r].state # "none" =>
             req'[r].group = req[r].group /\ req'[r].target = req[r].target
        /\ \A g \in Scopes : ScopeStays(g)
    BY DEF Routine, RequestStays
  <2> QED BY ONLY <2>1, <2>2, <2>3, StaysAddressed
<1>5. Addressed'
  <2>1. \E n \in 0 .. MaxDeliveries : Posted' = 1 .. n
    BY <1>3 DEF MailInv, Addressed
  <2>2. \A d \in Posted' : Of(d)' \in Requests /\ req'[Of(d)'].state # "none"
    <3>1. ASSUME NEW d \in Posted'
          PROVE  Of(d)' \in Requests /\ req'[Of(d)'].state # "none"
      <4>1. d \in Posted /\ Of(d)' = Of(d) /\ Of(d) \in Requests /\ req[Of(d)].state # "none"
        BY <1>3, <1>4, <3>1 DEF MailInv, Addressed, AddressKept
      <4> QED BY <4>1 DEF Routine, RequestStays
    <3> QED BY <3>1
  <2>3. ASSUME NEW r \in Requests, req'[r].state # "none"
        PROVE  /\ req'[r].group \in Scopes /\ scope'[req'[r].group].state # "none"
               /\ req'[r].target # Source(r)'
    <3>1. /\ req[r].state # "none" /\ req'[r].group = req[r].group
          /\ req'[r].target = req[r].target
      BY <2>3 DEF Routine, RequestStays
    <3>2. /\ req[r].group \in Scopes /\ scope[req[r].group].state # "none"
          /\ req[r].target # Source(r)
      BY <3>1 DEF MailInv, Addressed
    <3> QED BY <3>1, <3>2 DEF Routine, ScopeStays, Source
  <2> QED BY <2>1, <2>2, <2>3 DEF Addressed
<1> QED BY <1>3, <1>4, <1>5
-----------------------------------------------------------------------------
(* What the steps of a worker do.                                          *)

\* The types, by the names that the effects use.
LEMMA TypesByName ==
  TypeOK <=> /\ scope \in ScopeType /\ req \in ReqType /\ mail \in MailType
             /\ turn \in TurnType /\ worker \in WorkerType
             /\ stops \subseteq [about : SUBSET Requests, mode : ScopeStates,
                                 targets : BOOLEAN]
             /\ boot \in {"up", "down", "recovered"}
             /\ crashes \in Nat /\ pauses \in Nat /\ breaks \in Nat
BY DEF TypeOK, ScopeType, ReqType, MailType, TurnType, WorkerType

Still == UNCHANGED <<scope, stops, boot, crashes, pauses>> /\ breaks' \in {breaks, breaks + 1}

\* The worker of s claims the oldest delivery of its mailbox, which owns none.
Claims(s, d) ==
    /\ d \in Posted /\ To(d) = s /\ mail[d].state = "pending"
    /\ \A e \in Posted : To(e) = s => /\ mail[e].state \notin Owned
                                      /\ mail[e].state = "pending" => d <= e
    /\ Marked({d}, "claimed") /\ WorkerNow(s, "check", d)
    /\ UNCHANGED <<req, turn>>

\* A worker that looks for work claims a message, or goes away.
LEMMA ClaimDoes ==
  ASSUME MailInv, NEW s \in Sessions, Claim(s)
  PROVE  /\ Still
         /\ \/ \E d \in Deliveries : Claims(s, d)
            \/ WorkerNow(s, "none", 0) /\ UNCHANGED <<mail, req, turn>>
<1>1. Still /\ UNCHANGED <<req, turn>>
  BY DEF Claim, Still, bounds
<1>2. TypeOK
  BY DEF MailInv
<1>3. CASE Waiting(s)
  <2> DEFINE D == MailOf(s, {"pending"})
             d == Oldest(D)
  <2>1. D \in SUBSET Deliveries /\ D # {}
    BY <1>3 DEF Waiting, MailOf, Posted
  <2> HIDE DEF D
  <2>2. d \in D /\ \A e \in D : d <= e
    BY <2>1, OldestIsFirst
  <2>3. mail' = SetState(mail, {d}, "claimed")
    BY <1>3 DEF Claim, D
  <2>4. worker' = [worker EXCEPT ![s] = [pc |-> "check", d |-> d]]
    BY <1>3 DEF Claim, D
  <2> HIDE DEF d
  <2>5. Marked({d}, "claimed")
    BY <1>2, <2>3, SetMail DEF DeliveryStates, Unresolved, Owned
  <2>6. d \in Deliveries
    BY <2>1, <2>2
  <2>7. WorkerNow(s, "check", d)
    BY <1>2, <2>4, <2>6 DEF TypeOK, WorkerNow, WorkerType, WorkerPcs
  <2>8. d \in Posted /\ To(d) = s /\ mail[d].state = "pending"
    BY <2>2 DEF D, MailOf
  <2>9. \A e \in Posted : To(e) = s => /\ mail[e].state \notin Owned
                                       /\ mail[e].state = "pending" => d <= e
    BY <1>3, <2>2 DEF D, Waiting, MailOf
  <2> QED BY <1>1, <2>5, <2>6, <2>7, <2>8, <2>9 DEF Claims
<1>4. CASE ~Waiting(s)
  <2>1. worker' = [worker EXCEPT ![s] = [pc |-> "none", d |-> 0]]
    BY <1>4 DEF Claim, Idle
  <2>2. WorkerNow(s, "none", 0)
    BY <1>2, <2>1 DEF TypeOK, WorkerNow, WorkerType, WorkerPcs
  <2> QED BY <1>1, <1>4, <2>2 DEF Claim
<1> QED BY <1>3, <1>4

\* The delivery that a worker holds.
LEMMA HeldDelivery ==
  ASSUME MailInv, NEW s \in Sessions, worker[s].pc \notin {"none", "claim"}
  PROVE  worker[s].d \in Posted /\ worker[s].d \in Deliveries /\ To(worker[s].d) = s
BY DEF MailInv, Held, Posted

\* The worker of s resolves its delivery, if that is still in the state before.
Leaves(s, before, after) ==
    /\ WorkerNow(s, "claim", 0)
    /\ \/ mail[worker[s].d].state = before /\ Marked({worker[s].d}, after)
       \/ mail[worker[s].d].state # before /\ UNCHANGED mail
    /\ UNCHANGED <<req, turn>>

\* A worker's last transaction moves its message on, if it is still where it was.
LEMMA TransitionDoes ==
  ASSUME MailInv, NEW s \in Sessions, NEW before, NEW after \in DeliveryStates,
         Transition(s, before, after)
  PROVE  Still /\ Leaves(s, before, after)
<1>1. TypeOK
  BY DEF MailInv
<1>2. Still /\ UNCHANGED <<req, turn>> /\ Release(s)
  BY DEF Transition, Still, bounds
<1>3. WorkerNow(s, "claim", 0)
  BY <1>1, <1>2, WorkerReleases
<1>4. \/ mail[worker[s].d].state = before /\ Marked({worker[s].d}, after)
      \/ mail[worker[s].d].state # before /\ UNCHANGED mail
  BY <1>1, SetMail DEF Transition
<1> QED BY <1>2, <1>3, <1>4 DEF Leaves

\* A worker goes on, and changes nothing else.
Moves(s, pc) == WorkerNow(s, pc, worker[s].d) /\ UNCHANGED <<mail, req, turn>>

\* The worker's steps that change no row of the store.
LEMMA MovesDo ==
  ASSUME MailInv, NEW s \in Sessions
  PROVE  /\ Check(s) => Still /\ (Moves(s, "start") \/ Moves(s, "abandon"))
         /\ Abandon(s) => Still /\ (Moves(s, "resolve") \/ Moves(s, "drop"))
         /\ StartBusy(s) => Still /\ Moves(s, "check")
         /\ WaitOver(s) => Still /\ Moves(s, "fail")
         /\ Dispatch(s) => Still /\ Moves(s, "claim")
<1>1. TypeOK
  BY DEF MailInv
<1>2. \A pc \in WorkerPcs : Goto(s, pc) => WorkerNow(s, pc, worker[s].d)
  BY <1>1, WorkerGoes
<1>3. {"start", "abandon", "resolve", "drop", "check", "fail", "claim"} \subseteq WorkerPcs
  BY DEF WorkerPcs
<1> QED BY <1>2, <1>3 DEF Check, Abandon, StartBusy, WaitOver, Dispatch, Still, Moves, bounds
StartOkDoes(s) ==
    /\ WorkerNow(s, "link", worker[s].d)
    /\ TurnNow(worker[s].d, "live", FALSE, FALSE, 1)
    /\ \A d \in Posted : To(d) = s => turn[d].state \notin {"live", "paused"}
    /\ UNCHANGED <<mail, req>>

\* The worker starts a turn for its message.
LEMMA StartOkStarts ==
  ASSUME MailInv, NEW s \in Sessions, StartOk(s)
  PROVE  Still /\ StartOkDoes(s)
<1> DEFINE d == worker[s].d
<1>1. TypeOK /\ worker[s].pc = "start" /\ Held(s)
  BY DEF MailInv, StartOk, At
<1>2. d \in Deliveries
  BY <1>1, HeldDelivery
<1>3. turn[d].starts = 0
  BY <1>1 DEF Held
<1> HIDE DEF d
<1>4. turn' = [turn EXCEPT ![d] = [state |-> "live", linked |-> FALSE, token |-> FALSE,
                                   starts |-> 1]]
  BY <1>2, <1>3 DEF StartOk, TypeOK, d
<1>5. TurnNow(d, "live", FALSE, FALSE, 1)
  BY <1>1, <1>2, <1>4 DEF TypeOK, TurnNow, TurnType
<1>6. WorkerNow(s, "link", d)
  BY <1>1, WorkerGoes DEF StartOk, WorkerPcs, d
<1> QED BY <1>5, <1>6 DEF StartOk, Still, StartOkDoes, bounds, d

\* One turn may be cancelled.
MayCancel(d) ==
    /\ turn' \in TurnType
    /\ CancelledTurn(turn[d], turn'[d])
    /\ \A e \in Deliveries : e # d => turn'[e] = turn[e]

\* Cancelling the turn of a message changes no other turn.
LEMMA CancelOne ==
  ASSUME TypeOK, NEW d \in Deliveries, turn' = [turn EXCEPT ![d] = Cancelled(@)]
  PROVE  MayCancel(d)
<1>1. /\ turn \in TurnType
      /\ turn[d] \in [state : {"none", "live", "paused", "over", "broken"},
                      linked : BOOLEAN, token : BOOLEAN, starts : Nat]
  BY DEF TypeOK, TurnType
<1>2. /\ Cancelled(turn[d]) \in [state : {"none", "live", "paused", "over", "broken"},
                                 linked : BOOLEAN, token : BOOLEAN, starts : Nat]
      /\ CancelledTurn(turn[d], Cancelled(turn[d]))
  BY <1>1, CancelTurn
<1>3. turn'[d] = Cancelled(turn[d]) /\ \A e \in Deliveries : e # d => turn'[e] = turn[e]
  BY <1>1 DEF TurnType
<1>4. turn' \in TurnType
  BY <1>1, <1>2 DEF TurnType
<1> QED BY <1>2, <1>3, <1>4 DEF MayCancel

\* A turn is linked to its delivery.
LEMMA LinkTurn ==
  ASSUME TypeOK, NEW d \in Deliveries, turn' = [turn EXCEPT ![d].linked = TRUE]
  PROVE  TurnNow(d, turn[d].state, TRUE, turn[d].token, turn[d].starts)
<1>1. turn \in TurnType
  BY DEF TypeOK, TurnType
<1>2. turn[d] \in [state : {"none", "live", "paused", "over", "broken"},
                  linked : BOOLEAN, token : BOOLEAN, starts : Nat]
  BY <1>1 DEF TurnType
<1>3. turn'[d] = [turn[d] EXCEPT !.linked = TRUE]
  BY <1>1 DEF TurnType
<1>4. /\ turn'[d].state = turn[d].state /\ turn'[d].linked = TRUE
      /\ turn'[d].token = turn[d].token /\ turn'[d].starts = turn[d].starts
  BY <1>2, <1>3
<1>5. turn' \in TurnType /\ \A e \in Deliveries : e # d => turn'[e] = turn[e]
  <2>1. [turn[d] EXCEPT !.linked = TRUE]
          \in [state : {"none", "live", "paused", "over", "broken"},
               linked : BOOLEAN, token : BOOLEAN, starts : Nat]
    BY <1>2
  <2> QED BY <1>1, <2>1 DEF TurnType
<1> QED BY <1>4, <1>5 DEF TurnNow

\* A change of a turn's state leaves the rest of it alone.
LEMMA TurnGoes ==
  ASSUME TypeOK, NEW d \in Deliveries, NEW st \in {"live", "paused", "over", "broken"},
         turn' = [turn EXCEPT ![d].state = st]
  PROVE  TurnNow(d, st, turn[d].linked, turn[d].token, turn[d].starts)
<1>1. turn \in TurnType
  BY DEF TypeOK, TurnType
<1>2. turn[d] \in [state : {"none", "live", "paused", "over", "broken"},
                  linked : BOOLEAN, token : BOOLEAN, starts : Nat]
  BY <1>1 DEF TurnType
<1>3. turn'[d] = [turn[d] EXCEPT !.state = st]
  BY <1>1 DEF TurnType
<1>4. /\ turn'[d].state = st /\ turn'[d].linked = turn[d].linked
      /\ turn'[d].token = turn[d].token /\ turn'[d].starts = turn[d].starts
  BY <1>2, <1>3
<1>5. turn' \in TurnType /\ \A e \in Deliveries : e # d => turn'[e] = turn[e]
  <2>1. [turn[d] EXCEPT !.state = st]
          \in [state : {"none", "live", "paused", "over", "broken"},
               linked : BOOLEAN, token : BOOLEAN, starts : Nat]
    BY <1>2
  <2> QED BY <1>1, <2>1 DEF TurnType
<1> QED BY <1>4, <1>5 DEF TurnNow

\* The link is accepted, and the delivery runs, or the new turn is cancelled.
Links(s) ==
    LET d == worker[s].d IN
    /\ MayRun(d, s)
    /\ WorkerNow(s, "wait", d) /\ Marked({d}, "running")
    /\ TurnNow(d, turn[d].state, TRUE, turn[d].token, turn[d].starts)
    /\ IF s = req[Of(d)].target THEN Moved({Of(d)}, "working") ELSE UNCHANGED req

LinkRefused(s) ==
    LET d == worker[s].d IN
    /\ ~MayRun(d, s)
    /\ WorkerNow(s, "resolve", d) /\ MayCancel(d) /\ UNCHANGED <<mail, req>>

\* The worker links the turn it has started, or finds the message gone.
LEMMA LinkDoes ==
  ASSUME MailInv, NEW s \in Sessions, Link(s)
  PROVE  Still /\ (Links(s) \/ LinkRefused(s))
<1> DEFINE d == worker[s].d
           r == Of(d)
<1>1. TypeOK /\ worker[s].pc = "link"
  BY DEF MailInv, Link, At
<1>2. d \in Posted /\ d \in Deliveries /\ r \in Requests
  BY <1>1, HeldDelivery DEF MailInv, Addressed
<1> HIDE DEF d, r
<1>3. CASE MayRun(d, s)
  <2>1. /\ mail' = SetState(mail, {d}, "running")
        /\ req' = IF s = req[r].target THEN [req EXCEPT ![r].state = "working"] ELSE req
        /\ turn' = [turn EXCEPT ![d].linked = TRUE]
        /\ Goto(s, "wait")
    BY <1>3 DEF Link, d, r
  <2>2. Marked({d}, "running")
    BY <1>1, <2>1, SetMail DEF DeliveryStates, Unresolved, Owned
  <2>3. WorkerNow(s, "wait", d)
    BY <1>1, <2>1, WorkerGoes DEF WorkerPcs, d
  <2>4. TurnNow(d, turn[d].state, TRUE, turn[d].token, turn[d].starts)
    BY <1>1, <1>2, <2>1, LinkTurn
  <2>5. s = req[r].target => Moved({r}, "working")
    BY <1>1, <1>2, <2>1, OneReq DEF RequestStates
  <2> QED BY <1>3, <2>1, <2>2, <2>3, <2>4, <2>5 DEF Link, Still, Links, bounds, d, r
<1>4. CASE ~MayRun(d, s)
  <2>1. /\ turn' = [turn EXCEPT ![d] = Cancelled(@)]
        /\ Goto(s, "resolve")
        /\ UNCHANGED <<req, mail>>
    BY <1>4 DEF Link, d
  <2>2. WorkerNow(s, "resolve", d) /\ MayCancel(d)
    BY <1>1, <1>2, <2>1, WorkerGoes, CancelOne DEF WorkerPcs, d
  <2> QED BY <1>4, <2>1, <2>2 DEF Link, Still, LinkRefused, bounds, d
<1> QED BY <1>3, <1>4

\* The turn that follows an approval is linked, or cancelled and not waited for.
Relinks(s) ==
    LET d == worker[s].d IN
    /\ turn[d].state \in {"live", "paused"}
    /\ mail[d].state = "running" /\ Permits(Of(d), s)
    /\ TurnNow(d, turn[d].state, TRUE, turn[d].token, turn[d].starts)
    /\ UNCHANGED worker

RelinkRefused(s) ==
    LET d == worker[s].d IN
    /\ turn[d].state \in {"live", "paused"}
    /\ MayCancel(d) /\ WorkerNow(s, "fail", d)

\* A worker ends with what its turn raised, or because the turn it would cancel is over.
Dies(s) == WorkerNow(s, "none", 0) /\ UNCHANGED <<mail, req, turn>>

RelinkBreaks(s) ==
    LET d == worker[s].d IN
    /\ turn[d].state = "live"
    /\ TurnNow(d, "broken", turn[d].linked, turn[d].token, turn[d].starts)
    /\ WorkerNow(s, "none", 0)

\* A worker whose turn broke is gone, and the turn is what it was.
LEMMA WorkerDiesDoes ==
  ASSUME MailInv, NEW s \in Sessions, WorkerDies(s)
  PROVE  /\ Still /\ Dies(s)
         /\ worker[s].pc = "wait" /\ turn[worker[s].d].state = "broken"
BY DEF MailInv, TypeOK, WorkerDies, At, Still, Dies, WorkerNow, WorkerType, WorkerPcs, Idle, bounds

\* A turn that is resumed is linked again, or the resume is refused.
LEMMA WaitResumedDoes ==
  ASSUME MailInv, NEW s \in Sessions, WaitResumed(s)
  PROVE  /\ Still /\ UNCHANGED <<req, mail>>
         /\ Relinks(s) \/ RelinkRefused(s) \/ RelinkBreaks(s)
<1> DEFINE d == worker[s].d
<1>1. TypeOK /\ worker[s].pc = "wait"
  BY DEF MailInv, WaitResumed, At
<1>2. d \in Deliveries
  BY <1>1, HeldDelivery
<1> HIDE DEF d
<1> DEFINE allowed == mail[d].state = "running" /\ Permits(Of(d), s)
<1>0. /\ Still /\ UNCHANGED <<req, mail>> /\ turn[d].state \in {"live", "paused"}
      /\ \/ allowed /\ turn' = [turn EXCEPT ![d].linked = TRUE] /\ UNCHANGED worker
         \/ turn' = [turn EXCEPT ![d] = Cancelled(@)] /\ Goto(s, "fail")
         \/ /\ turn[d].state = "live" /\ turn' = [turn EXCEPT ![d].state = "broken"]
            /\ worker' = [worker EXCEPT ![s] = Idle]
  BY DEF WaitResumed, Still, d
<1>3. CASE allowed /\ turn' = [turn EXCEPT ![d].linked = TRUE] /\ UNCHANGED worker
  <2>1. TurnNow(d, turn[d].state, TRUE, turn[d].token, turn[d].starts)
    BY <1>1, <1>2, <1>3, LinkTurn
  <2> QED BY <1>0, <1>3, <2>1 DEF Relinks, d
<1>4. CASE turn' = [turn EXCEPT ![d] = Cancelled(@)] /\ Goto(s, "fail")
  <2>1. MayCancel(d) /\ WorkerNow(s, "fail", d)
    BY <1>1, <1>2, <1>4, WorkerGoes, CancelOne DEF WorkerPcs, d
  <2> QED BY <1>0, <2>1 DEF RelinkRefused, d
<1>5. CASE /\ turn[d].state = "live" /\ turn' = [turn EXCEPT ![d].state = "broken"]
           /\ worker' = [worker EXCEPT ![s] = Idle]
  <2>1. TurnNow(d, "broken", turn[d].linked, turn[d].token, turn[d].starts)
    BY <1>1, <1>2, <1>5, TurnGoes
  <2>2. WorkerNow(s, "none", 0)
    BY <1>1, <1>5 DEF TypeOK, WorkerNow, WorkerType, WorkerPcs, Idle
  <2> QED BY <1>0, <1>5, <2>1, <2>2 DEF RelinkBreaks, d
<1> QED BY <1>0, <1>3, <1>4, <1>5

\* A request that its target left working fails.
Fails(s) ==
    LET r == Of(worker[s].d) IN
    /\ WorkerNow(s, "settle", worker[s].d)
    /\ IF s = req[r].target /\ req[r].state = "working"
       THEN Moved({r}, "failed") /\ Marked(Questions(r), "cancelled")
       ELSE UNCHANGED <<req, mail>>
    /\ UNCHANGED turn

\* When the wait is over, a request left working fails; the settlement is next.
LEMMA FailDoes ==
  ASSUME MailInv, NEW s \in Sessions, Fail(s)
  PROVE  Still /\ Fails(s)
<1> DEFINE r == Of(worker[s].d)
<1>1. TypeOK /\ worker[s].pc = "fail"
  BY DEF MailInv, Fail, At
<1>2. r \in Requests
  BY <1>1, HeldDelivery DEF MailInv, Addressed
<1> HIDE DEF r
<1>3. WorkerNow(s, "settle", worker[s].d)
  BY <1>1, WorkerGoes DEF Fail, WorkerPcs
<1>4. IF s = req[r].target /\ req[r].state = "working"
      THEN Moved({r}, "failed") /\ Marked(Questions(r), "cancelled")
      ELSE UNCHANGED <<req, mail>>
  <2>1. {"failed"} \subseteq RequestStates /\ {"cancelled"} \subseteq DeliveryStates
    BY DEF RequestStates, DeliveryStates
  <2>2. IF s = req[r].target /\ req[r].state = "working"
        THEN /\ req' = [req EXCEPT ![r].state = "failed"]
             /\ mail' = SetState(mail, Questions(r), "cancelled")
        ELSE UNCHANGED <<req, mail>>
    BY DEF Fail, r
  <2> QED BY <1>1, <1>2, <2>1, <2>2, OneReq, SetMail
<1> QED BY <1>3, <1>4 DEF Fail, Still, Fails, bounds, r
-----------------------------------------------------------------------------
(* What the turns, the tools, the stop commands and the startup do.        *)

TurnStep(d) == TurnEnds(d) \/ TurnBreaks(d) \/ TurnPauses(d) \/ Resume(d) \/ DropPaused(d)

\* A turn goes on, ends or pauses; a paused one is resumed under another id, with a
\* token of its own.
TurnStepDoes(d) ==
    \/ /\ turn[d].state = "live" /\ worker[To(d)] # [pc |-> "link", d |-> d]
       /\ \/ \E st \in {"over", "broken"} :
                TurnNow(d, st, turn[d].linked, turn[d].token, turn[d].starts)
          \/ ~turn[d].token /\ TurnNow(d, "paused", turn[d].linked, turn[d].token, turn[d].starts)
    \/ /\ turn[d].state = "paused"
       /\ \/ TurnNow(d, "over", turn[d].linked, turn[d].token, turn[d].starts)
          \/ TurnNow(d, "live", FALSE, FALSE, turn[d].starts)

\* Turns go on by themselves and change no row of the store.
LEMMA TurnSteps ==
  ASSUME TypeOK, NEW d \in Deliveries, TurnStep(d)
  PROVE  /\ UNCHANGED <<scope, req, mail, worker, stops, boot, crashes>> /\ pauses' \in Nat
         /\ breaks' \in Nat /\ TurnStepDoes(d)
<1>1. /\ UNCHANGED <<scope, req, mail, worker, stops, boot, crashes>>
      /\ pauses' \in Nat /\ breaks' \in Nat
  BY DEF TypeOK, TurnStep, TurnEnds, TurnBreaks, TurnPauses, Resume, DropPaused, bounds
<1>2. CASE TurnEnds(d) \/ TurnBreaks(d) \/ TurnPauses(d) \/ DropPaused(d)
  BY <1>1, <1>2, TurnGoes DEF TurnEnds, TurnBreaks, TurnPauses, DropPaused, CanSettle, TurnStepDoes
<1>3. CASE Resume(d)
  <2>1. turn \in TurnType
    BY DEF TypeOK, TurnType
  <2>2. turn[d] \in [state : {"none", "live", "paused", "over", "broken"},
                    linked : BOOLEAN, token : BOOLEAN, starts : Nat]
    BY <2>1 DEF TurnType
  <2> DEFINE t == [turn[d] EXCEPT !.state = "live", !.linked = FALSE, !.token = FALSE]
  <2>3. turn' = [turn EXCEPT ![d] = t]
    BY <1>3, <2>1 DEF Resume, TurnType
  <2>4. /\ t.state = "live" /\ t.linked = FALSE /\ t.token = FALSE
        /\ t.starts = turn[d].starts
        /\ t \in [state : {"none", "live", "paused", "over", "broken"},
                  linked : BOOLEAN, token : BOOLEAN, starts : Nat]
    BY <2>2
  <2> HIDE DEF t
  <2>5. TurnNow(d, "live", FALSE, FALSE, turn[d].starts)
    BY <2>1, <2>3, <2>4 DEF TurnNow, TurnType
  <2> QED BY <1>1, <1>3, <2>5 DEF Resume, TurnStepDoes
<1> QED BY <1>2, <1>3 DEF TurnStep

\* A scope is opened.
ScopeOpened(g, s) ==
    /\ scope' \in ScopeType
    /\ scope[g].state = "none" /\ scope'[g].state = "active" /\ scope'[g].owner = s
    /\ \A h \in Scopes : h # g => scope'[h] = scope[h]

\* A turn of a user opens a scope.
LEMMA BeginScopeDoes ==
  ASSUME TypeOK, NEW s \in Sessions, NEW g \in Scopes, BeginScope(s, g)
  PROVE  /\ ScopeOpened(g, s)
         /\ boot = "up"
         /\ UNCHANGED <<req, mail, turn, worker, stops, boot, crashes, pauses, breaks>>
BY DEF BeginScope, ScopeOpened, TypeOK, ScopeType, ScopeStates, bounds

\* A request is created, with its first message.
Creates(g, t, r) ==
    /\ boot = "up"
    /\ req[r].state = "none" /\ scope[g].state = "active" /\ t # scope[g].owner
    /\ req' \in ReqType
    /\ req'[r].group = g /\ req'[r].target = t /\ req'[r].state = "pending"
    /\ req'[r].cont = "active"
    /\ \A q \in Requests : q # r => req'[q] = req[q]
    /\ \E d \in Deliveries : NewMessage(d, r, "request", "pending", {})

\* create_request stores a request with its first message.
LEMMA CreateDoes ==
  ASSUME MailInv, NEW t \in Sessions, NEW g \in Scopes, NEW r \in Requests,
         CreateRequest(g, t, r)
  PROVE  Creates(g, t, r) /\ Still /\ UNCHANGED <<turn, worker>>
<1>1. TypeOK /\ Addressed
  BY DEF MailInv
<1>2. req' = [req EXCEPT ![r] = [group |-> g, target |-> t, state |-> "pending",
                                 cont |-> "active"]]
  BY DEF CreateRequest
<1>3. {"pending"} \subseteq RequestStates /\ {"active"} \subseteq ScopeStates
  BY DEF RequestStates, ScopeStates
<1>4. req' \in ReqType /\ \A q \in Requests : q # r => req'[q] = req[q]
  BY <1>1, <1>2, <1>3 DEF TypeOK, ReqType
<1>5. req'[r] = [group |-> g, target |-> t, state |-> "pending", cont |-> "active"]
  BY <1>1, <1>2 DEF TypeOK
<1>6. \E d \in Deliveries : NewMessage(d, r, "request", "pending", {})
  <2>1. Append(r, "request", t, TRUE, {}) /\ "request" \in Kinds
    BY DEF CreateRequest, Kinds
  <2>2. \E d \in Deliveries : NewMessage(d, r, "request", FirstState("request", TRUE), {})
    BY <1>1, <2>1, AppendPosts
  <2> QED BY <2>2 DEF FirstState
<1> QED BY <1>4, <1>5, <1>6
        DEF CreateRequest, MayContact, Creates, Still, bounds

\* A turn sends a message about its request.
Executable(r, kind) ==
    /\ kind # "progress"
    /\ req[r].cont # "revoked"
    /\ Recipient(r, kind) = Source(r) => MayContinue(r)

Retired(r, kind) == IF kind \in {"supplement", "reply"} THEN Questions(r) ELSE {}

NextState(r, kind) ==
    CASE kind = "clarification" -> "waiting_input"
      [] kind = "supplement" -> "pending"
      [] kind = "reply" -> "replied"
      [] kind = "progress" -> req[r].state

Posts(d0, kind) ==
    LET r == Of(d0) IN
    /\ boot = "up" /\ MaySay(d0, kind)
    /\ d0 \in Posted /\ r \in Requests
    /\ req[r].state \in AnsweredBy(kind)
    /\ kind = "supplement" => MayContinue(r)
    /\ Moved({r}, NextState(r, kind))
    /\ \E d \in Deliveries :
          NewMessage(d, r, kind, FirstState(kind, Executable(r, kind)), Retired(r, kind))

\* A message to a request is posted, and the request answers to it.
LEMMA PostDoes ==
  ASSUME MailInv, NEW d0 \in Deliveries, NEW kind \in Kinds, Post(d0, kind)
  PROVE  Posts(d0, kind) /\ Still /\ UNCHANGED <<turn, worker>>
<1> DEFINE r == Of(d0)
<1>1. TypeOK /\ Addressed
  BY DEF MailInv
<1>2. MaySay(d0, kind) /\ kind \in {"clarification", "reply", "progress", "supplement"}
  BY DEF Post, MaySay
<1>3. d0 \in Posted
  BY <1>2 DEF MailInv, NotYetStarted, MaySay, Posted
<1>4. r \in Requests
  BY <1>1, <1>3 DEF Addressed
<1> HIDE DEF r
<1>5. req' = [req EXCEPT ![r].state = NextState(r, kind)]
  BY DEF Post, NextState, r
<1>6. req[r].state \in AnsweredBy(kind)
  BY DEF Post, r
<1>7. NextState(r, kind) \in RequestStates
  BY <1>2, <1>6 DEF NextState, AnsweredBy, RequestStates
<1>8. Moved({r}, NextState(r, kind))
  BY <1>1, <1>4, <1>5, <1>7, OneReq
<1>9. Append(r, kind, Recipient(r, kind), Executable(r, kind), Retired(r, kind))
  BY DEF Post, Executable, Retired, r
<1>10. Executable(r, kind) \in BOOLEAN /\ Retired(r, kind) \in SUBSET Posted
  BY DEF Executable, Retired, Questions, MailAbout
<1>11. \E d \in Deliveries :
          NewMessage(d, r, kind, FirstState(kind, Executable(r, kind)), Retired(r, kind))
  BY <1>1, <1>4, <1>9, <1>10, AppendPosts
<1> QED BY <1>2, <1>3, <1>4, <1>6, <1>8, <1>11 DEF Post, Posts, Still, bounds, r
\* A stopped scope is restricted, and with it the mail of its requests.
MembersOf(g) == {r \in Requests : req[r].state # "none" /\ req[r].group = g}

ScopeRestricted(g, mode) ==
    LET F == {d \in Posted : /\ Of(d) \in MembersOf(g)
                             /\ mode = "receive_only" => mail[d].kind = "reply"}
        idle == {r \in MembersOf(g) : /\ mode = "revoked" /\ req[r].state = "pending"
                                      /\ MailAbout(r, Owned) = {}}
    IN  /\ scope' \in ScopeType
        /\ boot = "up" /\ ScopeEdge(scope[g].state, mode)
        /\ scope'[g].state = mode /\ scope'[g].owner = scope[g].owner
        /\ \A h \in Scopes : h # g => scope'[h] = scope[h]
        /\ FencedNow(F) /\ Moved(idle, "cancelled")
        /\ stops' = stops \cup {[about |-> MembersOf(g), mode |-> mode, targets |-> FALSE]}

\* A stop of a scope fences what the scope holds, in one transaction.
LEMMA StopScopeDoes ==
  ASSUME TypeOK, NEW g \in Scopes, NEW mode \in ScopeStates, StopScope(g, mode)
  PROVE  ScopeRestricted(g, mode) /\ UNCHANGED <<turn, worker, boot, crashes, pauses, breaks>>
<1> DEFINE F == {d \in Posted : /\ Of(d) \in MembersOf(g)
                                /\ mode = "receive_only" => mail[d].kind = "reply"}
           idle == {r \in MembersOf(g) : /\ mode = "revoked" /\ req[r].state = "pending"
                                         /\ MailAbout(r, Owned) = {}}
<1>1. /\ scope' = [scope EXCEPT ![g].state = mode]
      /\ mail' = Fenced(F)
      /\ req' = SetState(req, idle, "cancelled")
      /\ stops' = stops \cup {[about |-> MembersOf(g), mode |-> mode, targets |-> FALSE]}
      /\ boot = "up" /\ ScopeEdge(scope[g].state, mode)
      /\ UNCHANGED <<turn, worker, boot, crashes, pauses, breaks>>
  BY DEF StopScope, MembersOf, bounds
<1> HIDE DEF F, idle
<1>2. FencedNow(F) /\ Moved(idle, "cancelled")
  BY <1>1, FenceMail, SetReq DEF RequestStates
<1>3. /\ scope' \in ScopeType
      /\ scope'[g].state = mode /\ scope'[g].owner = scope[g].owner
      /\ \A h \in Scopes : h # g => scope'[h] = scope[h]
  <2>1. scope \in ScopeType
    BY DEF TypeOK, ScopeType
  <2>2. scope' = [scope EXCEPT ![g].state = mode]
    BY <1>1
  <2> QED BY <2>1, <2>2, SMTT(40) DEF ScopeType
<1>4. boot = "up" /\ ScopeEdge(scope[g].state, mode)
  BY <1>1
<1>5. ScopeRestricted(g, mode)
  BY <1>1, <1>2, <1>3, <1>4, SMTT(40) DEF ScopeRestricted, F, idle
<1> QED BY <1>1, <1>5

\* A stopped request is restricted, and with it its mail.
RequestRestricted(r, mode) ==
    LET F == {d \in Posted : Of(d) = r /\ (mode = "receive_only" => To(d) = Source(r))}
    IN  /\ boot = "up" /\ req[r].state # "none" /\ ScopeEdge(req[r].cont, mode)
        /\ req' \in ReqType
        /\ req'[r].group = req[r].group /\ req'[r].target = req[r].target
        /\ req'[r].cont = mode
        /\ mode = "revoked" /\ req[r].state \in {"pending", "working", "waiting_input"} =>
              req'[r].state = "cancelled"
        /\ mode # "revoked" \/ req[r].state \notin {"pending", "working", "waiting_input"} =>
              req'[r].state = req[r].state
        /\ \A q \in Requests : q # r => req'[q] = req[q]
        /\ FencedNow(F)
        /\ stops' = stops \cup {[about |-> {r}, mode |-> mode, targets |-> mode = "revoked"]}

\* A stop of one assignment fences the messages of that request.
LEMMA StopAssignmentDoes ==
  ASSUME TypeOK, NEW r \in Requests, NEW mode \in ScopeStates, StopAssignment(r, mode)
  PROVE  RequestRestricted(r, mode) /\ UNCHANGED <<scope, turn, worker, boot, crashes, pauses, breaks>>
<1> DEFINE F == {d \in Posted : Of(d) = r /\ (mode = "receive_only" => To(d) = Source(r))}
           st == IF mode = "revoked" /\ req[r].state \in {"pending", "working", "waiting_input"}
                 THEN "cancelled" ELSE req[r].state
           q == [req[r] EXCEPT !.cont = mode, !.state = st]
<1>1. /\ req \in ReqType
      /\ req[r] \in [group : Scopes \cup {0}, target : Sessions,
                     state : RequestStates \cup {"none"}, cont : ScopeStates]
  BY DEF TypeOK, ReqType
<1>2. /\ mail' = Fenced(F)
      /\ stops' = stops \cup {[about |-> {r}, mode |-> mode, targets |-> mode = "revoked"]}
      /\ boot = "up" /\ req[r].state # "none" /\ ScopeEdge(req[r].cont, mode)
      /\ UNCHANGED <<scope, turn, worker, boot, crashes, pauses, breaks>>
  BY DEF StopAssignment, bounds
<1>3. req' = [req EXCEPT ![r].cont = mode, ![r].state = st]
  BY DEF StopAssignment
<1>4. st \in RequestStates \cup {"none"}
  BY <1>1 DEF RequestStates
<1> HIDE DEF st
<1>5. /\ q.group = req[r].group /\ q.target = req[r].target
      /\ q.cont = mode /\ q.state = st
      /\ q \in [group : Scopes \cup {0}, target : Sessions,
                state : RequestStates \cup {"none"}, cont : ScopeStates]
  BY <1>1, <1>4
<1> HIDE DEF q
<1>6. /\ req' \in ReqType /\ req'[r] = q
      /\ \A p \in Requests : p # r => req'[p] = req[p]
  <2>1. req' = [req EXCEPT ![r] = q]
    BY <1>1, <1>3 DEF ReqType, q
  <2> QED BY <1>1, <1>5, <2>1 DEF ReqType
<1> HIDE DEF F
<1>7. FencedNow(F)
  BY <1>2, FenceMail
<1> QED BY <1>2, <1>5, <1>6, <1>7 DEF RequestRestricted, F, st

\* The turns whose ids the running deliveries of a command record are cancelled.
Targets(c) ==
    {d \in Posted : /\ Of(d) \in c.about /\ mail[d].state = "running"
                    /\ turn[d].linked
                    /\ c.targets \/ To(d) = Source(Of(d))}

CancelsAll(D) ==
    /\ turn' \in TurnType
    /\ \A d \in Deliveries : /\ d \in D => CancelledTurn(turn[d], turn'[d])
                             /\ d \notin D => turn'[d] = turn[d]

\* The second half of a stop cancels the turns it has fenced.
LEMMA CancelRunsDoes ==
  ASSUME TypeOK, NEW c \in stops, CancelRuns(c)
  PROVE  /\ CancelsAll(Targets(c)) /\ stops' = stops \ {c}
         /\ UNCHANGED <<scope, req, mail, worker, boot, crashes, pauses, breaks>>
<1> DEFINE D == Targets(c)
<1>1. /\ stops' = stops \ {c}
      /\ UNCHANGED <<scope, req, mail, worker, boot, crashes, pauses, breaks>>
      /\ turn' = [d \in Deliveries |-> IF d \in D THEN Cancelled(turn[d]) ELSE turn[d]]
  BY DEF CancelRuns, Targets, bounds
<1> HIDE DEF D
<1>2. \A d \in Deliveries : turn[d] \in [state : {"none", "live", "paused", "over", "broken"},
                                        linked : BOOLEAN, token : BOOLEAN, starts : Nat]
  BY DEF TypeOK
<1>3. \A d \in Deliveries :
        /\ Cancelled(turn[d]) \in [state : {"none", "live", "paused", "over", "broken"},
                                   linked : BOOLEAN, token : BOOLEAN, starts : Nat]
        /\ CancelledTurn(turn[d], Cancelled(turn[d]))
  BY <1>2, CancelTurn
<1>4. turn' \in TurnType
  BY <1>1, <1>2, <1>3 DEF TurnType
<1>5. \A d \in Deliveries : turn'[d] = IF d \in D THEN Cancelled(turn[d]) ELSE turn[d]
  BY <1>1
<1>6. CancelsAll(D)
  BY <1>3, <1>4, <1>5 DEF CancelsAll
<1> QED BY <1>1, <1>6 DEF D

\* The process ends, and with it its workers, its commands and its turns.
Crashes ==
    /\ boot' = "down" /\ stops' = {} /\ crashes' = crashes + 1
    /\ worker' \in WorkerType
    /\ \A s \in Sessions : worker'[s].pc = "none" /\ worker'[s].d = 0
    /\ turn' \in TurnType
    /\ \A d \in Deliveries :
         /\ turn'[d].linked = turn[d].linked /\ turn'[d].token = turn[d].token
         /\ turn'[d].starts = turn[d].starts
         /\ turn[d].state \in {"live", "paused"} => turn'[d].state = "over"
         /\ turn[d].state \notin {"live", "paused"} => turn'[d].state = turn[d].state

\* A crash loses the workers, the turns and the stops under way.
LEMMA CrashDoes ==
  ASSUME TypeOK, Crash
  PROVE  Crashes /\ UNCHANGED <<scope, req, mail, pauses, breaks>>
<1> DEFINE D == {d \in Deliveries : turn[d].state \in {"live", "paused"}}
<1>1. /\ turn' = SetState(turn, D, "over")
      /\ worker' = [s \in Sessions |-> [pc |-> "none", d |-> 0]]
      /\ boot' = "down" /\ stops' = {} /\ crashes' = crashes + 1
      /\ UNCHANGED <<scope, req, mail, pauses, breaks>>
  BY DEF Crash, Idle
<1>2. /\ worker' \in WorkerType
      /\ \A s \in Sessions : worker'[s].pc = "none" /\ worker'[s].d = 0
  BY <1>1 DEF WorkerType, WorkerPcs
<1>3. /\ DOMAIN turn = Deliveries
      /\ \A d \in Deliveries : turn[d] \in [state : {"none", "live", "paused", "over", "broken"},
                                           linked : BOOLEAN, token : BOOLEAN, starts : Nat]
  BY DEF TypeOK
<1>4. \A d \in Deliveries :
        turn'[d] = IF d \in D THEN [turn[d] EXCEPT !.state = "over"] ELSE turn[d]
  BY <1>1, <1>3 DEF SetState
<1>5. turn' \in TurnType
  BY <1>1, <1>3, <1>4 DEF SetState, TurnType
<1>6. \A d \in Deliveries :
         /\ turn'[d].linked = turn[d].linked /\ turn'[d].token = turn[d].token
         /\ turn'[d].starts = turn[d].starts
         /\ turn[d].state \in {"live", "paused"} => turn'[d].state = "over"
         /\ turn[d].state \notin {"live", "paused"} => turn'[d].state = turn[d].state
  BY <1>3, <1>4, ZenonT(40)
<1> QED BY <1>1, <1>2, <1>5, <1>6 DEF Crashes

\* The startup after it holds what was interrupted, then settles it.
Interrupted == {d \in Deliveries : mail[d].state \in {"claimed", "running"}}
UnderReview == {d \in Deliveries : mail[d].state = "review"}
Unfinished == {r \in Requests : /\ req[r].state \in {"pending", "working"}
                                /\ \E d \in UnderReview : Of(d) = r /\ To(d) = req[r].target}

\* The two steps of the start-up after a crash.
LEMMA RecoveryDoes ==
  ASSUME TypeOK
  PROVE  /\ RecoverUncertain =>
              /\ boot = "down" /\ boot' = "recovered" /\ Marked(Interrupted, "review")
              /\ UNCHANGED <<scope, req, turn, worker, stops, crashes, pauses, breaks>>
         /\ SettleInterrupted =>
              /\ boot = "recovered" /\ boot' = "up" /\ Marked(UnderReview, "settled")
              /\ Moved(Unfinished, "failed")
              /\ UNCHANGED <<scope, turn, worker, stops, crashes, pauses, breaks>>
<1>1. {"review", "settled"} \subseteq DeliveryStates /\ {"failed"} \subseteq RequestStates
  BY DEF DeliveryStates, Unresolved, Owned, RequestStates
<1>2. RecoverUncertain => Marked(Interrupted, "review")
  BY <1>1, SetMail DEF RecoverUncertain, Interrupted
<1>3. SettleInterrupted => Marked(UnderReview, "settled") /\ Moved(Unfinished, "failed")
  BY <1>1, SetMail, SetReq DEF SettleInterrupted, UnderReview, Unfinished
<1> QED BY <1>2, <1>3 DEF RecoverUncertain, SettleInterrupted, bounds

\* A request behind a stopped scope is cancelled.
LEMMA SweepDoes ==
  ASSUME TypeOK, NEW r \in Requests, Sweep(r)
  PROVE  /\ boot = "up" /\ req[r].state = "pending" /\ MailAbout(r, Unresolved) = {}
         /\ Moved({r}, "cancelled")
         /\ UNCHANGED <<scope, mail, turn, worker, stops, boot, crashes, pauses, breaks>>
BY OneReq DEF Sweep, RequestStates, bounds
-----------------------------------------------------------------------------
(* The routine steps.                                                      *)

\* What a routine step leaves.
LEMMA TypesNext ==
  ASSUME scope' \in ScopeType, req' \in ReqType, mail' \in MailType, turn' \in TurnType,
         worker' \in WorkerType,
         stops' \subseteq [about : SUBSET Requests, mode : ScopeStates, targets : BOOLEAN],
         boot' \in {"up", "down", "recovered"}, crashes' \in Nat, pauses' \in Nat,
         breaks' \in Nat
  PROVE  TypeOK'
BY DEF TypeOK, ScopeType, ReqType, MailType, TurnType, WorkerType

\* The step of a worker that neither claims nor starts.
LEMMA WorkerRoutine ==
  ASSUME MailInv, NEW s \in Sessions,
         \/ Check(s) \/ Abandon(s) \/ Drop(s) \/ Resolve(s) \/ Settle(s)
         \/ StartFails(s) \/ StartBusy(s) \/ Link(s)
         \/ WaitOver(s) \/ WorkerDies(s) \/ WaitResumed(s) \/ Fail(s) \/ Dispatch(s)
         \/ Claim(s) /\ UNCHANGED mail
  PROVE  TypeOK' /\ Routine
<1>1. /\ scope \in ScopeType /\ req \in ReqType /\ mail \in MailType
      /\ turn \in TurnType /\ worker \in WorkerType
      /\ stops \subseteq [about : SUBSET Requests, mode : ScopeStates, targets : BOOLEAN]
      /\ boot \in {"up", "down", "recovered"} /\ crashes \in Nat /\ pauses \in Nat /\ breaks \in Nat
      /\ TypeOK
  BY TypesByName DEF MailInv
<1>2. Still => (\A g \in Scopes : ScopeStays(g))
  BY DEF Still, ScopeStays
<1>3. ASSUME Still, UNCHANGED <<mail, req, turn>>, worker' \in WorkerType
      PROVE  TypeOK' /\ Routine
  <2>1. TypeOK'
    BY <1>1, <1>3, TypesNext DEF Still
  <2> QED BY <1>2, <1>3, <2>1 DEF Routine, Progresses, RequestStays
<1>4. CASE Check(s) \/ Abandon(s) \/ StartBusy(s) \/ WaitOver(s) \/ Dispatch(s)
  <2>1. Still /\ UNCHANGED <<mail, req, turn>> /\ worker' \in WorkerType
    BY <1>4, MovesDo DEF Moves, WorkerNow
  <2> QED BY <1>3, <2>1
<1>5. ASSUME NEW before \in Unresolved, NEW after \in DeliveryStates, Transition(s, before, after),
             after # "pending", after \in Owned => before \in Owned,
             worker[s].pc \notin {"none", "claim"}
      PROVE  TypeOK' /\ Routine
  <2>1. Still /\ Leaves(s, before, after)
    BY <1>5, TransitionDoes
  <2>2. TypeOK'
    BY <1>1, <2>1, TypesNext DEF Still, Leaves, WorkerNow, Marked
  <2>3. \A d \in Deliveries : Progresses(d)
    BY <1>5, <2>1 DEF Leaves, Marked, Progresses, DeliveryStates, Unresolved, Owned
  <2> QED BY <1>2, <2>1, <2>2, <2>3 DEF Routine, RequestStays, Leaves
<1>6. CASE Drop(s) \/ Resolve(s) \/ Settle(s) \/ StartFails(s)
  <2>1. /\ {"claimed", "review", "running"} \subseteq Unresolved
        /\ {"cancelled", "settled", "review"} \subseteq DeliveryStates
        /\ {"claimed", "review", "running"} \subseteq Owned
        /\ "cancelled" \notin Owned /\ "settled" \notin Owned
    BY DEF DeliveryStates, Unresolved, Owned
  <2>2. worker[s].pc \notin {"none", "claim"}
    BY <1>6 DEF Drop, Resolve, Settle, StartFails, At
  <2> QED BY <1>5, <1>6, <2>1, <2>2 DEF Drop, Resolve, Settle, StartFails
<1>7. CASE Link(s)
  <2>1. /\ Still /\ (Links(s) \/ LinkRefused(s))
        /\ worker[s].d \in Deliveries
        /\ worker[s].pc = "link" /\ Held(s)
    BY <1>7, LinkDoes, HeldDelivery DEF Link, At, MailInv
  <2>2. Of(worker[s].d) \in Requests /\ req[Of(worker[s].d)].state # "none"
    BY <2>1, HeldDelivery DEF MailInv, Addressed
  <2>3. TypeOK'
    BY <1>1, <2>1, TypesNext DEF Still, Links, LinkRefused, WorkerNow, Marked, TurnNow,
                                 Moved, MayCancel
  <2>4. \A d \in Deliveries : Progresses(d)
    BY <2>1 DEF Links, LinkRefused, Held, MayRun, Marked, TurnNow, MayCancel, CancelledTurn,
                Progresses, Owned
  <2>5. \A r \in Requests : RequestStays(r)
    BY <2>1, <2>2 DEF Links, LinkRefused, Moved, RequestStays
  <2> QED BY <1>2, <2>1, <2>3, <2>4, <2>5 DEF Routine
<1>8. CASE WaitResumed(s)
  <2>1. /\ Still /\ UNCHANGED <<req, mail>>
        /\ Relinks(s) \/ RelinkRefused(s) \/ RelinkBreaks(s)
        /\ worker[s].d \in Deliveries
    BY <1>8, WaitResumedDoes, HeldDelivery DEF WaitResumed, At
  <2>2. TypeOK'
    BY <1>1, <2>1, TypesNext
       DEF Still, Relinks, RelinkRefused, RelinkBreaks, WorkerNow, TurnNow, MayCancel
  <2>3. \A d \in Deliveries : Progresses(d)
    BY <2>1
       DEF Relinks, RelinkRefused, RelinkBreaks, TurnNow, MayCancel, CancelledTurn, Progresses
  <2> QED BY <1>2, <2>1, <2>2, <2>3 DEF Routine, RequestStays
<1>9. CASE Fail(s)
  <2>1. Still /\ Fails(s)
    BY <1>9, FailDoes
  <2>2. TypeOK'
    BY <1>1, <2>1, TypesNext DEF Still, Fails, WorkerNow, Marked, Moved
  <2>3. \A d \in Deliveries : Progresses(d)
    BY <2>1 DEF Fails, Marked, Questions, MailAbout, Progresses, Unresolved
  <2>4. \A r \in Requests : RequestStays(r)
    BY <2>1 DEF Fails, Moved, RequestStays
  <2> QED BY <1>2, <2>1, <2>2, <2>3, <2>4 DEF Routine
<1>10. CASE Claim(s) /\ UNCHANGED mail
  <2>1. Still /\ UNCHANGED <<req, turn, mail>>
    BY <1>10 DEF Claim, Still, bounds
  <2>2. worker' \in WorkerType
    BY <1>10, ClaimDoes DEF Claims, WorkerNow
  <2> QED BY <1>3, <2>1, <2>2
<1>11. CASE WorkerDies(s)
  <2>1. Still /\ UNCHANGED <<mail, req, turn>> /\ worker' \in WorkerType
    BY <1>11, WorkerDiesDoes DEF Dies, WorkerNow
  <2> QED BY <1>3, <2>1
<1> QED BY <1>4, <1>6, <1>7, <1>8, <1>9, <1>10, <1>11

\* The steps of the other actors that post nothing.
LEMMA HostRoutine ==
  ASSUME MailInv,
         \/ \E d \in Deliveries : TurnStep(d)
         \/ \E s \in Sessions, g \in Scopes : BeginScope(s, g)
         \/ \E mode \in ScopeStates, g \in Scopes : StopScope(g, mode)
         \/ \E mode \in ScopeStates, r \in Requests : StopAssignment(r, mode)
         \/ \E r \in Requests : Sweep(r)
         \/ \E c \in stops : CancelRuns(c)
         \/ Crash \/ RecoverUncertain \/ SettleInterrupted
  PROVE  TypeOK' /\ Routine
<1>1. /\ scope \in ScopeType /\ req \in ReqType /\ mail \in MailType
      /\ turn \in TurnType /\ worker \in WorkerType
      /\ stops \subseteq [about : SUBSET Requests, mode : ScopeStates, targets : BOOLEAN]
      /\ boot \in {"up", "down", "recovered"} /\ crashes \in Nat /\ pauses \in Nat /\ breaks \in Nat
      /\ TypeOK
  BY TypesByName DEF MailInv
<1>2. ASSUME NEW d \in Deliveries, TurnStep(d) PROVE TypeOK' /\ Routine
  <2>1. /\ UNCHANGED <<scope, req, mail, worker, stops, boot, crashes>> /\ pauses' \in Nat
        /\ breaks' \in Nat /\ TurnStepDoes(d)
    BY <1>1, <1>2, TurnSteps
  <2>2. TypeOK'
    BY <1>1, <2>1, TypesNext DEF TurnStepDoes, TurnNow
  <2>3. \A e \in Deliveries : Progresses(e)
    BY <2>1 DEF TurnStepDoes, TurnNow, Progresses
  <2> QED BY <2>1, <2>2, <2>3 DEF Routine, RequestStays, ScopeStays
<1>3. ASSUME NEW s \in Sessions, NEW g \in Scopes, BeginScope(s, g) PROVE TypeOK' /\ Routine
  <2>1. /\ ScopeOpened(g, s)
        /\ UNCHANGED <<req, mail, turn, worker, stops, boot, crashes, pauses, breaks>>
    BY <1>1, <1>3, BeginScopeDoes
  <2>2. TypeOK'
    BY <1>1, <2>1, TypesNext DEF ScopeOpened
  <2> QED BY <2>1, <2>2 DEF ScopeOpened, Routine, RequestStays, ScopeStays, Progresses
<1>4. ASSUME NEW F, FencedNow(F), UNCHANGED turn PROVE \A d \in Deliveries : Progresses(d)
  BY <1>4 DEF FencedNow, Progresses, Unresolved, Owned
<1>5. ASSUME NEW mode \in ScopeStates, NEW g \in Scopes, StopScope(g, mode)
      PROVE  TypeOK' /\ Routine
  <2>1. ScopeRestricted(g, mode) /\ UNCHANGED <<turn, worker, boot, crashes, pauses, breaks>>
    BY <1>1, <1>5, StopScopeDoes
  <2>2. TypeOK'
    <3>1. [about |-> MembersOf(g), mode |-> mode, targets |-> FALSE]
            \in [about : SUBSET Requests, mode : ScopeStates, targets : BOOLEAN]
      BY <1>5 DEF MembersOf
    <3>2. stops' \subseteq [about : SUBSET Requests, mode : ScopeStates, targets : BOOLEAN]
      BY <1>1, <2>1, <3>1 DEF ScopeRestricted
    <3> QED BY <1>1, <2>1, <3>2, TypesNext DEF ScopeRestricted, FencedNow, Moved
  <2>3. \A d \in Deliveries : Progresses(d)
    BY <1>4, <2>1 DEF ScopeRestricted
  <2>4. \A r \in Requests : RequestStays(r)
    BY <2>1 DEF ScopeRestricted, Moved, RequestStays, MembersOf
  <2>5. \A h \in Scopes : ScopeStays(h)
    BY <2>1 DEF ScopeRestricted, ScopeEdge, ScopeStays
  <2> QED BY <2>2, <2>3, <2>4, <2>5 DEF Routine
<1>6. ASSUME NEW mode \in ScopeStates, NEW r \in Requests, StopAssignment(r, mode)
      PROVE  TypeOK' /\ Routine
  <2>1. RequestRestricted(r, mode) /\ UNCHANGED <<scope, turn, worker, boot, crashes, pauses, breaks>>
    BY <1>1, <1>6, StopAssignmentDoes
  <2>2. (mode = "revoked") \in BOOLEAN
    OBVIOUS
  <2>3. TypeOK'
    <3>1. [about |-> {r}, mode |-> mode, targets |-> mode = "revoked"]
            \in [about : SUBSET Requests, mode : ScopeStates, targets : BOOLEAN]
      BY <1>6, <2>2
    <3>2. stops' \subseteq [about : SUBSET Requests, mode : ScopeStates, targets : BOOLEAN]
      BY <1>1, <2>1, <3>1 DEF RequestRestricted
    <3> QED BY <1>1, <2>1, <3>2, TypesNext DEF RequestRestricted, FencedNow
  <2>4. \A d \in Deliveries : Progresses(d)
    BY <1>4, <2>1 DEF RequestRestricted
  <2>5. \A q \in Requests : RequestStays(q)
    BY <2>1 DEF RequestRestricted, RequestStays
  <2> QED BY <2>1, <2>3, <2>4, <2>5 DEF Routine, ScopeStays
<1>7. ASSUME NEW r \in Requests, Sweep(r) PROVE TypeOK' /\ Routine
  <2>1. /\ req[r].state = "pending" /\ Moved({r}, "cancelled")
        /\ UNCHANGED <<scope, mail, turn, worker, stops, boot, crashes, pauses, breaks>>
    BY <1>1, <1>7, SweepDoes
  <2>2. TypeOK'
    BY <1>1, <2>1, TypesNext DEF Moved
  <2> QED BY <2>1, <2>2 DEF Moved, Routine, RequestStays, ScopeStays, Progresses
<1>8. ASSUME NEW c \in stops, CancelRuns(c) PROVE TypeOK' /\ Routine
  <2>1. /\ CancelsAll(Targets(c)) /\ stops' = stops \ {c}
        /\ UNCHANGED <<scope, req, mail, worker, boot, crashes, pauses, breaks>>
    BY <1>1, <1>8, CancelRunsDoes
  <2>2. TypeOK'
    BY <1>1, <2>1, TypesNext DEF CancelsAll
  <2>3. \A d \in Deliveries : Progresses(d)
    BY <2>1 DEF CancelsAll, CancelledTurn, Progresses
  <2> QED BY <2>1, <2>2, <2>3 DEF Routine, RequestStays, ScopeStays
<1>9. CASE Crash
  <2>1. Crashes /\ UNCHANGED <<scope, req, mail, pauses, breaks>>
    BY <1>1, <1>9, CrashDoes
  <2>2. TypeOK'
    BY <1>1, <2>1, TypesNext DEF Crashes
  <2>3. \A d \in Deliveries : Progresses(d)
    BY <2>1 DEF Crashes, Progresses
  <2> QED BY <2>1, <2>2, <2>3 DEF Routine, RequestStays, ScopeStays
<1>10. CASE RecoverUncertain
  <2>1. /\ boot' = "recovered" /\ Marked(Interrupted, "review")
        /\ UNCHANGED <<scope, req, turn, worker, stops, crashes, pauses, breaks>>
    BY <1>1, <1>10, RecoveryDoes
  <2>2. TypeOK'
    BY <1>1, <2>1, TypesNext DEF Marked
  <2>3. \A d \in Deliveries : Progresses(d)
    BY <2>1 DEF Marked, Interrupted, Progresses, Owned
  <2> QED BY <2>1, <2>2, <2>3 DEF Routine, RequestStays, ScopeStays
<1>11. CASE SettleInterrupted
  <2>1. /\ boot' = "up" /\ Marked(UnderReview, "settled") /\ Moved(Unfinished, "failed")
        /\ UNCHANGED <<scope, turn, worker, stops, crashes, pauses, breaks>>
    BY <1>1, <1>11, RecoveryDoes
  <2>2. TypeOK'
    BY <1>1, <2>1, TypesNext DEF Marked, Moved
  <2>3. \A d \in Deliveries : Progresses(d)
    BY <2>1 DEF Marked, UnderReview, Progresses, Unresolved, Owned
  <2>4. \A r \in Requests : RequestStays(r)
    BY <2>1 DEF Moved, Unfinished, RequestStays
  <2> QED BY <2>1, <2>2, <2>3, <2>4 DEF Routine, ScopeStays
<1> QED BY <1>2, <1>3, <1>5, <1>6, <1>7, <1>8, <1>9, <1>10, <1>11
-----------------------------------------------------------------------------
(* The invariant of the mailboxes.                                         *)

\* A new message is the last one, and the others keep their addresses.
LEMMA PostingKeepsAddresses ==
  ASSUME MailInv, NEW d \in Deliveries, NEW r \in Requests, NEW kind \in Kinds,
         NEW st \in DeliveryStates, NEW C, C \subseteq Posted,
         NewMessage(d, r, kind, st, C),
         req'[r].state # "none",
         \A q \in Requests : req[q].state # "none" => req'[q].state # "none",
         \A q \in Requests : req[q].state # "none" =>
             req'[q].group = req[q].group /\ req'[q].target = req[q].target,
         \A q \in Requests : req'[q].state # "none" =>
             /\ req'[q].group \in Scopes /\ scope'[req'[q].group].state # "none"
             /\ req'[q].target # Source(q)',
         UNCHANGED scope
  PROVE  Posted' = Posted \cup {d} /\ d \notin Posted /\ AddressKept /\ Addressed'
<1>1. TypeOK /\ Addressed
  BY DEF MailInv
<1>2. d \notin Posted
  BY DEF NewMessage, Deliveries
<1>3. st # "none" /\ "cancelled" # "none"
  BY DEF DeliveryStates, Unresolved, Owned
<1>4. Posted' = Posted \cup {d}
  BY <1>3 DEF NewMessage, Posted
<1>5. AddressKept
  <2>1. \A e \in Posted : /\ mail'[e].of = mail[e].of /\ mail'[e].kind = mail[e].kind
                          /\ mail'[e].state # "none"
    BY <1>2, <1>3 DEF NewMessage, Posted
  <2>2. \A g \in Scopes : ScopeStays(g)
    BY DEF ScopeStays
  <2> QED BY <1>1, <2>1, <2>2, StaysAddressed
<1>6. \E n \in 0 .. MaxDeliveries : Posted' = 1 .. n
  <2>1. Posted \subseteq Deliveries /\ d \in 1 .. MaxDeliveries /\ MaxDeliveries \in Nat
    BY DEF Posted, Deliveries, CollaborationAssumption
  <2>2. \A e \in 1 .. MaxDeliveries : e < d <=> e \in Posted
    BY DEF NewMessage, Deliveries
  <2>3. \A e \in Posted : e \in 1 .. MaxDeliveries
    BY <2>1 DEF Deliveries
  <2>4. \A e : e \in Posted' <=> e \in 1 .. d
    <3>1. ASSUME NEW e \in Posted' PROVE e \in 1 .. d
      <4>1. CASE e = d
        BY <2>1, <4>1
      <4>2. CASE e # d
        <5>1. e \in Posted
          BY <1>4, <3>1, <4>2
        <5>2. e \in 1 .. MaxDeliveries /\ e < d
          BY <2>2, <2>3, <5>1
        <5> QED BY <2>1, <5>2
      <4> QED BY <4>1, <4>2
    <3>2. ASSUME NEW e \in 1 .. d PROVE e \in Posted'
      <4>1. e \in 1 .. MaxDeliveries
        BY <2>1, <3>2
      <4> QED BY <1>4, <2>1, <2>2, <3>2, <4>1
    <3> QED BY <3>1, <3>2
  <2>5. Posted' = 1 .. d
    BY <2>4, Zenon
  <2> QED BY <2>1, <2>5
<1>7. \A e \in Posted' : Of(e)' \in Requests /\ req'[Of(e)'].state # "none"
  <2>1. Of(d)' = r
    BY DEF NewMessage, Of
  <2>2. ASSUME NEW e \in Posted PROVE Of(e)' \in Requests /\ req'[Of(e)'].state # "none"
    BY <1>1, <1>5 DEF Addressed, AddressKept
  <2> QED BY <1>4, <2>1, <2>2
<1> QED BY <1>2, <1>4, <1>5, <1>6, <1>7 DEF Addressed

\* A new request's message is addressed, and no other message moves.
LEMMA CreateKeepsAddresses ==
  ASSUME MailInv, NEW t \in Sessions, NEW g \in Scopes, NEW r \in Requests,
         Creates(g, t, r), UNCHANGED scope
  PROVE  \E d \in Deliveries :
           /\ NewMessage(d, r, "request", "pending", {})
           /\ Posted' = Posted \cup {d} /\ d \notin Posted /\ AddressKept /\ Addressed'
<1>1. PICK d \in Deliveries : NewMessage(d, r, "request", "pending", {})
  BY DEF Creates
<1>2. "request" \in Kinds /\ "pending" \in DeliveryStates
  BY DEF Kinds, DeliveryStates, Unresolved
<1>3. \A q \in Requests : req'[q].state # "none" =>
             /\ req'[q].group \in Scopes /\ scope'[req'[q].group].state # "none"
             /\ req'[q].target # Source(q)'
  BY DEF Creates, MailInv, Addressed, Source
<1>4. /\ req'[r].state # "none"
      /\ \A q \in Requests : req[q].state # "none" =>
             /\ req'[q].state # "none"
             /\ req'[q].group = req[q].group /\ req'[q].target = req[q].target
  BY DEF Creates
<1>5. Posted' = Posted \cup {d} /\ d \notin Posted /\ AddressKept /\ Addressed'
  BY <1>1, <1>2, <1>3, <1>4, PostingKeepsAddresses
<1> QED BY <1>1, <1>5

\* A posted message is addressed, and no other message moves.
LEMMA PostKeepsAddresses ==
  ASSUME MailInv, NEW d0 \in Deliveries, NEW kind \in Kinds, Posts(d0, kind), UNCHANGED scope
  PROVE  \E d \in Deliveries :
           /\ NewMessage(d, Of(d0), kind, FirstState(kind, Executable(Of(d0), kind)),
                         Retired(Of(d0), kind))
           /\ Posted' = Posted \cup {d} /\ d \notin Posted /\ AddressKept /\ Addressed'
<1> DEFINE r == Of(d0)
           st == FirstState(kind, Executable(r, kind))
           C == Retired(r, kind)
<1>1. /\ r \in Requests /\ Moved({r}, NextState(r, kind))
      /\ d0 \in Posted
      /\ req[r].state \in AnsweredBy(kind)
      /\ MaySay(d0, kind)
  BY DEF Posts
<1>2. PICK d \in Deliveries : NewMessage(d, r, kind, st, C)
  BY DEF Posts
<1>3. st \in DeliveryStates
  BY DEF FirstState, DeliveryStates, Unresolved
<1>4. C \subseteq Posted
  BY DEF Retired, Questions, MailAbout
<1>5. req[r].state # "none" /\ NextState(r, kind) # "none"
  BY <1>1 DEF NextState, AnsweredBy, MaySay
<1> HIDE DEF r, st, C
<1>6. /\ \A q \in Requests : req[q].state # "none" =>
             /\ req'[q].state # "none"
             /\ req'[q].group = req[q].group /\ req'[q].target = req[q].target
      /\ req'[r].state # "none"
      /\ \A q \in Requests : req'[q].state # "none" => req[q].state # "none"
  BY <1>1, <1>5 DEF Moved
<1>7. \A q \in Requests : req'[q].state # "none" =>
             /\ req'[q].group \in Scopes /\ scope'[req'[q].group].state # "none"
             /\ req'[q].target # Source(q)'
  BY <1>6 DEF MailInv, Addressed, Source
<1>8. Posted' = Posted \cup {d} /\ d \notin Posted /\ AddressKept /\ Addressed'
  BY <1>1, <1>2, <1>3, <1>4, <1>6, <1>7, PostingKeepsAddresses
<1> QED BY <1>2, <1>8 DEF r, st, C

\* A worker that does not move keeps its hold.
LEMMA HeldKept ==
  ASSUME MailInv, AddressKept, NEW s \in Sessions, worker'[s] = worker[s],
         worker[s].d \in Posted =>
            /\ \/ mail'[worker[s].d].state = mail[worker[s].d].state
               \/ mail[worker[s].d].state = "claimed" /\ mail'[worker[s].d].state = "review"
            /\ turn'[worker[s].d].starts = turn[worker[s].d].starts
            /\ turn'[worker[s].d].state = "none" <=> turn[worker[s].d].state = "none"
  PROVE  Held(s)'
<1>1. Held(s)
  BY DEF MailInv
<1>2. CASE worker[s].d = 0
  BY <1>1, <1>2 DEF Held
<1>3. CASE worker[s].d # 0
  <2>1. worker[s].d \in Posted /\ To(worker[s].d) = s
    BY <1>1, <1>3 DEF Held
  <2>2. worker[s].d \in Posted' /\ To(worker[s].d)' = s
    BY <2>1 DEF AddressKept
  <2> QED BY <1>1, <1>3, <2>1, <2>2 DEF Held
<1> QED BY <1>2, <1>3

\* Two workers hold two deliveries.
LEMMA HeldApart ==
  ASSUME MailInv, NEW s \in Sessions, NEW t \in Sessions, s # t, worker[s].d \in Posted
  PROVE  worker[s].d # worker[t].d
BY DEF MailInv, Held, Posted, Deliveries

\* The rest of the invariant after a routine step.
LEMMA RoutineKeeps ==
  ASSUME MailInv, TypeOK', Routine
  PROVE  Addressed' /\ AddressKept /\ NotYetStarted' /\ OneOwner'
<1>1. Posted' = Posted /\ AddressKept /\ Addressed'
  BY RoutineKeepsAddresses
<1>2. \A d \in Deliveries : Progresses(d)
  BY DEF Routine
<1>3. NotYetStarted'
  BY <1>2 DEF MailInv, NotYetStarted, Progresses, Unresolved, Owned
<1>4. \A d \in Deliveries : mail'[d].state \in Owned => mail[d].state \in Owned
  BY <1>2 DEF Progresses, Unresolved, Owned
<1>5. \A d \in Posted : d \in Deliveries
  BY DEF Posted
<1>6. OneOwner'
  BY <1>1, <1>4, <1>5 DEF MailInv, OneOwner, AddressKept
<1> QED BY <1>1, <1>3, <1>6
\* Whatever a worker holds, its session owns.
LEMMA HeldOwned ==
  ASSUME MailInv, NEW s \in Sessions, worker[s].d # 0
  PROVE  /\ worker[s].d \in Posted /\ worker[s].d \in Deliveries
         /\ To(worker[s].d) = s /\ mail[worker[s].d].state \in Owned
<1>1. Held(s) /\ worker[s].pc \in WorkerPcs
  BY DEF MailInv, TypeOK
<1>2. worker[s].pc \notin {"none", "claim"}
  BY <1>1 DEF Held
<1> QED BY <1>1, <1>2 DEF Held, WorkerPcs, Owned, Posted

\* The workers that do not move keep their holds.
LEMMA OthersHeld ==
  ASSUME MailInv, AddressKept, NEW s,
         \A t \in Sessions : t # s => worker'[t] = worker[t],
         \A d \in Deliveries : mail[d].state \in Owned /\ (s \in Sessions => d # worker[s].d) =>
            /\ \/ mail'[d].state = mail[d].state
               \/ mail[d].state = "claimed" /\ mail'[d].state = "review"
            /\ turn'[d].starts = turn[d].starts
            /\ turn'[d].state = "none" <=> turn[d].state = "none"
  PROVE  \A t \in Sessions : t # s => Held(t)'
<1>1. ASSUME NEW t \in Sessions, t # s PROVE Held(t)'
  <2> DEFINE d == worker[t].d
  <2>1. ASSUME d \in Posted
        PROVE  /\ \/ mail'[d].state = mail[d].state
                  \/ mail[d].state = "claimed" /\ mail'[d].state = "review"
               /\ turn'[d].starts = turn[d].starts
               /\ turn'[d].state = "none" <=> turn[d].state = "none"
    <3>1. d # 0
      BY <2>1 DEF Posted, Deliveries
    <3>2. d \in Deliveries /\ mail[d].state \in Owned
      BY <3>1, HeldOwned
    <3>3. s \in Sessions => d # worker[s].d
      BY <1>1, <2>1, HeldApart
    <3> QED BY <3>2, <3>3
  <2>2. worker'[t] = worker[t]
    BY <1>1
  <2> QED BY <2>1, <2>2, HeldKept
<1> QED BY <1>1

\* A working worker is one of a daemon that is up.
LEMMA WorkersAreUp ==
  ASSUME MailInv, NEW s \in Sessions, worker[s].pc # "none"
  PROVE  boot = "up"
BY DEF MailInv, NoWorkers

\* The hold of a worker after its own routine step.
LEMMA WorkerKeepsHold ==
  ASSUME MailInv, AddressKept, NEW s \in Sessions,
         \/ Check(s) \/ Abandon(s) \/ Drop(s) \/ Resolve(s) \/ Settle(s)
         \/ StartFails(s) \/ StartBusy(s) \/ Link(s)
         \/ WaitOver(s) \/ WorkerDies(s) \/ WaitResumed(s) \/ Fail(s) \/ Dispatch(s)
         \/ Claim(s) /\ UNCHANGED mail
  PROVE  Held(s)' /\ \A t \in Sessions : t # s => Held(t)'
<1>1. Held(s) /\ worker[s].pc \in WorkerPcs
  BY DEF MailInv, TypeOK
<1> PICK d : d = worker[s].d
  OBVIOUS
<1>2. worker[s].pc \notin {"none", "claim"} =>
        d \in Posted /\ d \in Deliveries /\ d \in Posted' /\ To(d)' = s
  BY HeldDelivery DEF AddressKept
<1>3. ASSUME WorkerNow(s, "claim", 0) PROVE Held(s)'
  BY <1>3 DEF WorkerNow, Held
<1>4. ASSUME NEW before, NEW after \in DeliveryStates, Transition(s, before, after)
      PROVE  Held(s)' /\ \A t \in Sessions : t # s => Held(t)'
  <2>1. Leaves(s, before, after)
    BY <1>4, TransitionDoes
  <2>2. \A t \in Sessions : t # s => worker'[t] = worker[t]
    BY <2>1 DEF Leaves, WorkerNow
  <2>3. \A e \in Deliveries : e # worker[s].d =>
            mail'[e].state = mail[e].state /\ turn'[e] = turn[e]
    BY <2>1 DEF Leaves, Marked
  <2> QED BY <1>3, <2>1, <2>2, <2>3, OthersHeld DEF Leaves
<1>5. CASE Drop(s) \/ Resolve(s) \/ Settle(s) \/ StartFails(s)
  <2>1. {"cancelled", "settled", "review"} \subseteq DeliveryStates
    BY DEF DeliveryStates, Unresolved, Owned
  <2> QED BY <1>4, <1>5, <2>1 DEF Drop, Resolve, Settle, StartFails
<1>6. ASSUME NEW pc, Moves(s, pc), pc = "claim" => d = 0,
             d # 0 => pc \notin {"none", "claim"} /\ d \in Posted' /\ To(d)' = s,
             pc # "claim" => d # 0,
             pc \in {"check", "start", "abandon", "drop"} =>
                 /\ mail[d].state \in {"claimed", "review"}
                 /\ turn[d].state = "none" /\ turn[d].starts = 0,
             pc = "resolve" => mail[d].state \in {"claimed", "review"},
             pc = "fail" => mail[d].state = "running",
             pc \in {"check", "start", "abandon", "drop", "resolve", "fail", "claim"}
      PROVE  Held(s)' /\ \A t \in Sessions : t # s => Held(t)'
  <2>1. /\ worker'[s].pc = pc /\ worker'[s].d = d /\ UNCHANGED <<mail, turn>>
        /\ \A t \in Sessions : t # s => worker'[t] = worker[t]
    BY <1>6 DEF Moves, WorkerNow
  <2>2. Held(s)'
    BY <1>6, <2>1 DEF Held
  <2>3. \A t \in Sessions : t # s => Held(t)'
    BY <2>1, OthersHeld
  <2> QED BY <2>2, <2>3
<1>7. CASE Check(s) \/ Abandon(s) \/ StartBusy(s)
  <2>1. /\ worker[s].pc \in {"check", "abandon", "start"} /\ d # 0
        /\ mail[d].state \in {"claimed", "review"}
        /\ turn[d].state = "none" /\ turn[d].starts = 0
    BY <1>1, <1>7 DEF Check, Abandon, StartBusy, At, Held
  <2>2. PICK pc \in {"start", "abandon", "resolve", "drop", "check"} : Moves(s, pc)
    BY <1>7, MovesDo
  <2> QED BY <1>2, <1>6, <2>1, <2>2
<1>8. CASE WaitOver(s)
  <2>1. worker[s].pc = "wait" /\ d # 0 /\ mail[d].state = "running"
    BY <1>1, <1>8 DEF WaitOver, At, Held
  <2>2. Moves(s, "fail")
    BY <1>8, MovesDo
  <2> QED BY <1>2, <1>6, <2>1, <2>2
<1>9. CASE Dispatch(s)
  <2>1. d = 0 /\ Moves(s, "claim")
    BY <1>1, <1>9, MovesDo DEF Dispatch, At, Held
  <2> QED BY <1>6, <2>1
<1>10. CASE Link(s)
  <2>1. worker[s].pc = "link" /\ d # 0 /\ mail[d].state \in {"claimed", "review"}
    BY <1>1, <1>10 DEF Link, At, Held
  <2>2. Links(s) \/ LinkRefused(s)
    BY <1>10, LinkDoes
  <2>3. /\ \A t \in Sessions : t # s => worker'[t] = worker[t]
        /\ \A e \in Deliveries : e # d =>
             mail'[e].state = mail[e].state /\ turn'[e] = turn[e]
    BY <2>2 DEF Links, LinkRefused, WorkerNow, Marked, TurnNow, MayCancel
  <2>4. \A t \in Sessions : t # s => Held(t)'
    BY <2>3, OthersHeld
  <2>5. worker'[s].d = d /\ d \in Deliveries
    BY <1>2, <2>1, <2>2 DEF Links, LinkRefused, WorkerNow
  <2>6. \/ worker'[s].pc = "wait" /\ mail'[d].state = "running"
        \/ worker'[s].pc = "resolve" /\ mail'[d].state \in {"claimed", "review"}
    BY <2>1, <2>2, <2>5 DEF Links, LinkRefused, WorkerNow, Marked
  <2> QED BY <1>2, <2>1, <2>4, <2>5, <2>6 DEF Held
<1>11. CASE WaitResumed(s)
  <2>1. worker[s].pc = "wait" /\ d # 0 /\ mail[d].state = "running"
    BY <1>1, <1>11 DEF WaitResumed, At, Held
  <2>2. UNCHANGED mail /\ (Relinks(s) \/ RelinkRefused(s) \/ RelinkBreaks(s))
    BY <1>11, WaitResumedDoes
  <2>3. /\ \A t \in Sessions : t # s => worker'[t] = worker[t]
        /\ \A e \in Deliveries : e # d => turn'[e] = turn[e]
    BY <2>2 DEF Relinks, RelinkRefused, RelinkBreaks, WorkerNow, TurnNow, MayCancel
  <2>4. \A t \in Sessions : t # s => Held(t)'
    BY <2>2, <2>3, OthersHeld
  <2>5. \/ worker'[s].d = d /\ worker'[s].pc \in {"wait", "fail"}
        \/ worker'[s].d = 0 /\ worker'[s].pc = "none"
    BY <2>1, <2>2 DEF Relinks, RelinkRefused, RelinkBreaks, WorkerNow
  <2> QED BY <1>2, <2>1, <2>2, <2>4, <2>5 DEF Held
<1>12. CASE Fail(s)
  <2>1. worker[s].pc = "fail" /\ d # 0 /\ mail[d].state = "running"
    BY <1>1, <1>12 DEF Fail, At, Held
  <2>2. Fails(s)
    BY <1>12, FailDoes
  <2>3. /\ UNCHANGED turn /\ worker'[s].d = d /\ worker'[s].pc = "settle"
        /\ \A t \in Sessions : t # s => worker'[t] = worker[t]
        /\ \A e \in Deliveries : mail[e].state # "pending" => mail'[e].state = mail[e].state
    BY <2>2 DEF Fails, WorkerNow, Marked, Questions, MailAbout
  <2>4. \A e \in Deliveries : mail[e].state \in Owned => mail'[e].state = mail[e].state
    BY <2>3 DEF Owned
  <2>5. \A t \in Sessions : t # s => Held(t)'
    BY <2>3, <2>4, OthersHeld
  <2> QED BY <1>2, <2>1, <2>3, <2>5 DEF Held
<1>13. CASE Claim(s) /\ UNCHANGED mail
  <2>1. WorkerNow(s, "none", 0) /\ UNCHANGED <<mail, turn>>
    <3>1. \A e \in Deliveries : ~Claims(s, e)
      BY <1>13 DEF Claims, Marked
    <3> QED BY <1>13, <3>1, ClaimDoes
  <2>2. Held(s)'
    BY <2>1 DEF WorkerNow, Held
  <2>3. \A t \in Sessions : t # s => Held(t)'
    BY <2>1, OthersHeld DEF WorkerNow
  <2> QED BY <2>2, <2>3
<1>14. CASE WorkerDies(s)
  <2>1. Dies(s)
    BY <1>14, WorkerDiesDoes
  <2>2. Held(s)'
    BY <2>1 DEF Dies, WorkerNow, Held
  <2>3. \A t \in Sessions : t # s => Held(t)'
    BY <2>1, OthersHeld DEF Dies, WorkerNow
  <2> QED BY <2>2, <2>3
<1> QED BY <1>5, <1>7, <1>8, <1>9, <1>10, <1>11, <1>12, <1>13, <1>14
\* A routine step of the other actors leaves the workers where they are, or ends
\* them all.
LEMMA HostKeepsHolds ==
  ASSUME MailInv, AddressKept,
         \/ \E d \in Deliveries : TurnStep(d)
         \/ \E s \in Sessions, g \in Scopes : BeginScope(s, g)
         \/ \E mode \in ScopeStates, g \in Scopes : StopScope(g, mode)
         \/ \E mode \in ScopeStates, r \in Requests : StopAssignment(r, mode)
         \/ \E r \in Requests : Sweep(r)
         \/ \E c \in stops : CancelRuns(c)
         \/ Crash \/ RecoverUncertain \/ SettleInterrupted
  PROVE  NoWorkers' /\ \A t \in Sessions : Held(t)'
<1>1. TypeOK
  BY DEF MailInv
<1>2. ASSUME UNCHANGED worker, boot' = boot,
             \A d \in Deliveries : mail[d].state \in Owned =>
                /\ \/ mail'[d].state = mail[d].state
                   \/ mail[d].state = "claimed" /\ mail'[d].state = "review"
                /\ turn'[d].starts = turn[d].starts
                /\ turn'[d].state = "none" <=> turn[d].state = "none"
      PROVE  NoWorkers' /\ \A t \in Sessions : Held(t)'
  <2>1. NoWorkers'
    BY <1>2 DEF MailInv, NoWorkers
  <2>2. PICK s : s \notin Sessions
    <3>1. \E s : s \notin Sessions
      BY NoSetContainsEverything, Zenon
    <3> QED BY <3>1
  <2>3. \A t \in Sessions : t # s => Held(t)'
    BY <1>2, OthersHeld
  <2> QED BY <2>1, <2>2, <2>3
<1>3. ASSUME \A t \in Sessions : worker'[t].pc = "none" /\ worker'[t].d = 0
      PROVE  NoWorkers' /\ \A t \in Sessions : Held(t)'
  BY <1>3 DEF NoWorkers, Held
<1>4. ASSUME NEW d \in Deliveries, TurnStep(d) PROVE NoWorkers' /\ \A t \in Sessions : Held(t)'
  <2>1. UNCHANGED <<mail, worker, boot>> /\ TurnStepDoes(d)
    BY <1>1, <1>4, TurnSteps
  <2>2. \A e \in Deliveries : /\ turn'[e].starts = turn[e].starts
                              /\ turn'[e].state = "none" <=> turn[e].state = "none"
    BY <2>1 DEF TurnStepDoes, TurnNow
  <2> QED BY <1>2, <2>1, <2>2
<1>5. ASSUME NEW s \in Sessions, NEW g \in Scopes, BeginScope(s, g)
      PROVE  NoWorkers' /\ \A t \in Sessions : Held(t)'
  BY <1>1, <1>2, <1>5, BeginScopeDoes
<1>6. ASSUME NEW mode \in ScopeStates, NEW g \in Scopes, StopScope(g, mode)
      PROVE  NoWorkers' /\ \A t \in Sessions : Held(t)'
  <2>1. ScopeRestricted(g, mode) /\ UNCHANGED <<turn, worker, boot>>
    BY <1>1, <1>6, StopScopeDoes
  <2> QED BY <1>2, <2>1 DEF ScopeRestricted, FencedNow, Owned
<1>7. ASSUME NEW mode \in ScopeStates, NEW r \in Requests, StopAssignment(r, mode)
      PROVE  NoWorkers' /\ \A t \in Sessions : Held(t)'
  <2>1. RequestRestricted(r, mode) /\ UNCHANGED <<turn, worker, boot>>
    BY <1>1, <1>7, StopAssignmentDoes
  <2> QED BY <1>2, <2>1 DEF RequestRestricted, FencedNow, Owned
<1>8. ASSUME NEW r \in Requests, Sweep(r) PROVE NoWorkers' /\ \A t \in Sessions : Held(t)'
  BY <1>1, <1>2, <1>8, SweepDoes
<1>9. ASSUME NEW c \in stops, CancelRuns(c) PROVE NoWorkers' /\ \A t \in Sessions : Held(t)'
  <2>1. CancelsAll(Targets(c)) /\ UNCHANGED <<mail, worker, boot>>
    BY <1>1, <1>9, CancelRunsDoes
  <2> QED BY <1>2, <2>1 DEF CancelsAll, CancelledTurn
<1>10. CASE Crash
  BY <1>1, <1>3, <1>10, CrashDoes DEF Crashes
<1>11. CASE RecoverUncertain \/ SettleInterrupted
  <2>1. boot # "up" /\ UNCHANGED worker
    BY <1>1, <1>11, RecoveryDoes
  <2>2. \A t \in Sessions : worker[t].pc = "none" /\ worker[t].d = 0
    BY <2>1 DEF MailInv, NoWorkers, Held
  <2> QED BY <1>3, <2>1, <2>2
<1> QED BY <1>4, <1>5, <1>6, <1>7, <1>8, <1>9, <1>10, <1>11

WorkerRoutineStep(s) ==
    \/ Check(s) \/ Abandon(s) \/ Drop(s) \/ Resolve(s) \/ Settle(s)
    \/ StartFails(s) \/ StartBusy(s) \/ Link(s)
    \/ WaitOver(s) \/ WorkerDies(s) \/ WaitResumed(s) \/ Fail(s) \/ Dispatch(s)
    \/ Claim(s) /\ UNCHANGED mail

HostStep ==
    \/ \E d \in Deliveries : TurnStep(d)
    \/ \E s \in Sessions, g \in Scopes : BeginScope(s, g)
    \/ \E mode \in ScopeStates, g \in Scopes : StopScope(g, mode)
    \/ \E mode \in ScopeStates, r \in Requests : StopAssignment(r, mode)
    \/ \E r \in Requests : Sweep(r)
    \/ \E c \in stops : CancelRuns(c)
    \/ Crash \/ RecoverUncertain \/ SettleInterrupted

\* Every step is one of these.
LEMMA StepCases ==
  ASSUME Next
  PROVE  \/ \E s \in Sessions : WorkerRoutineStep(s)
         \/ \E s \in Sessions : Claim(s) /\ mail' # mail
         \/ \E s \in Sessions : StartOk(s)
         \/ HostStep
         \/ \E s \in Sessions, g \in Scopes, r \in Requests : CreateRequest(g, s, r)
         \/ \E d \in Deliveries, kind \in Kinds : Post(d, kind)
<1>1. ASSUME NEW s \in Sessions, Work(s)
      PROVE  WorkerRoutineStep(s) \/ (Claim(s) /\ mail' # mail) \/ StartOk(s)
  BY <1>1 DEF Work, WorkerRoutineStep
<1>2. ASSUME NEW s \in Sessions, Dispatch(s) PROVE WorkerRoutineStep(s)
  BY <1>2 DEF WorkerRoutineStep
<1>3. ASSUME NEW d \in Deliveries,
             TurnEnds(d) \/ TurnBreaks(d) \/ TurnPauses(d) \/ Resume(d) \/ DropPaused(d)
      PROVE  HostStep
  BY <1>3 DEF TurnStep, HostStep
<1> QED BY <1>1, <1>2, <1>3 DEF Next, HostStep

\* Every step keeps the mailboxes' invariant.
LEMMA MailStep ==
  ASSUME MailInv, [Next]_vars
  PROVE  MailInv'
<1>0. TypeOK
  BY DEF MailInv
<1>1. ASSUME NEW s \in Sessions, WorkerRoutineStep(s) PROVE MailInv'
  <2>1. TypeOK' /\ Routine
    BY <1>1, WorkerRoutine DEF WorkerRoutineStep
  <2>2. Addressed' /\ AddressKept /\ NotYetStarted' /\ OneOwner'
    BY <2>1, RoutineKeeps
  <2>3. Held(s)' /\ \A t \in Sessions : t # s => Held(t)'
    BY <1>1, <2>2, WorkerKeepsHold DEF WorkerRoutineStep
  <2>4. boot' = "up"
    <3>1. boot = "up"
      BY <1>1, WorkersAreUp
         DEF WorkerRoutineStep, Check, Abandon, Drop, Resolve, Settle, StartFails, StartBusy,
             Link, WaitOver, WorkerDies, WaitResumed, Fail, Dispatch, Claim, At
    <3>2. boot' = boot
      BY <1>1 DEF WorkerRoutineStep, Check, Abandon, Drop, Resolve, Settle, StartFails,
             StartBusy, Link, WaitOver, WorkerDies, WaitResumed, Fail, Dispatch, Claim,
             Transition
    <3> QED BY <3>1, <3>2
  <2> QED BY <2>1, <2>2, <2>3, <2>4 DEF MailInv, NoWorkers
<1>2. ASSUME HostStep PROVE MailInv'
  <2>1. TypeOK' /\ Routine
    BY <1>2, HostRoutine DEF HostStep
  <2>2. Addressed' /\ AddressKept /\ NotYetStarted' /\ OneOwner'
    BY <2>1, RoutineKeeps
  <2>3. NoWorkers' /\ \A t \in Sessions : Held(t)'
    BY <1>2, <2>2, HostKeepsHolds DEF HostStep
  <2> QED BY <2>1, <2>2, <2>3 DEF MailInv
<1>3. ASSUME NEW s \in Sessions, Claim(s), mail' # mail PROVE MailInv'
  <2>1. PICK d \in Deliveries : Claims(s, d)
    BY <1>3, ClaimDoes
  <2>2. Still /\ UNCHANGED <<req, turn>>
    BY <1>3, <2>1, ClaimDoes DEF Claims
  <2>3. TypeOK'
    BY <1>0, <2>1, <2>2, TypesByName, TypesNext DEF Claims, Still, Marked, WorkerNow
  <2>4. /\ \A e \in Deliveries : /\ mail'[e].of = mail[e].of /\ mail'[e].kind = mail[e].kind
                                 /\ e # d => mail'[e].state = mail[e].state
        /\ mail'[d].state = "claimed" /\ mail[d].state = "pending"
    BY <2>1 DEF Claims, Marked
  <2>5. Posted' = Posted
    BY <2>4 DEF Posted
  <2>6. AddressKept
    <3>1. \A e \in Posted : /\ mail'[e].of = mail[e].of /\ mail'[e].kind = mail[e].kind
                            /\ mail'[e].state # "none"
      BY <2>4 DEF Posted
    <3>2. \A g \in Scopes : ScopeStays(g)
      BY <2>2 DEF Still, ScopeStays
    <3> QED BY <2>2, <3>1, <3>2, StaysAddressed DEF MailInv
  <2>7. Addressed'
    BY <2>2, <2>5, <2>6 DEF MailInv, Addressed, AddressKept, Still, Source
  <2>8. NotYetStarted'
    BY <2>2, <2>4 DEF MailInv, NotYetStarted
  <2>9. OneOwner'
    <3>1. \A e \in Posted : To(e) = s => mail[e].state \notin Owned
      BY <2>1 DEF Claims
    <3>2. To(d) = s /\ \A e \in Posted : e \in Deliveries
      BY <2>1 DEF Claims, Posted
    <3> QED BY <2>4, <2>5, <2>6, <3>1, <3>2 DEF MailInv, OneOwner, AddressKept
  <2>10. worker[s].pc = "claim" /\ worker[s].d = 0
    BY <1>3 DEF MailInv, Held, Claim, At
  <2>11. \A t \in Sessions : t # s => Held(t)'
    <3>1. \A t \in Sessions : t # s => worker'[t] = worker[t]
      BY <2>1 DEF Claims, WorkerNow
    <3>2. \A e \in Deliveries : mail[e].state \in Owned => mail'[e].state = mail[e].state
      BY <2>4 DEF Owned
    <3> QED BY <2>2, <2>6, <3>1, <3>2, OthersHeld
  <2>12. Held(s)'
    <3>1. worker'[s].pc = "check" /\ worker'[s].d = d
      BY <2>1 DEF Claims, WorkerNow
    <3>2. d \in Posted' /\ To(d)' = s /\ d # 0
      BY <2>1, <2>6 DEF Claims, AddressKept, Deliveries
    <3>3. turn'[d].state = "none" /\ turn'[d].starts = 0
      BY <2>2, <2>4 DEF MailInv, NotYetStarted
    <3> QED BY <2>4, <3>1, <3>2, <3>3 DEF Held
  <2>13. NoWorkers'
    BY <2>2, <2>10, WorkersAreUp DEF NoWorkers, Still
  <2> QED BY <2>3, <2>7, <2>8, <2>9, <2>11, <2>12, <2>13 DEF MailInv
<1>4. ASSUME NEW s \in Sessions, StartOk(s) PROVE MailInv'
  <2>1. PICK d : d = worker[s].d
    OBVIOUS
  <2>2. Still /\ StartOkDoes(s) /\ worker[s].pc = "start" /\ Held(s)
    BY <1>4, StartOkStarts DEF StartOk, At, MailInv
  <2>3. TypeOK'
    BY <1>0, <2>2, TypesByName, TypesNext DEF StartOkDoes, Still, TurnNow, WorkerNow
  <2>4. d \in Posted /\ d \in Deliveries /\ To(d) = s /\ mail[d].state \in {"claimed", "review"}
    BY <2>1, <2>2, HeldDelivery DEF Held
  <2>5. UNCHANGED <<scope, req, mail>> /\ Posted' = Posted
    BY <2>2 DEF StartOkDoes, Still, Posted
  <2>6. AddressKept /\ Addressed' /\ OneOwner'
    BY <2>5 DEF AddressKept, MailInv, Addressed, OneOwner, To, Of, Recipient, Source
  <2>7. /\ \A e \in Deliveries : e # d => turn'[e] = turn[e]
        /\ turn'[d].starts = 1
        /\ worker'[s].pc = "link" /\ worker'[s].d = d
        /\ \A t \in Sessions : t # s => worker'[t] = worker[t]
    BY <2>1, <2>2 DEF StartOkDoes, TurnNow, WorkerNow
  <2>8. NotYetStarted'
    BY <2>4, <2>5, <2>7 DEF MailInv, NotYetStarted
  <2>9. \A t \in Sessions : t # s => Held(t)'
    BY <2>1, <2>5, <2>6, <2>7, OthersHeld
  <2>10. Held(s)'
    BY <2>4, <2>5, <2>6, <2>7 DEF Held, AddressKept, Deliveries
  <2>11. NoWorkers'
    BY <2>2, WorkersAreUp DEF NoWorkers, Still
  <2> QED BY <2>3, <2>6, <2>8, <2>9, <2>10, <2>11 DEF MailInv
<1>5. ASSUME NEW d \in Deliveries, NEW r, NEW kind, NEW st \in {"pending", "settled", "cancelled"},
             NEW C, C \subseteq {e \in Posted : mail[e].state = "pending"},
             NewMessage(d, r, kind, st, C), Posted' = Posted \cup {d}, d \notin Posted,
             AddressKept, Addressed', TypeOK', Still, UNCHANGED <<turn, worker>>
      PROVE  MailInv'
  <2>1. \A e \in Deliveries : e # d /\ mail[e].state # "pending" => mail'[e].state = mail[e].state
    BY <1>5 DEF NewMessage
  <2>2. \A e \in Deliveries : mail[e].state \in Owned => mail'[e].state = mail[e].state
    BY <1>5, <2>1 DEF Posted, Owned
  <2>3. \A e \in Deliveries : mail'[e].state \in Owned => mail[e].state \in Owned /\ e \in Posted
    BY <1>5 DEF NewMessage, Owned, Posted
  <2>4. NotYetStarted'
    <3>1. mail[d].state = "none"
      BY <1>5 DEF Posted
    <3>2. \A e \in Deliveries : mail'[e].state \in {"none", "pending"} =>
             mail[e].state \in {"none", "pending"}
      BY <1>5, <3>1 DEF NewMessage
    <3> QED BY <1>5, <3>2 DEF MailInv, NotYetStarted
  <2>5. OneOwner'
    <3>1. \A e \in Posted' : e \in Deliveries
      BY <1>5 DEF Posted
    <3> QED BY <1>5, <2>3, <3>1 DEF MailInv, OneOwner, AddressKept
  <2>6. PICK s : s \notin Sessions
    <3>1. \E s : s \notin Sessions
      BY NoSetContainsEverything, Zenon
    <3> QED BY <3>1
  <2>7. \A t \in Sessions : t # s => Held(t)'
    BY <1>5, <2>2, <2>6, OthersHeld
  <2>8. NoWorkers'
    BY <1>5 DEF MailInv, NoWorkers, Still
  <2> QED BY <1>5, <2>4, <2>5, <2>6, <2>7, <2>8 DEF MailInv
<1>6. ASSUME NEW s \in Sessions, NEW g \in Scopes, NEW r \in Requests, CreateRequest(g, s, r)
      PROVE  MailInv'
  <2>1. Creates(g, s, r) /\ Still /\ UNCHANGED <<turn, worker>>
    BY <1>6, CreateDoes
  <2>2. PICK d \in Deliveries :
           /\ NewMessage(d, r, "request", "pending", {})
           /\ Posted' = Posted \cup {d} /\ d \notin Posted /\ AddressKept /\ Addressed'
    BY <2>1, CreateKeepsAddresses DEF Still
  <2>3. TypeOK'
    BY <1>0, <2>1, <2>2, TypesByName, TypesNext DEF Still, Creates, NewMessage
  <2> QED BY <1>5, <2>1, <2>2, <2>3
<1>7. ASSUME NEW d0 \in Deliveries, NEW kind \in Kinds, Post(d0, kind)
      PROVE  MailInv'
  <2>1. Posts(d0, kind) /\ Still /\ UNCHANGED <<turn, worker>>
    BY <1>7, PostDoes
  <2>2. PICK d \in Deliveries :
           /\ NewMessage(d, Of(d0), kind, FirstState(kind, Executable(Of(d0), kind)),
                         Retired(Of(d0), kind))
           /\ Posted' = Posted \cup {d} /\ d \notin Posted /\ AddressKept /\ Addressed'
    BY <2>1, PostKeepsAddresses DEF Still
  <2>3. TypeOK'
    BY <1>0, <2>1, <2>2, TypesByName, TypesNext DEF Still, Posts, Moved, NewMessage
  <2>4. /\ FirstState(kind, Executable(Of(d0), kind)) \in {"pending", "settled", "cancelled"}
        /\ Retired(Of(d0), kind) \subseteq {e \in Posted : mail[e].state = "pending"}
    BY DEF FirstState, Retired, Questions, MailAbout
  <2> QED BY <1>5, <2>1, <2>2, <2>3, <2>4
<1>8. CASE UNCHANGED vars
  <2>1. UNCHANGED <<scope, req, mail, turn, worker, stops, boot, crashes, pauses, breaks>>
    BY <1>8 DEF vars, bounds
  <2>2. TypeOK' /\ NotYetStarted' /\ NoWorkers'
    BY <2>1 DEF MailInv, TypeOK, NotYetStarted, NoWorkers
  <2>3. Posted' = Posted /\ Addressed'
    BY <2>1 DEF MailInv, Addressed, Posted, Of, Source
  <2>4. OneOwner' /\ \A s \in Sessions : Held(s)'
    BY <2>1, <2>3 DEF MailInv, OneOwner, Held, To, Of, Recipient, Source
  <2> QED BY <2>2, <2>3, <2>4 DEF MailInv
<1> QED BY <1>1, <1>2, <1>3, <1>4, <1>6, <1>7, <1>8, StepCases

\* Initially nothing is posted.
LEMMA MailInit ==
  ASSUME Init
  PROVE  MailInv
<1> DEFINE s0 == CHOOSE s \in Sessions : TRUE
<1>1. s0 \in Sessions
  BY DEF CollaborationAssumption
<1> HIDE DEF s0
<1>2. TypeOK
  BY <1>1 DEF Init, TypeOK, NoTurn, Idle, ScopeStates, Kinds, WorkerPcs, s0
<1>3. Posted = {}
  BY DEF Init, Posted
<1>4. Addressed
  <2>1. \E n \in 0 .. MaxDeliveries : Posted = 1 .. n
    <3>1. 0 \in 0 .. MaxDeliveries /\ 1 .. 0 = {}
      BY DEF CollaborationAssumption
    <3> QED BY <1>3, <3>1
  <2>2. \A r \in Requests : req[r].state = "none"
    BY DEF Init
  <2> QED BY <1>3, <2>1, <2>2 DEF Addressed
<1>5. NotYetStarted /\ OneOwner /\ NoWorkers /\ \A s \in Sessions : Held(s)
  BY <1>3 DEF Init, NotYetStarted, OneOwner, NoWorkers, Held, NoTurn, Idle
<1> QED BY <1>2, <1>4, <1>5 DEF MailInv

\* Every variable has its type, deliveries are numbered and addressed as they are
\* posted, and a worker holds what its session owns.
THEOREM MailboxInvariant == Spec => []MailInv
BY MailInit, MailStep, PTL DEF Spec
-----------------------------------------------------------------------------
(* The mailboxes keep the promise of Mailbox.                              *)

\* The types, that of each variable.
THEOREM TypesHold == Spec => []TypeOK
BY MailboxInvariant, PTL DEF MailInv

BoxOf(st) ==
    IF st = "none" THEN "new" ELSE IF st = "pending" THEN "waiting"
    ELSE IF st \in Owned THEN "owned" ELSE "closed"

\* The refinement mapping, message by message.
LEMMA BoxIs ==
  /\ \A d \in Deliveries : box[d] = BoxOf(mail[d].state)
  /\ \A d \in Deliveries : box'[d] = BoxOf(mail'[d].state)
  /\ box = [d \in Deliveries |-> box[d]] /\ box' = [d \in Deliveries |-> box'[d]]
BY DEF box, BoxOf, Owned

\* A routine step closes messages.
LEMMA RoutineCloses ==
  ASSUME MailInv, TypeOK', Routine
  PROVE  MailboxOf!Close
<1> DEFINE C == {d \in Deliveries : box[d] \in {"waiting", "owned"} /\ box'[d] = "closed"}
<1>1. Posted' = Posted /\ AddressKept
  BY RoutineKeepsAddresses
<1>2. \A d \in Deliveries : Progresses(d)
  BY DEF Routine
<1>3. ASSUME NEW d \in Deliveries
      PROVE  box'[d] = box[d] \/ (box[d] \in {"waiting", "owned"} /\ box'[d] = "closed")
  <2>1. box[d] = BoxOf(mail[d].state) /\ box'[d] = BoxOf(mail'[d].state)
    BY <1>3, BoxIs
  <2> QED BY <1>2, <1>3, <2>1 DEF Progresses, BoxOf, Unresolved, Owned
<1>4. box' = [d \in Deliveries |-> IF d \in C THEN "closed" ELSE box[d]]
  <2>1. \A d \in Deliveries : box'[d] = IF d \in C THEN "closed" ELSE box[d]
    BY <1>3
  <2> HIDE DEF C
  <2> QED BY <2>1, BoxIs
<1>5. to' = to
  BY <1>1 DEF to, AddressKept
<1>6. runs' = runs
  BY <1>2 DEF runs, Progresses
<1>7. C \subseteq {d \in Deliveries : box[d] \in {"waiting", "owned"}}
  OBVIOUS
<1> HIDE DEF C
<1>8. MailboxOf!Closed(C)
  BY <1>4, <1>5, <1>6, <1>7 DEF MailboxOf!Closed
<1>9. C \in SUBSET Deliveries
  BY <1>7
<1> QED BY <1>8, <1>9 DEF MailboxOf!Close
\* A claim takes the oldest waiting message.
LEMMA ClaimTakes ==
  ASSUME MailInv, NEW s \in Sessions, NEW d \in Deliveries, Claims(s, d), Still
  PROVE  MailboxOf!Take(d)
<1>1. /\ \A e \in Deliveries : /\ mail'[e].of = mail[e].of /\ mail'[e].kind = mail[e].kind
                               /\ e # d => mail'[e].state = mail[e].state
      /\ mail'[d].state = "claimed" /\ mail[d].state = "pending"
      /\ d \in Posted /\ To(d) = s /\ UNCHANGED <<req, turn, scope>>
      /\ \A e \in Posted : To(e) = s => /\ mail[e].state \notin Owned
                                        /\ mail[e].state = "pending" => d <= e
  BY DEF Claims, Marked, Still
<1>2. box[d] = "waiting" /\ box'[d] = "owned"
  BY <1>1, BoxIs DEF BoxOf, Owned
<1>3. ASSUME NEW n \in Deliveries, to[n] = to[d]
      PROVE  box[n] # "owned" /\ (n < d => box[n] # "waiting")
  <2>1. CASE n \in Posted
    <3>1. To(n) = s
      BY <1>1, <1>3, <2>1 DEF to
    <3>2. mail[n].state \notin Owned /\ (mail[n].state = "pending" => d <= n)
      BY <1>1, <2>1, <3>1
    <3>3. n < d => ~(d <= n)
      BY DEF Deliveries
    <3>4. box[n] = BoxOf(mail[n].state)
      BY BoxIs
    <3> QED BY <3>2, <3>3, <3>4 DEF BoxOf, Owned
  <2>2. CASE n \notin Posted
    <3>1. mail[n].state = "none"
      BY <2>2 DEF Posted
    <3> QED BY <3>1, BoxIs DEF BoxOf
  <2> QED BY <2>1, <2>2
<1>4. box' = [box EXCEPT ![d] = "owned"]
  <2>1. \A e \in Deliveries : box'[e] = IF e = d THEN "owned" ELSE box[e]
    BY <1>1, <1>2, BoxIs
  <2> QED BY <2>1, BoxIs
<1>5. to' = to /\ runs' = runs
  <2>1. Posted' = Posted
    BY <1>1 DEF Posted
  <2>2. \A e \in Posted : To(e)' = To(e)
    BY <1>1 DEF To, Of, Recipient, Source, Posted
  <2> QED BY <1>1, <2>1, <2>2 DEF to, runs
<1> QED BY <1>2, <1>3, <1>4, <1>5 DEF MailboxOf!Take

\* A start executes what the session owns.
LEMMA StartExecutes ==
  ASSUME MailInv, NEW s \in Sessions, StartOk(s)
  PROVE  \E d \in Deliveries : MailboxOf!Execute(d)
<1> PICK d : d = worker[s].d
  OBVIOUS
<1>1. Still /\ StartOkDoes(s) /\ Held(s) /\ worker[s].pc = "start"
  BY StartOkStarts DEF StartOk, At, MailInv
<1>2. /\ d \in Deliveries /\ mail[d].state \in {"claimed", "review"} /\ turn[d].starts = 0
  BY <1>1, HeldDelivery DEF Held
<1>3. /\ turn'[d].starts = 1 /\ UNCHANGED <<scope, req, mail>>
      /\ \A e \in Deliveries : e # d => turn'[e] = turn[e]
  BY <1>1 DEF StartOkDoes, TurnNow, Still
<1>4. box[d] = "owned" /\ runs[d] = 0
  BY <1>2, BoxIs DEF BoxOf, Owned, runs
<1>5. box' = box /\ to' = to
  BY <1>3 DEF box, to, Posted, To, Of, Recipient, Source
<1>6. runs' = [runs EXCEPT ![d] = 1]
  BY <1>2, <1>3 DEF runs
<1>7. MailboxOf!Execute(d)
  BY <1>4, <1>5, <1>6 DEF MailboxOf!Execute
<1> QED BY <1>2, <1>7

\* A post appends a message, and may close others that wait.
LEMMA PostAppends ==
  ASSUME MailInv, NEW d \in Deliveries, NEW r, NEW kind,
         NEW st \in {"pending", "settled", "cancelled"}, NEW C,
         C \subseteq {e \in Posted : mail[e].state = "pending"},
         NewMessage(d, r, kind, st, C), Posted' = Posted \cup {d}, d \notin Posted,
         AddressKept, MailInv', UNCHANGED turn
  PROVE  \E D \in SUBSET Deliveries : MailboxOf!Post(d, D)
<1>1. \A e \in Deliveries : e < d <=> e \in Posted
  BY DEF NewMessage
<1>2. mail[d].state = "none" /\ box[d] = "new"
  BY BoxIs DEF Posted, BoxOf
<1>3. \A n \in Deliveries : n < d => box[n] # "new"
  BY <1>1, BoxIs DEF Posted, BoxOf
<1>4. C \subseteq {n \in Deliveries : box[n] = "waiting"}
  BY BoxIs DEF Posted, BoxOf
<1>5. box' = [n \in Deliveries |-> IF n = d THEN BoxOf(st)
                                   ELSE IF n \in C THEN "closed" ELSE box[n]]
  <2>1. BoxOf("cancelled") = "closed"
    BY DEF BoxOf, Owned
  <2>2. ASSUME NEW n \in Deliveries
        PROVE  box'[n] = IF n = d THEN BoxOf(st) ELSE IF n \in C THEN "closed" ELSE box[n]
    BY <2>1, BoxIs DEF NewMessage
  <2> QED BY <2>2, BoxIs
<1>6. BoxOf(st) \in {"waiting", "closed"}
  BY DEF BoxOf, Owned
<1>7. to' = [to EXCEPT ![d] = To(d)'] /\ To(d)' \in Sessions
  <2>1. \A e \in Deliveries : e # d => (e \in Posted' <=> e \in Posted)
    OBVIOUS
  <2>2. \A e \in Deliveries : to'[e] = IF e = d THEN To(d)' ELSE to[e]
    BY <2>1 DEF to, AddressKept
  <2>3. to' = [to EXCEPT ![d] = To(d)']
    BY <2>2 DEF to
  <2>4. Of(d)' \in Requests /\ req'[Of(d)'].state # "none"
    BY DEF MailInv, Addressed
  <2>5. req'[Of(d)'].group \in Scopes /\ req'[Of(d)'].target \in Sessions
    BY <2>4 DEF MailInv, Addressed, TypeOK
  <2>6. Source(Of(d))' \in Sessions
    BY <2>5 DEF Source, MailInv, TypeOK
  <2> QED BY <2>3, <2>5, <2>6 DEF To, Recipient
<1>8. runs' = runs
  BY DEF runs
<1>9. MailboxOf!Post(d, C)
  BY <1>2, <1>3, <1>4, <1>5, <1>6, <1>7, <1>8 DEF MailboxOf!Post
<1>10. C \in SUBSET Deliveries
  BY DEF Posted
<1> QED BY <1>9, <1>10

\* Every step is a step of the abstract mailbox, or none of its business.
LEMMA StepImplements ==
  ASSUME MailInv, [Next]_vars
  PROVE  [MailboxOf!Next]_(MailboxOf!mailVars)
<1>0. MailInv' /\ TypeOK'
  BY MailStep DEF MailInv
<1>1. ASSUME NEW s \in Sessions, WorkerRoutineStep(s) PROVE MailboxOf!Next
  <2>1. TypeOK' /\ Routine
    BY <1>1, WorkerRoutine DEF WorkerRoutineStep
  <2> QED BY <2>1, RoutineCloses DEF MailboxOf!Next
<1>2. ASSUME HostStep PROVE MailboxOf!Next
  <2>1. TypeOK' /\ Routine
    BY <1>2, HostRoutine DEF HostStep
  <2> QED BY <2>1, RoutineCloses DEF MailboxOf!Next
<1>3. ASSUME NEW s \in Sessions, Claim(s), mail' # mail PROVE MailboxOf!Next
  <2>1. PICK d \in Deliveries : Claims(s, d) /\ Still
    BY <1>3, ClaimDoes
  <2>2. MailboxOf!Take(d)
    BY <2>1, ClaimTakes
  <2> QED BY <2>2 DEF MailboxOf!Next
<1>4. ASSUME NEW s \in Sessions, StartOk(s) PROVE MailboxOf!Next
  BY <1>4, StartExecutes DEF MailboxOf!Next
<1>5. ASSUME NEW s \in Sessions, NEW g \in Scopes, NEW r \in Requests, CreateRequest(g, s, r)
      PROVE  MailboxOf!Next
  <2>1. Creates(g, s, r) /\ Still /\ UNCHANGED <<turn, worker>>
    BY <1>5, CreateDoes
  <2>2. PICK d \in Deliveries :
           /\ NewMessage(d, r, "request", "pending", {})
           /\ Posted' = Posted \cup {d} /\ d \notin Posted /\ AddressKept /\ Addressed'
    BY <2>1, CreateKeepsAddresses DEF Still
  <2>3. \E D \in SUBSET Deliveries : MailboxOf!Post(d, D)
    BY <1>0, <2>1, <2>2, PostAppends
  <2> QED BY <2>3 DEF MailboxOf!Next
<1>6. ASSUME NEW d0 \in Deliveries, NEW kind \in Kinds, Post(d0, kind)
      PROVE  MailboxOf!Next
  <2>1. Posts(d0, kind) /\ Still /\ UNCHANGED <<turn, worker>>
    BY <1>6, PostDoes
  <2>2. PICK d \in Deliveries :
           /\ NewMessage(d, Of(d0), kind, FirstState(kind, Executable(Of(d0), kind)),
                         Retired(Of(d0), kind))
           /\ Posted' = Posted \cup {d} /\ d \notin Posted /\ AddressKept /\ Addressed'
    BY <2>1, PostKeepsAddresses DEF Still
  <2>3. /\ FirstState(kind, Executable(Of(d0), kind)) \in {"pending", "settled", "cancelled"}
        /\ Retired(Of(d0), kind) \subseteq {e \in Posted : mail[e].state = "pending"}
    BY DEF FirstState, Retired, Questions, MailAbout
  <2>4. \E D \in SUBSET Deliveries : MailboxOf!Post(d, D)
    BY <1>0, <2>1, <2>2, <2>3, PostAppends
  <2> QED BY <2>4 DEF MailboxOf!Next
<1>7. ASSUME UNCHANGED vars PROVE UNCHANGED MailboxOf!mailVars
  <2>1. UNCHANGED <<scope, req, mail, turn>>
    BY <1>7 DEF vars
  <2> QED BY <2>1 DEF MailboxOf!mailVars, box, to, runs, Posted, To, Of, Recipient, Source
<1> QED BY <1>1, <1>2, <1>3, <1>4, <1>5, <1>6, <1>7, StepCases

\* The store starts with empty mailboxes.
LEMMA InitImplements ==
  ASSUME Init
  PROVE  MailboxOf!Init
<1>1. Posted = {}
  BY DEF Init, Posted
<1>2. (CHOOSE s \in Sessions : TRUE) \in Sessions
  BY DEF CollaborationAssumption
<1>3. to \in [Deliveries -> Sessions]
  BY <1>1, <1>2 DEF to
<1>4. box = [d \in Deliveries |-> "new"] /\ runs = [d \in Deliveries |-> 0]
  <2>1. \A d \in Deliveries : mail[d].state = "none" /\ turn[d].starts = 0
    BY DEF Init, NoTurn
  <2>2. \A d \in Deliveries : box[d] = "new"
    BY <2>1, BoxIs DEF BoxOf
  <2>3. box = [d \in Deliveries |-> "new"]
    BY <2>2, BoxIs
  <2> QED BY <2>1, <2>3 DEF runs
<1> QED BY <1>3, <1>4 DEF MailboxOf!Init

\* The mailboxes of the store implement Mailbox: deliveries are taken in the order
\* of their posting, one at a time, and executed at most once, whatever stops,
\* refused links, retries, crashes and restarts come between claim_next and
\* settlement.
THEOREM MailboxesImplemented == Spec => ImplementsMailbox
BY MailboxInvariant, InitImplements, StepImplements, PTL
   DEF Spec, ImplementsMailbox, MailboxOf!Spec
-----------------------------------------------------------------------------
(* The turns of deliveries.                                                *)

\* A turn that nothing has cancelled is one that the worker of its delivery links or
\* waits for.
Uncancelled(t) == t.state = "paused" \/ (t.state = "live" /\ ~t.token)

Minded(d) ==
    /\ turn[d].state = "paused" => ~turn[d].token
    /\ Uncancelled(turn[d]) =>
          /\ d \in Posted
          /\ worker[To(d)].d = d /\ worker[To(d)].pc \in {"link", "wait"}

\* What a worker knows about the turn of its delivery.
AtTurn(s) ==
    LET t == turn[worker[s].d] IN
    /\ worker[s].pc = "link" => t.state = "live" /\ ~t.linked /\ ~t.token
    /\ worker[s].pc \in {"fail", "settle"} => t.state = "over" \/ t.token

TurnInv ==
    /\ \A d \in Deliveries : Minded(d)
    /\ \A s \in Sessions : AtTurn(s)

\* The recipient of a delivery is a session.
LEMMA Recipients ==
  ASSUME MailInv, NEW d \in Posted
  PROVE  /\ To(d) \in Sessions /\ d \in Deliveries /\ d # 0
         /\ Of(d) \in Requests /\ req[Of(d)].state # "none"
         /\ req[Of(d)].group \in Scopes /\ scope[req[Of(d)].group].state # "none"
         /\ req[Of(d)].target # Source(Of(d))
<1>1. Of(d) \in Requests /\ req[Of(d)].state # "none"
  BY DEF MailInv, Addressed
<1>2. /\ req[Of(d)].group \in Scopes /\ scope[req[Of(d)].group].state # "none"
      /\ req[Of(d)].target # Source(Of(d)) /\ req[Of(d)].target \in Sessions
  BY <1>1 DEF MailInv, Addressed, TypeOK
<1>3. Source(Of(d)) \in Sessions
  BY <1>2 DEF Source, MailInv, TypeOK
<1> QED BY <1>1, <1>2, <1>3 DEF To, Recipient, Posted, Deliveries

\* A turn is minded after a step that cancels nothing and moves no worker from the
\* link or from the wait.
LEMMA StaysMinded ==
  ASSUME MailInv, AddressKept, NEW d \in Deliveries, Minded(d),
         Uncancelled(turn'[d]) => Uncancelled(turn[d]),
         turn'[d].state = "paused" => ~turn'[d].token,
         \A s \in Sessions : worker[s].d = d /\ worker[s].pc \in {"link", "wait"}
            => worker'[s].d = d /\ worker'[s].pc \in {"link", "wait"}
  PROVE  Minded(d)'
<1>1. ASSUME Uncancelled(turn'[d])
      PROVE  d \in Posted' /\ worker'[To(d)'].d = d /\ worker'[To(d)'].pc \in {"link", "wait"}
  <2>1. d \in Posted /\ worker[To(d)].d = d /\ worker[To(d)].pc \in {"link", "wait"}
    BY <1>1 DEF Minded
  <2>2. d \in Posted' /\ To(d)' = To(d) /\ To(d) \in Sessions
    BY <2>1, Recipients DEF AddressKept
  <2> QED BY <2>1, <2>2
<1> QED BY <1>1 DEF Minded, Uncancelled

\* A worker that is left alone stands where it stood in its turn.
LEMMA TurnStaysAt ==
  ASSUME MailInv, NEW s \in Sessions, AtTurn(s), worker'[s] = worker[s],
         worker[s].d # 0 => turn'[worker[s].d] = turn[worker[s].d]
  PROVE  AtTurn(s)'
<1>1. CASE worker[s].d # 0
  BY <1>1 DEF AtTurn
<1>2. CASE worker[s].d = 0
  <2>1. worker[s].pc \in {"none", "claim"}
    BY <1>2 DEF MailInv, Held
  <2> QED BY <2>1 DEF AtTurn
<1> QED BY <1>1, <1>2

\* A step that leaves the turns alone, and moves one worker at most, from a place
\* that has no live turn.
LEMMA QuietForTurns ==
  ASSUME MailInv, TurnInv, AddressKept, UNCHANGED turn, NEW s,
         \A t \in Sessions : t # s => worker'[t] = worker[t],
         s \in Sessions => /\ worker[s].pc \notin {"link", "wait"} \/ worker'[s] = worker[s]
                                \/ ~Uncancelled(turn[worker[s].d])
                           /\ AtTurn(s)'
  PROVE  TurnInv'
<1>1. ASSUME NEW d \in Deliveries PROVE Minded(d)'
  <2>1. Minded(d)
    BY DEF TurnInv
  <2>2. CASE Uncancelled(turn[d])
    <3>1. \A t \in Sessions : worker[t].d = d /\ worker[t].pc \in {"link", "wait"}
            => worker'[t].d = d /\ worker'[t].pc \in {"link", "wait"}
      BY <2>2
    <3>2. turn'[d] = turn[d]
      OBVIOUS
    <3>3. turn'[d].state = "paused" => ~turn'[d].token
      BY <2>1, <3>2 DEF Minded
    <3>4. Uncancelled(turn'[d]) => Uncancelled(turn[d])
      BY <3>2
    <3> QED BY <2>1, <3>1, <3>3, <3>4, StaysMinded
  <2>3. CASE ~Uncancelled(turn[d])
    <3>1. /\ turn'[d].state # "paused"
          /\ ~(turn'[d].state = "live" /\ ~turn'[d].token)
      BY <2>3 DEF Uncancelled
    <3> QED BY ONLY <3>1 DEF Minded, Uncancelled
  <2> QED BY <2>2, <2>3
<1>2. ASSUME NEW t \in Sessions PROVE AtTurn(t)'
  <2>1. CASE t = s
    BY <2>1
  <2>2. CASE t # s
    <3>1. AtTurn(t) /\ worker'[t] = worker[t]
      BY <2>2 DEF TurnInv
    <3> QED BY <3>1, TurnStaysAt
  <2> QED BY <2>1, <2>2
<1> QED BY <1>1, <1>2 DEF TurnInv

\* No step changes the addressee of a posted message.
LEMMA StepKeepsAddresses ==
  ASSUME MailInv, [Next]_vars
  PROVE  AddressKept
<1>1. ASSUME TypeOK', Routine PROVE AddressKept
  BY <1>1, RoutineKeepsAddresses
<1>2. ASSUME UNCHANGED <<scope, req>>,
             \A e \in Deliveries : /\ mail'[e].of = mail[e].of /\ mail'[e].kind = mail[e].kind
                                   /\ mail[e].state # "none" => mail'[e].state # "none"
      PROVE  AddressKept
  <2>1. \A e \in Posted : /\ mail'[e].of = mail[e].of /\ mail'[e].kind = mail[e].kind
                          /\ mail'[e].state # "none"
    BY <1>2 DEF Posted
  <2>2. \A g \in Scopes : ScopeStays(g)
    BY <1>2 DEF ScopeStays
  <2> QED BY <1>2, <2>1, <2>2, StaysAddressed DEF MailInv
<1>3. ASSUME NEW s \in Sessions, WorkerRoutineStep(s) PROVE AddressKept
  BY <1>1, <1>3, WorkerRoutine DEF WorkerRoutineStep
<1>4. CASE HostStep
  BY <1>1, <1>4, HostRoutine DEF HostStep
<1>5. ASSUME NEW s \in Sessions, Claim(s), mail' # mail PROVE AddressKept
  <2>1. PICK d \in Deliveries : Claims(s, d) /\ Still
    BY <1>5, ClaimDoes
  <2> QED BY <1>2, <2>1 DEF Claims, Marked, Still
<1>6. ASSUME NEW s \in Sessions, StartOk(s) PROVE AddressKept
  BY <1>2, <1>6, StartOkStarts DEF StartOkDoes, Still
<1>7. ASSUME NEW s \in Sessions, NEW g \in Scopes, NEW r \in Requests, CreateRequest(g, s, r)
      PROVE  AddressKept
  BY <1>7, CreateDoes, CreateKeepsAddresses DEF Still
<1>8. ASSUME NEW d \in Deliveries, NEW kind \in Kinds, Post(d, kind) PROVE AddressKept
  BY <1>8, PostDoes, PostKeepsAddresses DEF Still
<1>9. CASE UNCHANGED vars
  BY <1>2, <1>9 DEF vars
<1> QED BY <1>3, <1>4, <1>5, <1>6, <1>7, <1>8, <1>9, StepCases

\* The steps of a worker that leave its turn alone.
WorkerMoves(s) ==
    \/ Check(s) \/ Abandon(s) \/ Drop(s) \/ Resolve(s) \/ Settle(s)
    \/ StartFails(s) \/ StartBusy(s) \/ Dispatch(s) \/ Claim(s) \/ Fail(s)

\* The worker's own steps outside of a turn.
LEMMA WorkerMovesDo ==
  ASSUME MailInv, NEW s \in Sessions, WorkerMoves(s)
  PROVE  /\ Still /\ UNCHANGED turn
         /\ worker[s].pc \notin {"link", "wait"}
         /\ \A t \in Sessions : t # s => worker'[t] = worker[t]
         /\ \/ worker'[s].pc \notin {"link", "wait", "fail", "settle"}
            \/ /\ worker[s].pc = "fail" /\ worker'[s].pc = "settle"
               /\ worker'[s].d = worker[s].d
<1>1. CASE Check(s) \/ Abandon(s) \/ StartBusy(s) \/ Dispatch(s)
  <2>1. worker[s].pc \notin {"link", "wait"}
    BY <1>1 DEF Check, Abandon, StartBusy, Dispatch, At
  <2>2. /\ Still
        /\ \E pc \in {"start", "abandon", "resolve", "drop", "check", "claim"} : Moves(s, pc)
    BY <1>1, MovesDo
  <2> QED BY <2>1, <2>2 DEF Moves, WorkerNow
<1>2. CASE Drop(s) \/ Resolve(s) \/ Settle(s) \/ StartFails(s)
  <2>1. worker[s].pc \notin {"link", "wait"}
    BY <1>2 DEF Drop, Resolve, Settle, StartFails, At
  <2>2. {"cancelled", "settled", "review", "claimed", "running"} \subseteq DeliveryStates
    BY DEF DeliveryStates, Unresolved, Owned
  <2>3. PICK before, after \in DeliveryStates : Transition(s, before, after)
    BY <1>2, <2>2 DEF Drop, Resolve, Settle, StartFails
  <2>4. Still /\ Leaves(s, before, after)
    BY <2>3, TransitionDoes
  <2> QED BY <2>1, <2>4 DEF Leaves, WorkerNow
<1>3. CASE Claim(s)
  <2>1. worker[s].pc \notin {"link", "wait"}
    BY <1>3 DEF Claim, At
  <2> QED BY <1>3, <2>1, ClaimDoes DEF Claims, WorkerNow
<1>4. CASE Fail(s)
  <2>1. worker[s].pc = "fail"
    BY <1>4 DEF Fail, At
  <2> QED BY <1>4, <2>1, FailDoes DEF Fails, WorkerNow
<1> QED BY <1>1, <1>2, <1>3, <1>4 DEF WorkerMoves

\* Cancelling a turn never revives it.
LEMMA CancelledStays ==
  ASSUME NEW t, NEW u, CancelledTurn(t, u), t.state = "paused" => ~t.token
  PROVE  /\ Uncancelled(u) => Uncancelled(t)
         /\ u.state = "paused" => ~u.token
         /\ t.state \in {"live", "paused"} => u.state = "over" \/ u.token
         /\ t.state = "over" \/ t.token => u.state = "over" \/ u.token
BY DEF CancelledTurn, Uncancelled

\* Every step keeps what workers know of their turns.
LEMMA TurnInvStep ==
  ASSUME MailInv, TurnInv, [Next]_vars
  PROVE  TurnInv'
<1>0. AddressKept /\ TypeOK
  BY StepKeepsAddresses DEF MailInv
<1>1. ASSUME NEW s \in Sessions, WorkerMoves(s) PROVE TurnInv'
  <2>1. AtTurn(s)'
    BY <1>1, WorkerMovesDo DEF TurnInv, AtTurn
  <2> QED BY <1>0, <1>1, <2>1, WorkerMovesDo, QuietForTurns
<1>2. ASSUME NEW s \in Sessions, WaitOver(s) PROVE TurnInv'
  <2>1. Moves(s, "fail") /\ turn[worker[s].d].state = "over"
    BY <1>2, MovesDo DEF WaitOver
  <2>2. /\ UNCHANGED turn /\ \A t \in Sessions : t # s => worker'[t] = worker[t]
        /\ worker'[s].pc = "fail" /\ worker'[s].d = worker[s].d
    BY <2>1 DEF Moves, WorkerNow
  <2>3. ~Uncancelled(turn[worker[s].d])
    BY <2>1 DEF Uncancelled
  <2>4. AtTurn(s)'
    BY <2>1, <2>2 DEF AtTurn
  <2> QED BY <1>0, <2>2, <2>3, <2>4, QuietForTurns
<1>18. ASSUME NEW s \in Sessions, WorkerDies(s) PROVE TurnInv'
  <2>1. Dies(s) /\ ~Uncancelled(turn[worker[s].d])
    BY <1>18, WorkerDiesDoes DEF Uncancelled
  <2>2. AtTurn(s)'
    BY <2>1 DEF Dies, WorkerNow, AtTurn
  <2> QED BY <1>0, <2>1, <2>2, QuietForTurns DEF Dies, WorkerNow
<1>3. ASSUME NEW s \in Sessions, NEW d \in Deliveries, d = worker[s].d, d \in Posted,
             \A t \in Sessions : t # s => worker'[t] = worker[t],
             \A e \in Deliveries : e # d => turn'[e] = turn[e],
             AtTurn(s)', Minded(d)'
      PROVE  TurnInv'
  <2>1. ASSUME NEW e \in Deliveries PROVE Minded(e)'
    <3>1. CASE e = d
      BY <1>3, <3>1
    <3>2. CASE e # d
      <4>1. turn'[e] = turn[e] /\ Minded(e)
        BY <1>3, <3>2 DEF TurnInv
      <4>2. \A t \in Sessions : worker[t].d = e /\ worker[t].pc \in {"link", "wait"}
               => worker'[t].d = e /\ worker'[t].pc \in {"link", "wait"}
        BY <1>3, <3>2
      <4>3. turn'[e].state = "paused" => ~turn'[e].token
        BY <4>1 DEF Minded
      <4> QED BY <1>0, <4>1, <4>2, <4>3, StaysMinded
    <3> QED BY <3>1, <3>2
  <2>2. ASSUME NEW t \in Sessions PROVE AtTurn(t)'
    <3>1. CASE t = s
      BY <1>3, <3>1
    <3>2. CASE t # s
      <4>1. AtTurn(t) /\ worker'[t] = worker[t]
        BY <1>3, <3>2 DEF TurnInv
      <4>2. worker[t].d # d
        BY <1>3, <3>2, HeldApart
      <4>3. worker[t].d # 0 => turn'[worker[t].d] = turn[worker[t].d]
        BY <1>3, <4>2, HeldOwned
      <4> QED BY <4>1, <4>3, TurnStaysAt
    <3> QED BY <3>1, <3>2
  <2> QED BY <2>1, <2>2 DEF TurnInv
<1>4. ASSUME NEW s \in Sessions, StartOk(s) PROVE TurnInv'
  <2>1. PICK d : d = worker[s].d
    OBVIOUS
  <2>2. StartOkDoes(s) /\ worker[s].pc = "start"
    BY <1>4, StartOkStarts DEF StartOk, At
  <2>3. d \in Deliveries /\ d \in Posted /\ To(d) = s
    BY <2>1, <2>2, HeldDelivery
  <2>4. /\ \A t \in Sessions : t # s => worker'[t] = worker[t]
        /\ worker'[s].pc = "link" /\ worker'[s].d = d
        /\ \A e \in Deliveries : e # d => turn'[e] = turn[e]
        /\ turn'[d].state = "live" /\ ~turn'[d].linked /\ ~turn'[d].token
    BY <2>1, <2>2 DEF StartOkDoes, TurnNow, WorkerNow
  <2>5. d \in Posted' /\ To(d)' = s
    BY <1>0, <2>3 DEF AddressKept
  <2>6. AtTurn(s)' /\ Minded(d)'
    BY <2>4, <2>5 DEF AtTurn, Minded
  <2> QED BY <1>3, <2>1, <2>3, <2>4, <2>6
<1>5. ASSUME NEW s \in Sessions, Link(s) PROVE TurnInv'
  <2>1. PICK d : d = worker[s].d
    OBVIOUS
  <2>2. (Links(s) \/ LinkRefused(s)) /\ worker[s].pc = "link"
    BY <1>5, LinkDoes DEF Link, At
  <2>3. d \in Deliveries /\ d \in Posted /\ To(d) = s
    BY <2>1, <2>2, HeldDelivery
  <2>4. turn[d].state = "live" /\ ~turn[d].linked /\ ~turn[d].token
    BY <2>1, <2>2 DEF TurnInv, AtTurn
  <2>5. d \in Posted' /\ To(d)' = s
    BY <1>0, <2>3 DEF AddressKept
  <2>6. CASE Links(s)
    <3>1. /\ \A t \in Sessions : t # s => worker'[t] = worker[t]
          /\ worker'[s].pc = "wait" /\ worker'[s].d = d
          /\ \A e \in Deliveries : e # d => turn'[e] = turn[e]
          /\ turn'[d].state = "live"
      BY <2>1, <2>4, <2>6 DEF Links, TurnNow, WorkerNow
    <3>2. AtTurn(s)' /\ Minded(d)'
      BY <2>5, <3>1 DEF AtTurn, Minded
    <3> QED BY <1>3, <2>1, <2>3, <3>1, <3>2
  <2>7. CASE LinkRefused(s)
    <3>1. /\ \A t \in Sessions : t # s => worker'[t] = worker[t]
          /\ worker'[s].pc = "resolve" /\ worker'[s].d = d
          /\ \A e \in Deliveries : e # d => turn'[e] = turn[e]
          /\ CancelledTurn(turn[d], turn'[d])
      BY <2>1, <2>7 DEF LinkRefused, MayCancel, WorkerNow
    <3>2. turn'[d].state = "live" /\ turn'[d].token
      BY <2>4, <3>1 DEF CancelledTurn
    <3>3. AtTurn(s)' /\ Minded(d)'
      BY <3>1, <3>2 DEF AtTurn, Minded, Uncancelled
    <3> QED BY <1>3, <2>1, <2>3, <3>1, <3>3
  <2> QED BY <2>2, <2>6, <2>7
<1>6. ASSUME NEW s \in Sessions, WaitResumed(s) PROVE TurnInv'
  <2>1. PICK d : d = worker[s].d
    OBVIOUS
  <2>2. (Relinks(s) \/ RelinkRefused(s) \/ RelinkBreaks(s)) /\ worker[s].pc = "wait"
    BY <1>6, WaitResumedDoes DEF WaitResumed, At
  <2>3. d \in Deliveries /\ d \in Posted /\ To(d) = s
    BY <2>1, <2>2, HeldDelivery
  <2>4. Minded(d) /\ d \in Posted' /\ To(d)' = s
    BY <1>0, <2>3 DEF AddressKept, TurnInv
  <2>5. CASE Relinks(s)
    <3>1. /\ UNCHANGED worker
          /\ \A e \in Deliveries : e # d => turn'[e] = turn[e]
          /\ turn'[d].state = turn[d].state /\ turn'[d].token = turn[d].token
      BY <2>1, <2>5 DEF Relinks, TurnNow
    <3>2. AtTurn(s)' /\ Minded(d)'
      BY <2>1, <2>2, <2>4, <3>1 DEF AtTurn, Minded
    <3> QED BY <1>3, <2>1, <2>3, <3>1, <3>2
  <2>6. CASE RelinkRefused(s)
    <3>1. /\ \A t \in Sessions : t # s => worker'[t] = worker[t]
          /\ worker'[s].pc = "fail" /\ worker'[s].d = d
          /\ \A e \in Deliveries : e # d => turn'[e] = turn[e]
          /\ CancelledTurn(turn[d], turn'[d]) /\ turn[d].state \in {"live", "paused"}
      BY <2>1, <2>6 DEF RelinkRefused, MayCancel, WorkerNow
    <3>2. turn[d].state = "paused" => ~turn[d].token
      BY <2>4 DEF Minded
    <3>3. /\ turn'[d].state = "paused" => ~turn'[d].token
          /\ turn'[d].state = "over" \/ turn'[d].token
      BY <3>1, <3>2, CancelledStays
    <3>4. AtTurn(s)' /\ Minded(d)'
      BY <3>1, <3>3 DEF AtTurn, Minded, Uncancelled
    <3> QED BY <1>3, <2>1, <2>3, <3>1, <3>4
  <2>7. CASE RelinkBreaks(s)
    <3>1. /\ \A t \in Sessions : t # s => worker'[t] = worker[t]
          /\ worker'[s].pc = "none" /\ turn'[d].state = "broken"
          /\ \A e \in Deliveries : e # d => turn'[e] = turn[e]
      BY <2>1, <2>7 DEF RelinkBreaks, TurnNow, WorkerNow
    <3>2. AtTurn(s)' /\ Minded(d)'
      BY <3>1 DEF AtTurn, Minded, Uncancelled
    <3> QED BY <1>3, <2>1, <2>3, <3>1, <3>2
  <2> QED BY <2>2, <2>5, <2>6, <2>7
<1>7. ASSUME UNCHANGED worker,
             \A e \in Deliveries :
                /\ Uncancelled(turn'[e]) => Uncancelled(turn[e])
                /\ turn'[e].state = "paused" => ~turn'[e].token,
             \A s \in Sessions : AtTurn(s)'
      PROVE  TurnInv'
  <2>1. ASSUME NEW e \in Deliveries PROVE Minded(e)'
    <3>1. Minded(e)
      BY DEF TurnInv
    <3> QED BY <1>0, <1>7, <3>1, StaysMinded
  <2> QED BY <1>7, <2>1 DEF TurnInv
<1>8. ASSUME NEW d \in Deliveries, TurnStep(d) PROVE TurnInv'
  <2>1. UNCHANGED worker /\ TurnStepDoes(d)
    BY <1>0, <1>8, TurnSteps
  <2>2. Minded(d)
    BY DEF TurnInv
  <2>3. ASSUME NEW e \in Deliveries
        PROVE  /\ Uncancelled(turn'[e]) => Uncancelled(turn[e])
               /\ turn'[e].state = "paused" => ~turn'[e].token
    <3>1. CASE e = d
      BY <2>1, <3>1 DEF TurnStepDoes, TurnNow, Uncancelled
    <3>2. CASE e # d
      BY <2>1, <3>2 DEF TurnStepDoes, TurnNow, TurnInv, Minded
    <3> QED BY <3>1, <3>2
  <2>4. ASSUME NEW s \in Sessions PROVE AtTurn(s)'
    <3>1. AtTurn(s)
      BY DEF TurnInv
    <3>2. CASE worker[s].d # d
      <4>1. worker[s].d # 0 => turn'[worker[s].d] = turn[worker[s].d]
        BY <2>1, <3>2, HeldOwned DEF TurnStepDoes, TurnNow
      <4> QED BY <2>1, <3>1, <4>1, TurnStaysAt
    <3>3. CASE worker[s].d = d
      <4>1. d # 0
        BY DEF Deliveries
      <4>2. To(d) = s
        BY <3>3, <4>1, HeldOwned
      <4>3. worker[s].pc # "link"
        <5>1. SUFFICES ASSUME worker[s].pc = "link" PROVE FALSE
          OBVIOUS
        <5>2. turn[d].state = "live"
          BY <3>1, <3>3, <5>1 DEF AtTurn
        <5>3. worker[s] \in [pc : WorkerPcs, d : Deliveries \cup {0}]
          BY <1>0 DEF TypeOK
        <5>4. worker[s] = [pc |-> "link", d |-> d]
          BY <3>3, <5>1, <5>3
        <5> QED BY <2>1, <4>2, <5>2, <5>4 DEF TurnStepDoes
      <4>4. worker[s].pc \in {"fail", "settle"} => turn'[d].state = "over" \/ turn'[d].token
        BY <2>1, <2>2, <3>1, <3>3 DEF AtTurn, Minded, TurnStepDoes, TurnNow
      <4> QED BY <2>1, <3>3, <4>3, <4>4 DEF AtTurn
    <3> QED BY <3>2, <3>3
  <2> QED BY <1>7, <2>1, <2>3, <2>4
<1>9. ASSUME NEW c \in stops, CancelRuns(c) PROVE TurnInv'
  <2>1. CancelsAll(Targets(c)) /\ UNCHANGED worker
    BY <1>0, <1>9, CancelRunsDoes
  <2>2. ASSUME NEW e \in Deliveries
        PROVE  /\ Uncancelled(turn'[e]) => Uncancelled(turn[e])
               /\ turn'[e].state = "paused" => ~turn'[e].token
               /\ turn[e].state = "over" \/ turn[e].token =>
                     turn'[e].state = "over" \/ turn'[e].token
    <3>1. turn[e].state = "paused" => ~turn[e].token
      BY DEF TurnInv, Minded
    <3>2. CancelledTurn(turn[e], turn'[e]) \/ turn'[e] = turn[e]
      BY <2>1 DEF CancelsAll
    <3> QED BY <3>1, <3>2, CancelledStays
  <2>3. ASSUME NEW s \in Sessions PROVE AtTurn(s)'
    <3>1. AtTurn(s) /\ Held(s)
      BY DEF TurnInv, MailInv
    <3>2. CASE worker[s].pc = "link"
      <4>1. worker[s].d \in Deliveries /\ worker[s].d \notin Targets(c)
        BY <3>1, <3>2, HeldDelivery DEF Held, Targets
      <4> QED BY <2>1, <3>1, <3>2, <4>1 DEF CancelsAll, AtTurn
    <3>3. CASE worker[s].pc \in {"fail", "settle"}
      <4>1. worker[s].d \in Deliveries
        BY <3>3, HeldDelivery
      <4> QED BY <2>1, <2>2, <3>1, <3>3, <4>1 DEF AtTurn
    <3> QED BY <2>1, <3>2, <3>3 DEF AtTurn
  <2> QED BY <1>7, <2>1, <2>2, <2>3
<1>10. CASE Crash
  <2>1. Crashes
    BY <1>0, <1>10, CrashDoes
  <2>2. \A s \in Sessions : AtTurn(s)'
    BY <2>1 DEF Crashes, AtTurn
  <2>3. ASSUME NEW e \in Deliveries PROVE Minded(e)'
    <3>1. turn'[e].state \notin {"live", "paused"}
      BY <2>1 DEF Crashes
    <3> QED BY <3>1 DEF Minded, Uncancelled
  <2> QED BY <2>2, <2>3 DEF TurnInv
<1>11. ASSUME UNCHANGED <<turn, worker>> PROVE TurnInv'
  <2>1. \A s \in Sessions : AtTurn(s)'
    BY <1>11 DEF TurnInv, AtTurn
  <2>2. \A e \in Deliveries : turn'[e].state = "paused" => ~turn'[e].token
    BY <1>11 DEF TurnInv, Minded
  <2> QED BY <1>7, <1>11, <2>1, <2>2
<1>12. ASSUME NEW s \in Sessions, WorkerRoutineStep(s) PROVE TurnInv'
  <2>1. WorkerMoves(s) \/ WaitOver(s) \/ WorkerDies(s) \/ Link(s) \/ WaitResumed(s)
    BY <1>12 DEF WorkerRoutineStep, WorkerMoves
  <2> QED BY <1>1, <1>2, <1>5, <1>6, <1>18, <2>1
<1>13. CASE HostStep
  BY <1>0, <1>8, <1>9, <1>10, <1>11, <1>13, BeginScopeDoes, StopScopeDoes, StopAssignmentDoes,
     SweepDoes, RecoveryDoes DEF HostStep
<1>14. ASSUME NEW s \in Sessions, Claim(s) PROVE TurnInv'
  BY <1>1, <1>14 DEF WorkerMoves
<1>15. ASSUME NEW s \in Sessions, NEW g \in Scopes, NEW r \in Requests, CreateRequest(g, s, r)
       PROVE  TurnInv'
  BY <1>11, <1>15, CreateDoes
<1>16. ASSUME NEW d \in Deliveries, NEW kind \in Kinds, Post(d, kind) PROVE TurnInv'
  BY <1>11, <1>16, PostDoes
<1>17. CASE UNCHANGED vars
  BY <1>11, <1>17 DEF vars
<1> QED BY <1>4, <1>12, <1>13, <1>14, <1>15, <1>16, <1>17, StepCases

\* The daemon starts without turns.
LEMMA TurnInvInit ==
  ASSUME Init
  PROVE  TurnInv
BY DEF Init, TurnInv, Minded, AtTurn, Uncancelled, NoTurn, Idle
-----------------------------------------------------------------------------
(* No turn of what a command has stopped runs away.                        *)

\* Some command in progress will cancel the turn of d.
Pursued(d) ==
    \E c \in stops : Of(d) \in c.about /\ (c.targets \/ To(d) = Source(Of(d)))

\* A linked turn of a stopped request is about to be cancelled.
Chased(d) ==
    /\ d \in Posted
    /\ turn[d].state = "live" /\ ~turn[d].token /\ turn[d].linked
    /\ Stopped(d)
    => Pursued(d)

RunInv == \A d \in Deliveries : Chased(d)
\* Requests and scopes keep their owners and targets.
RequestKept(r) ==
    req[r].state # "none" =>
        /\ req'[r].group = req[r].group /\ req'[r].target = req[r].target
        /\ req'[r].state # "none"

\* No step changes who a request is from and for.
LEMMA StepKeepsRequests ==
  ASSUME MailInv, [Next]_vars
  PROVE  (\A r \in Requests : RequestKept(r)) /\ (\A g \in Scopes : ScopeStays(g))
<1>1. ASSUME Routine
      PROVE  (\A r \in Requests : RequestKept(r)) /\ (\A g \in Scopes : ScopeStays(g))
  BY <1>1 DEF Routine, RequestStays, RequestKept
<1>2. ASSUME UNCHANGED scope, \A r \in Requests : RequestKept(r)
      PROVE  (\A r \in Requests : RequestKept(r)) /\ (\A g \in Scopes : ScopeStays(g))
  BY <1>2 DEF ScopeStays
<1>3. ASSUME NEW s \in Sessions, WorkerRoutineStep(s) PROVE Routine
  BY <1>3, WorkerRoutine DEF WorkerRoutineStep
<1>4. ASSUME HostStep PROVE Routine
  BY <1>4, HostRoutine DEF HostStep
<1>5. ASSUME NEW s \in Sessions, Claim(s) \/ StartOk(s)
      PROVE  UNCHANGED scope /\ \A r \in Requests : RequestKept(r)
  BY <1>5 DEF Claim, StartOk, RequestKept
<1>6. ASSUME NEW s \in Sessions, NEW g \in Scopes, NEW r \in Requests, CreateRequest(g, s, r)
      PROVE  UNCHANGED scope /\ \A q \in Requests : RequestKept(q)
  BY <1>6, CreateDoes DEF Creates, Still, RequestKept
<1>7. ASSUME NEW d \in Deliveries, NEW kind \in Kinds, Post(d, kind)
      PROVE  UNCHANGED scope /\ \A q \in Requests : RequestKept(q)
  <2>1. Posts(d, kind) /\ Still
    BY <1>7, PostDoes
  <2>2. /\ Moved({Of(d)}, NextState(Of(d), kind)) /\ MaySay(d, kind)
        /\ req[Of(d)].state \in AnsweredBy(kind)
    BY <2>1 DEF Posts
  <2>3. NextState(Of(d), kind) # "none"
    BY <2>2 DEF NextState, AnsweredBy, MaySay
  <2> QED BY <2>1, <2>2, <2>3 DEF Still, Moved, RequestKept
<1>8. CASE UNCHANGED vars
  BY <1>8 DEF vars, RequestKept, ScopeStays
<1> QED BY <1>1, <1>2, <1>3, <1>4, <1>5, <1>6, <1>7, <1>8, StepCases

\* What stays of a posted delivery.
Kept(d) ==
    /\ d \in Posted' /\ To(d)' = To(d) /\ Of(d)' = Of(d)
    /\ mail'[d].kind = mail[d].kind
    /\ Source(Of(d))' = Source(Of(d))
    /\ req'[Of(d)].group = req[Of(d)].group /\ req'[Of(d)].target = req[Of(d)].target

\* No step changes what a posted message is about.
LEMMA StepKeeps ==
  ASSUME MailInv, [Next]_vars, NEW d \in Posted
  PROVE  Kept(d)
<1>1. /\ AddressKept
      /\ (\A r \in Requests : RequestKept(r)) /\ (\A g \in Scopes : ScopeStays(g))
  BY StepKeepsAddresses, StepKeepsRequests
<1>2. /\ To(d) \in Sessions /\ d \in Deliveries
      /\ Of(d) \in Requests /\ req[Of(d)].state # "none"
      /\ req[Of(d)].group \in Scopes /\ scope[req[Of(d)].group].state # "none"
  BY Recipients
<1>3. /\ d \in Posted' /\ To(d)' = To(d) /\ Of(d)' = Of(d)
      /\ req'[Of(d)].group = req[Of(d)].group /\ req'[Of(d)].target = req[Of(d)].target
  BY <1>1, <1>2 DEF AddressKept, RequestKept
<1>4. Source(Of(d))' = Source(Of(d))
  BY <1>1, <1>2, <1>3 DEF Source, ScopeStays
<1>5. mail'[d].kind = mail[d].kind
  <2>1. ASSUME Routine PROVE mail'[d].kind = mail[d].kind
    BY <1>2, <2>1 DEF Routine, Progresses
  <2>2. ASSUME NEW s \in Sessions, WorkerRoutineStep(s) PROVE Routine
    BY <2>2, WorkerRoutine DEF WorkerRoutineStep
  <2>3. ASSUME HostStep PROVE Routine
    BY <2>3, HostRoutine DEF HostStep
  <2>4. ASSUME NEW s \in Sessions, Claim(s) PROVE mail'[d].kind = mail[d].kind
    BY <1>2, <2>4, ClaimDoes DEF Claims, Marked
  <2>5. ASSUME NEW s \in Sessions, StartOk(s) PROVE mail'[d].kind = mail[d].kind
    BY <2>5 DEF StartOk
  <2>6. ASSUME NEW s \in Sessions, NEW g \in Scopes, NEW r \in Requests, CreateRequest(g, s, r)
        PROVE  mail'[d].kind = mail[d].kind
    BY <1>2, <2>6, CreateDoes, CreateKeepsAddresses DEF NewMessage, Still
  <2>7. ASSUME NEW d0 \in Deliveries, NEW kind \in Kinds, Post(d0, kind)
        PROVE  mail'[d].kind = mail[d].kind
    BY <1>2, <2>7, PostDoes, PostKeepsAddresses DEF NewMessage, Still
  <2>8. CASE UNCHANGED vars
    BY <2>8 DEF vars
  <2> QED BY <2>1, <2>2, <2>3, <2>4, <2>5, <2>6, <2>7, <2>8, StepCases
<1> QED BY <1>3, <1>4, <1>5 DEF Kept

\* A request that exists is restricted by stop commands alone.
ContinuationKept(r) ==
    req[r].state # "none" =>
        req'[r].cont = req[r].cont /\ scope'[req[r].group].state = scope[req[r].group].state

\* Only a stop takes the continuation from a request.
LEMMA StepContinues ==
  ASSUME MailInv, [Next]_vars
  PROVE  \/ \A r \in Requests : ContinuationKept(r)
         \/ \E mode \in ScopeStates, g \in Scopes : StopScope(g, mode)
         \/ \E mode \in ScopeStates, r \in Requests : StopAssignment(r, mode)
<1>0. TypeOK
  BY DEF MailInv
<1>1. ASSUME UNCHANGED <<scope>>, \A r \in Requests : req'[r].cont = req[r].cont
      PROVE  \A r \in Requests : ContinuationKept(r)
  BY <1>1 DEF ContinuationKept
<1>2. ASSUME NEW R, NEW st, Moved(R, st), UNCHANGED scope
      PROVE  \A r \in Requests : ContinuationKept(r)
  BY <1>2 DEF ContinuationKept, Moved
<1>3. ASSUME UNCHANGED <<scope, req>> PROVE \A r \in Requests : ContinuationKept(r)
  BY <1>3 DEF ContinuationKept
<1>4. ASSUME NEW s \in Sessions, WorkerRoutineStep(s) PROVE \A r \in Requests : ContinuationKept(r)
  <2>1. CASE (WorkerMoves(s) /\ ~Fail(s)) \/ WaitOver(s) \/ WorkerDies(s) \/ WaitResumed(s)
    BY <1>3, <2>1 DEF WorkerMoves, WaitOver, WorkerDies, WaitResumed, Check, Abandon, Drop,
       Resolve, Settle, StartFails, StartBusy, Dispatch, Claim, Transition
  <2>2. CASE Fail(s)
    BY <1>2, <1>3, <2>2, FailDoes DEF Fails, Still
  <2>3. CASE Link(s)
    BY <1>2, <1>3, <2>3, LinkDoes DEF Links, LinkRefused, Still
  <2> QED BY <1>4, <2>1, <2>2, <2>3 DEF WorkerRoutineStep, WorkerMoves
<1>5. ASSUME NEW s \in Sessions, Claim(s) \/ StartOk(s)
      PROVE  \A r \in Requests : ContinuationKept(r)
  BY <1>3, <1>5 DEF Claim, StartOk
<1>6. ASSUME NEW s \in Sessions, NEW g \in Scopes, BeginScope(s, g)
      PROVE  \A r \in Requests : ContinuationKept(r)
  <2>1. ScopeOpened(g, s) /\ UNCHANGED req
    BY <1>0, <1>6, BeginScopeDoes
  <2> QED BY <2>1 DEF ScopeOpened, ContinuationKept, MailInv, Addressed
<1>7. ASSUME NEW s \in Sessions, NEW g \in Scopes, NEW r \in Requests, CreateRequest(g, s, r)
      PROVE  \A q \in Requests : ContinuationKept(q)
  BY <1>7, CreateDoes DEF Creates, Still, ContinuationKept
<1>8. ASSUME NEW d \in Deliveries, NEW kind \in Kinds, Post(d, kind)
      PROVE  \A q \in Requests : ContinuationKept(q)
  BY <1>2, <1>8, PostDoes DEF Posts, Still
<1>9. CASE \/ \E d \in Deliveries : TurnStep(d)
           \/ \E c \in stops : CancelRuns(c)
           \/ Crash \/ RecoverUncertain
  BY <1>0, <1>3, <1>9, TurnSteps, CancelRunsDoes, CrashDoes, RecoveryDoes
<1>10. CASE SettleInterrupted \/ \E r \in Requests : Sweep(r)
  BY <1>0, <1>2, <1>10, RecoveryDoes, SweepDoes
<1>11. CASE UNCHANGED vars
  BY <1>3, <1>11 DEF vars
<1> QED BY <1>4, <1>5, <1>6, <1>7, <1>8, <1>9, <1>10, <1>11, StepCases DEF HostStep

\* A restriction is never taken back.
LEMMA StepRestricts ==
  ASSUME MailInv, [Next]_vars, NEW r \in Requests, req[r].state # "none"
  PROVE  (MayContinue(r)' => MayContinue(r)) /\ (Revoked(r) => Revoked(r)')
<1>0. /\ TypeOK /\ req[r].group \in Scopes
      /\ RequestKept(r)
  BY StepKeepsRequests DEF MailInv, Addressed
<1>1. CASE ContinuationKept(r)
  BY <1>0, <1>1 DEF ContinuationKept, RequestKept, MayContinue, Revoked
<1>2. ASSUME NEW mode \in ScopeStates, NEW g \in Scopes, StopScope(g, mode)
      PROVE  (MayContinue(r)' => MayContinue(r)) /\ (Revoked(r) => Revoked(r)')
  <2>1. ScopeRestricted(g, mode)
    BY <1>0, <1>2, StopScopeDoes
  <2>2. req'[r].cont = req[r].cont /\ req'[r].group = req[r].group
    BY <2>1 DEF ScopeRestricted, Moved
  <2>3. /\ scope'[req[r].group].state = "active" => scope[req[r].group].state = "active"
        /\ scope[req[r].group].state = "revoked" => scope'[req[r].group].state = "revoked"
    BY <1>0, <2>1 DEF ScopeRestricted, ScopeEdge
  <2> QED BY <2>2, <2>3 DEF MayContinue, Revoked
<1>3. ASSUME NEW mode \in ScopeStates, NEW q \in Requests, StopAssignment(q, mode)
      PROVE  (MayContinue(r)' => MayContinue(r)) /\ (Revoked(r) => Revoked(r)')
  <2>1. RequestRestricted(q, mode) /\ UNCHANGED scope
    BY <1>0, <1>3, StopAssignmentDoes
  <2>2. req'[r].group = req[r].group
    BY <2>1 DEF RequestRestricted
  <2>3. /\ req'[r].cont = "active" => req[r].cont = "active"
        /\ req[r].cont = "revoked" => req'[r].cont = "revoked"
    BY <2>1 DEF RequestRestricted, ScopeEdge
  <2> QED BY <2>1, <2>2, <2>3 DEF MayContinue, Revoked
<1> QED BY <1>1, <1>2, <1>3, StepContinues
Loose(t) == t.state = "live" /\ ~t.token /\ t.linked

\* A turn that runs loose has its message's worker waiting for it.
LEMMA LooseIsPosted ==
  ASSUME MailInv, TurnInv, NEW d \in Deliveries, Loose(turn[d])
  PROVE  /\ d \in Posted /\ mail[d].state = "running"
         /\ To(d) \in Sessions /\ worker[To(d)].d = d /\ worker[To(d)].pc = "wait"
<1>1. /\ d \in Posted
      /\ worker[To(d)].d = d /\ worker[To(d)].pc \in {"link", "wait"}
  BY DEF TurnInv, Minded, Uncancelled, Loose
<1>2. To(d) \in Sessions
  BY <1>1, Recipients
<1>3. worker[To(d)].pc # "link"
  BY <1>1, <1>2 DEF TurnInv, AtTurn, Loose
<1> QED BY <1>1, <1>2, <1>3 DEF MailInv, Held

\* A stop that is to cancel a message's turn stays on its way.
LEMMA PursuitKept ==
  ASSUME NEW d \in Posted, Kept(d), Pursued(d), stops \subseteq stops'
  PROVE  Pursued(d)'
BY DEF Pursued, Kept

\* Whether a message is under a stop changes with its request only.
LEMMA StoppedBefore ==
  ASSUME MailInv, [Next]_vars, NEW d \in Posted, ContinuationKept(Of(d)), Stopped(d)'
  PROVE  Stopped(d)
<1>1. Kept(d)
  BY StepKeeps
<1>2. req'[Of(d)].cont = req[Of(d)].cont /\ MayContinue(Of(d))' = MayContinue(Of(d))
  BY <1>1, Recipients DEF Kept, ContinuationKept, MayContinue
<1> QED BY <1>1, <1>2 DEF Stopped, Kept, MayContinue

\* A turn that runs under a stop stays chased by the stop's second half.
LEMMA StaysChased ==
  ASSUME MailInv, TurnInv, [Next]_vars, NEW d \in Deliveries, Chased(d),
         Loose(turn'[d]) => Loose(turn[d]),
         \A r \in Requests : ContinuationKept(r), stops \subseteq stops'
  PROVE  Chased(d)'
<1>1. SUFFICES ASSUME Loose(turn'[d]), Stopped(d)' PROVE Pursued(d)'
  BY DEF Chased, Loose
<1>2. Loose(turn[d]) /\ d \in Posted
  BY <1>1, LooseIsPosted
<1>3. Kept(d) /\ Of(d) \in Requests
  BY <1>2, StepKeeps, Recipients
<1>4. Stopped(d)
  BY <1>1, <1>2, <1>3, StoppedBefore
<1>5. Pursued(d)
  BY <1>2, <1>4 DEF Chased, Loose
<1> QED BY <1>2, <1>3, <1>5, PursuitKept

\* What is permitted is not stopped.
LEMMA PermittedIsNotStopped ==
  ASSUME NEW d, Permits(Of(d), To(d))
  PROVE  ~Stopped(d)
BY DEF Permits, Stopped, Revoked

\* Every step keeps that a fenced turn is chased.
LEMMA RunInvStep ==
  ASSUME MailInv, TurnInv, RunInv, [Next]_vars
  PROVE  RunInv'
<1>0. TypeOK /\ \A d \in Deliveries : Chased(d)
  BY DEF RunInv, MailInv
<1>1. ASSUME \A d \in Deliveries : Loose(turn'[d]) => Loose(turn[d]), stops' = stops,
             \A r \in Requests : ContinuationKept(r)
      PROVE  RunInv'
  BY <1>0, <1>1, StaysChased DEF RunInv
<1>2. CASE \E mode \in ScopeStates, g \in Scopes : StopScope(g, mode)
  <2>1. PICK mode \in ScopeStates, g \in Scopes : StopScope(g, mode)
    BY <1>2
  <2>2. ScopeRestricted(g, mode) /\ UNCHANGED turn
    BY <1>0, <2>1, StopScopeDoes
  <2>3. ASSUME NEW d \in Deliveries, Loose(turn'[d]), Stopped(d)' PROVE Pursued(d)'
    <3>1. Loose(turn[d]) /\ d \in Posted
      BY <2>2, <2>3, LooseIsPosted
    <3>2. Kept(d) /\ Of(d) \in Requests /\ req[Of(d)].state # "none"
          /\ req[Of(d)].group \in Scopes
      BY <3>1, StepKeeps, Recipients
    <3>3. stops \subseteq stops'
          /\ [about |-> MembersOf(g), mode |-> mode, targets |-> FALSE] \in stops'
      BY <2>2 DEF ScopeRestricted
    <3>4. req'[Of(d)].cont = req[Of(d)].cont
      BY <2>2, <3>2 DEF ScopeRestricted, Moved
    <3>5. CASE Stopped(d)
      <4>1. Pursued(d)
        BY <1>0, <3>1, <3>5 DEF Chased, Loose
      <4> QED BY <3>1, <3>2, <3>3, <4>1, PursuitKept
    <3>6. CASE ~Stopped(d)
      <4>1. To(d) = Source(Of(d)) /\ MayContinue(Of(d)) /\ ~MayContinue(Of(d))'
        BY <2>3, <3>2, <3>4, <3>6 DEF Stopped, Kept, MayContinue
      <4>2. req[Of(d)].group = g
        BY <2>2, <3>2, <3>4, <4>1 DEF ScopeRestricted, Kept, MayContinue
      <4>3. Of(d) \in MembersOf(g)
        BY <3>2, <4>2 DEF MembersOf
      <4>4. To(d)' = Source(Of(d))' /\ Of(d)' = Of(d)
        BY <3>2, <4>1 DEF Kept
      <4> QED BY <3>3, <4>3, <4>4 DEF Pursued
    <3> QED BY <3>5, <3>6
  <2> QED BY <2>3 DEF RunInv, Chased, Loose
<1>3. CASE \E mode \in ScopeStates, r \in Requests : StopAssignment(r, mode)
  <2>1. PICK mode \in ScopeStates, r \in Requests : StopAssignment(r, mode)
    BY <1>3
  <2>2. RequestRestricted(r, mode) /\ UNCHANGED <<turn, scope>>
    BY <1>0, <2>1, StopAssignmentDoes
  <2>3. ASSUME NEW d \in Deliveries, Loose(turn'[d]), Stopped(d)' PROVE Pursued(d)'
    <3>1. Loose(turn[d]) /\ d \in Posted
      BY <2>2, <2>3, LooseIsPosted
    <3>2. Kept(d) /\ Of(d) \in Requests
      BY <3>1, StepKeeps, Recipients
    <3>3. stops \subseteq stops'
          /\ [about |-> {r}, mode |-> mode, targets |-> mode = "revoked"] \in stops'
      BY <2>2 DEF RequestRestricted
    <3>4. CASE Stopped(d)
      <4>1. Pursued(d)
        BY <1>0, <3>1, <3>4 DEF Chased, Loose
      <4> QED BY <3>1, <3>2, <3>3, <4>1, PursuitKept
    <3>5. CASE ~Stopped(d)
      <4>1. \/ req'[Of(d)].cont = "revoked" /\ req[Of(d)].cont # "revoked"
            \/ To(d) = Source(Of(d)) /\ req'[Of(d)].cont # req[Of(d)].cont
        BY <2>2, <2>3, <3>2, <3>5 DEF Stopped, Kept, MayContinue
      <4>2. Of(d) = r /\ req'[r].cont = mode
        BY <2>2, <3>2, <4>1 DEF RequestRestricted
      <4>3. mode = "revoked" \/ To(d)' = Source(Of(d))'
        BY <3>2, <4>1, <4>2 DEF Kept
      <4>4. Of(d)' = r
        BY <3>2, <4>2 DEF Kept
      <4> QED BY <3>3, <4>3, <4>4 DEF Pursued
    <3> QED BY <3>4, <3>5
  <2> QED BY <2>3 DEF RunInv, Chased, Loose
<1>4. ASSUME \A r \in Requests : ContinuationKept(r) PROVE RunInv'
  <2>1. CASE UNCHANGED <<turn, stops>>
    BY <1>1, <1>4, <2>1
  <2>2. ASSUME NEW s \in Sessions, StartOk(s) PROVE RunInv'
    <3>1. StartOkDoes(s) /\ Still
      BY <2>2, StartOkStarts
    <3> QED BY <1>1, <1>4, <3>1 DEF StartOkDoes, TurnNow, Loose, Still
  <2>3. ASSUME NEW s \in Sessions, NEW d, d = worker[s].d, d \in Posted, To(d) = s, d \in Deliveries,
               Permits(Of(d), s), stops' = stops,
               \A e \in Deliveries : e # d => turn'[e] = turn[e]
        PROVE  RunInv'
    <3>1. ASSUME NEW e \in Deliveries PROVE Chased(e)'
      <4>1. CASE e # d
        BY <1>0, <1>4, <2>3, <4>1, StaysChased
      <4>2. CASE e = d
        <5>1. ~Stopped(d) /\ Of(d) \in Requests
          BY <2>3, PermittedIsNotStopped, Recipients
        <5>2. ~Stopped(d)'
          BY <1>4, <2>3, <5>1, StoppedBefore
        <5> QED BY <4>2, <5>2 DEF Chased
      <4> QED BY <4>1, <4>2
    <3> QED BY <3>1 DEF RunInv
  <2>4. ASSUME NEW s \in Sessions, Link(s) \/ WaitResumed(s) PROVE RunInv'
    <3>1. PICK d : d = worker[s].d
      OBVIOUS
    <3>2. d \in Deliveries /\ d \in Posted /\ To(d) = s
      BY <2>4, <3>1, HeldDelivery DEF Link, WaitResumed, At
    <3>3. Still /\ \/ Links(s) \/ LinkRefused(s) \/ Relinks(s) \/ RelinkRefused(s)
                   \/ RelinkBreaks(s)
      BY <2>4, LinkDoes, WaitResumedDoes
    <3>4. CASE Links(s) \/ Relinks(s)
      <4>1. /\ Permits(Of(d), s)
            /\ \A e \in Deliveries : e # d => turn'[e] = turn[e]
        BY <3>1, <3>4 DEF Links, Relinks, MayRun, TurnNow
      <4> QED BY <2>3, <3>1, <3>2, <3>3, <4>1 DEF Still
    <3>5. CASE LinkRefused(s) \/ RelinkRefused(s)
      <4>1. \A e \in Deliveries : CancelledTurn(turn[e], turn'[e]) \/ turn'[e] = turn[e]
        BY <3>5 DEF LinkRefused, RelinkRefused, MayCancel
      <4>2. \A e \in Deliveries : Loose(turn'[e]) => Loose(turn[e])
        BY <4>1 DEF CancelledTurn, Loose
      <4> QED BY <1>1, <1>4, <3>3, <4>2 DEF Still
    <3>6. CASE RelinkBreaks(s)
      <4>1. \A e \in Deliveries : Loose(turn'[e]) => Loose(turn[e])
        BY <3>6 DEF RelinkBreaks, TurnNow, Loose
      <4> QED BY <1>1, <1>4, <3>3, <4>1 DEF Still
    <3> QED BY <3>3, <3>4, <3>5, <3>6
  <2>5. ASSUME NEW d \in Deliveries, TurnStep(d) PROVE RunInv'
    <3>1. TurnStepDoes(d) /\ UNCHANGED stops
      BY <1>0, <2>5, TurnSteps
    <3>2. \A e \in Deliveries : Loose(turn'[e]) => Loose(turn[e])
      BY <3>1 DEF TurnStepDoes, TurnNow, Loose
    <3> QED BY <1>1, <1>4, <3>1, <3>2
  <2>6. ASSUME NEW c \in stops, CancelRuns(c) PROVE RunInv'
    <3>1. CancelsAll(Targets(c)) /\ stops' = stops \ {c}
      BY <1>0, <2>6, CancelRunsDoes
    <3>2. ASSUME NEW d \in Deliveries, Loose(turn'[d]), Stopped(d)' PROVE Pursued(d)'
      <4>1. Loose(turn[d])
        BY <3>1, <3>2 DEF CancelsAll, CancelledTurn, Loose
      <4>2. d \in Posted /\ mail[d].state = "running" /\ turn[d].linked
        BY <4>1, LooseIsPosted DEF Loose
      <4>3. d \notin Targets(c)
        BY <3>1, <3>2, <4>1 DEF CancelsAll, CancelledTurn, Loose
      <4>4. ~(Of(d) \in c.about /\ (c.targets \/ To(d) = Source(Of(d))))
        BY <4>2, <4>3 DEF Targets
      <4>5. Kept(d) /\ Stopped(d)
        BY <1>4, <3>2, <4>2, StepKeeps, StoppedBefore, Recipients
      <4>6. PICK b \in stops : Of(d) \in b.about /\ (b.targets \/ To(d) = Source(Of(d)))
        BY <1>0, <4>1, <4>2, <4>5 DEF Chased, Loose, Pursued
      <4>7. b \in stops'
        BY <3>1, <4>4, <4>6
      <4> QED BY <4>5, <4>6, <4>7 DEF Pursued, Kept
    <3> QED BY <3>2 DEF RunInv, Chased, Loose
  <2>7. CASE Crash
    <3>1. \A d \in Deliveries : ~Loose(turn'[d])
      BY <1>0, <2>7, CrashDoes DEF Crashes, Loose
    <3> QED BY <3>1 DEF RunInv, Chased, Loose
  <2>8. ASSUME NEW s \in Sessions, WorkerRoutineStep(s) PROVE RunInv'
    <3>1. WorkerMoves(s) \/ WaitOver(s) \/ WorkerDies(s) \/ Link(s) \/ WaitResumed(s)
      BY <2>8 DEF WorkerRoutineStep, WorkerMoves
    <3>2. CASE WorkerMoves(s)
      BY <2>1, <3>2, WorkerMovesDo DEF Still
    <3>3. CASE WaitOver(s) \/ WorkerDies(s)
      BY <2>1, <3>3 DEF WaitOver, WorkerDies
    <3> QED BY <2>4, <3>1, <3>2, <3>3
  <2>9. ASSUME NEW s \in Sessions, Claim(s) PROVE RunInv'
    BY <2>1, <2>9 DEF Claim
  <2>10. CASE HostStep
    <3>1. CASE \/ \E s \in Sessions, g \in Scopes : BeginScope(s, g)
               \/ \E r \in Requests : Sweep(r)
               \/ RecoverUncertain \/ SettleInterrupted
      BY <2>1, <3>1 DEF BeginScope, Sweep, RecoverUncertain, SettleInterrupted
    <3> QED BY <1>2, <1>3, <2>5, <2>6, <2>7, <2>10, <3>1 DEF HostStep
  <2>11. ASSUME NEW s \in Sessions, NEW g \in Scopes, NEW r \in Requests, CreateRequest(g, s, r)
         PROVE  RunInv'
    BY <2>1, <2>11 DEF CreateRequest
  <2>12. ASSUME NEW d \in Deliveries, NEW kind \in Kinds, Post(d, kind) PROVE RunInv'
    BY <2>1, <2>12 DEF Post
  <2>13. CASE UNCHANGED vars
    BY <2>1, <2>13 DEF vars
  <2> QED BY <2>2, <2>8, <2>9, <2>10, <2>11, <2>12, <2>13, StepCases
<1> QED BY <1>2, <1>3, <1>4, StepContinues

\* The daemon starts without turns to chase.
LEMMA RunInvInit ==
  ASSUME Init
  PROVE  RunInv
BY DEF Init, RunInv, Chased, Posted

\* A turn that has not been cancelled, of a delivery that a stop command has
\* returned for, is not linked yet, and its worker will be refused: neither the start
\* race of coordinator.stop nor the race with an approval lets it run on.
THEOREM NothingRunsAway == Spec => []NoRunaway
<1>1. ASSUME MailInv, TurnInv, RunInv PROVE NoRunaway
  <2>1. ASSUME NEW d \in Posted, turn[d].state = "live", ~turn[d].token, Stopped(d)
        PROVE  \/ \E c \in stops : Of(d) \in c.about /\ (c.targets \/ To(d) = Source(Of(d)))
               \/ /\ ~turn[d].linked
                  /\ worker[To(d)].d = d /\ worker[To(d)].pc \in {"link", "wait"}
    <3>1. d \in Deliveries
      BY DEF Posted
    <3>2. worker[To(d)].d = d /\ worker[To(d)].pc \in {"link", "wait"}
      BY <1>1, <2>1, <3>1 DEF TurnInv, Minded, Uncancelled
    <3>3. CASE turn[d].linked
      BY <1>1, <2>1, <3>1, <3>3 DEF RunInv, Chased, Pursued
    <3> QED BY <3>2, <3>3
  <2> QED BY <2>1 DEF NoRunaway
<1>2. ASSUME MailInv, TurnInv, RunInv, [Next]_vars PROVE TurnInv' /\ RunInv'
  BY <1>2, TurnInvStep, RunInvStep
<1> QED BY <1>1, <1>2, TurnInvInit, RunInvInit, MailboxInvariant, PTL DEF Spec
-----------------------------------------------------------------------------
(* How a delivery and a request go on.                                     *)

ToTarget(d) == mail[d].kind \in {"request", "supplement"}
Queued(d) == mail[d].state \in {"pending", "claimed"}

\* A message is for the target of its request or for its source.
LEMMA TargetKinds ==
  ASSUME MailInv, NEW d \in Posted
  PROVE  /\ ToTarget(d) <=> To(d) = req[Of(d)].target
         /\ ~ToTarget(d) <=> To(d) = Source(Of(d))
BY Recipients DEF ToTarget, To, Recipient

\* The states of a delivery.
DeliveryEdge(before, after) ==
    \/ before = after
    \/ before = "pending" /\ after \in {"claimed", "cancelled"}
    \/ before = "claimed" /\ after \in {"running", "review", "cancelled"}
    \/ before = "running" /\ after \in {"review", "settled"}
    \/ before = "review" /\ after = "settled"

\* Why a delivery changed.
ClaimedBy(d, s) == worker[s].pc = "claim" /\ Claims(s, d)
RunBy(d, s) ==
    /\ worker[s].pc = "link" /\ worker[s].d = d /\ Links(s)
    /\ mail[d].state = "claimed" /\ mail'[d].state = "running"
ReleasedBy(d, s) ==
    /\ worker[s].d = d
    /\ \/ worker[s].pc = "drop" /\ mail[d].state = "claimed" /\ mail'[d].state = "cancelled"
       \/ worker[s].pc = "resolve" /\ mail[d].state = "review" /\ mail'[d].state = "settled"
       \/ worker[s].pc = "settle" /\ mail[d].state = "running" /\ mail'[d].state = "settled"
       \/ worker[s].pc = "start" /\ mail[d].state = "claimed" /\ mail'[d].state = "review"
    /\ worker'[s].d = 0 /\ UNCHANGED <<scope, req, turn>>
RetiredAsQuestion(d) ==
    /\ mail[d].kind = "clarification" /\ mail[d].state = "pending"
    /\ mail'[d].state = "cancelled" /\ req'[Of(d)].state # "waiting_input"
FencedBy(d) ==
    /\ mail[d].state = "pending" => mail'[d].state = "cancelled"
    /\ mail[d].state = "claimed" => mail'[d].state = "review"
    /\ Queued(d)
    /\ \/ Revoked(Of(d))'
       \/ ~ToTarget(d) /\ ~MayContinue(Of(d))'
Recovered(d) ==
    /\ boot = "down" /\ boot' = "recovered"
    /\ mail[d].state \in {"claimed", "running"} /\ mail'[d].state = "review"
    /\ UNCHANGED req
SettledAtStart(d) ==
    /\ boot = "recovered" /\ boot' = "up"
    /\ mail[d].state = "review" /\ mail'[d].state = "settled"
    /\ Moved(Unfinished, "failed")

MailChange(d) ==
    \/ mail'[d].state = mail[d].state
    \/ \E s \in Sessions : ClaimedBy(d, s) \/ RunBy(d, s) \/ ReleasedBy(d, s)
    \/ RetiredAsQuestion(d) \/ FencedBy(d) \/ Recovered(d) \/ SettledAtStart(d)

\* What the worker's last transactions do to a message.
LEMMA TransitionChanges ==
  ASSUME MailInv, NEW s \in Sessions, NEW d \in Posted,
         Drop(s) \/ Resolve(s) \/ Settle(s) \/ StartFails(s)
  PROVE  mail'[d].state = mail[d].state \/ ReleasedBy(d, s)
<1>1. {"cancelled", "settled", "review"} \subseteq DeliveryStates /\ d \in Deliveries
  BY DEF DeliveryStates, Unresolved, Owned, Posted
<1>2. ASSUME NEW before, NEW after \in DeliveryStates, Transition(s, before, after)
      PROVE  /\ Still /\ UNCHANGED <<req, turn>> /\ worker'[s].d = 0
             /\ \/ mail'[d].state = mail[d].state
                \/ d = worker[s].d /\ mail[d].state = before /\ mail'[d].state = after
  BY <1>1, <1>2, TransitionDoes DEF Leaves, Marked, WorkerNow
<1>3. CASE Drop(s)
  BY <1>1, <1>2, <1>3 DEF Drop, At, ReleasedBy, Still
<1>4. CASE Resolve(s)
  BY <1>1, <1>2, <1>4 DEF Resolve, At, ReleasedBy, Still
<1>5. CASE Settle(s)
  BY <1>1, <1>2, <1>5 DEF Settle, At, ReleasedBy, Still
<1>6. CASE StartFails(s)
  BY <1>1, <1>2, <1>6 DEF StartFails, At, ReleasedBy, Still
<1> QED BY <1>3, <1>4, <1>5, <1>6

\* What a stop does to a message.
LEMMA FenceChanges ==
  ASSUME MailInv, [Next]_vars, NEW d \in Posted,
         \/ \E mode \in ScopeStates, g \in Scopes : StopScope(g, mode)
         \/ \E mode \in ScopeStates, r \in Requests : StopAssignment(r, mode)
  PROVE  mail'[d].state = mail[d].state \/ FencedBy(d)
<1>1. /\ TypeOK /\ Kept(d) /\ d \in Deliveries
      /\ Of(d) \in Requests /\ req[Of(d)].group \in Scopes
      /\ ToTarget(d) <=> To(d) = req[Of(d)].target
      /\ ~ToTarget(d) <=> To(d) = Source(Of(d))
  BY StepKeeps, Recipients, TargetKinds DEF MailInv
<1>2. ASSUME NEW mode \in ScopeStates, NEW g \in Scopes, StopScope(g, mode)
      PROVE  mail'[d].state = mail[d].state \/ FencedBy(d)
  <2>1. ScopeRestricted(g, mode)
    BY <1>1, <1>2, StopScopeDoes
  <2> DEFINE F == {e \in Posted : /\ Of(e) \in MembersOf(g)
                                  /\ mode = "receive_only" => mail[e].kind = "reply"}
  <2>2. FencedNow(F) /\ scope'[g].state = mode /\ mode \in {"receive_only", "revoked"}
    BY <2>1 DEF ScopeRestricted, ScopeEdge
  <2> HIDE DEF F
  <2>3. SUFFICES ASSUME mail'[d].state # mail[d].state PROVE FencedBy(d)
    OBVIOUS
  <2>4. d \in F /\ Queued(d)
    BY <1>1, <2>2, <2>3 DEF FencedNow, Queued
  <2>5. /\ mail[d].state = "pending" => mail'[d].state = "cancelled"
        /\ mail[d].state = "claimed" => mail'[d].state = "review"
    BY <1>1, <2>2, <2>4 DEF FencedNow
  <2>6. req[Of(d)].group = g /\ (mode = "receive_only" => mail[d].kind = "reply")
    BY <2>4 DEF F, MembersOf
  <2>7. Of(d)' = Of(d) /\ req'[Of(d)].group = g
    BY <1>1, <2>6 DEF Kept
  <2>8. \/ Revoked(Of(d))'
        \/ ~ToTarget(d) /\ ~MayContinue(Of(d))'
    BY <2>2, <2>6, <2>7 DEF Revoked, MayContinue, ToTarget
  <2> QED BY <2>4, <2>5, <2>8 DEF FencedBy
<1>3. ASSUME NEW mode \in ScopeStates, NEW r \in Requests, StopAssignment(r, mode)
      PROVE  mail'[d].state = mail[d].state \/ FencedBy(d)
  <2>1. RequestRestricted(r, mode)
    BY <1>1, <1>3, StopAssignmentDoes
  <2> DEFINE F == {e \in Posted : Of(e) = r /\ (mode = "receive_only" => To(e) = Source(r))}
  <2>2. FencedNow(F) /\ req'[r].cont = mode /\ mode \in {"receive_only", "revoked"}
    BY <2>1 DEF RequestRestricted, ScopeEdge
  <2> HIDE DEF F
  <2>3. SUFFICES ASSUME mail'[d].state # mail[d].state PROVE FencedBy(d)
    OBVIOUS
  <2>4. d \in F /\ Queued(d)
    BY <1>1, <2>2, <2>3 DEF FencedNow, Queued
  <2>5. /\ mail[d].state = "pending" => mail'[d].state = "cancelled"
        /\ mail[d].state = "claimed" => mail'[d].state = "review"
    BY <1>1, <2>2, <2>4 DEF FencedNow
  <2>6. Of(d) = r /\ (mode = "receive_only" => To(d) = Source(r))
    BY <2>4 DEF F
  <2>7. Of(d)' = r
    BY <1>1, <2>6 DEF Kept
  <2>8. \/ Revoked(Of(d))'
        \/ ~ToTarget(d) /\ ~MayContinue(Of(d))'
    BY <1>1, <2>2, <2>6, <2>7 DEF Revoked, MayContinue
  <2> QED BY <2>4, <2>5, <2>8 DEF FencedBy
<1> QED BY <1>2, <1>3

\* What any step does to a message's state.
LEMMA StepChangesMail ==
  ASSUME MailInv, [Next]_vars, NEW d \in Posted
  PROVE  MailChange(d)
<1>0. TypeOK /\ d \in Deliveries
  BY DEF MailInv, Posted
<1>1. CASE mail'[d].state = mail[d].state
  BY <1>1 DEF MailChange
<1>2. ASSUME NEW s \in Sessions,
             WorkerMoves(s) \/ WaitOver(s) \/ WorkerDies(s) \/ Link(s) \/ WaitResumed(s)
      PROVE  MailChange(d)
  <2>1. CASE Drop(s) \/ Resolve(s) \/ Settle(s) \/ StartFails(s)
    BY <2>1, TransitionChanges DEF MailChange
  <2>2. CASE \/ Check(s) \/ Abandon(s) \/ StartBusy(s) \/ Dispatch(s)
             \/ WaitOver(s) \/ WorkerDies(s) \/ WaitResumed(s)
    BY <1>1, <2>2 DEF Check, Abandon, StartBusy, Dispatch, WaitOver, WorkerDies, WaitResumed
  <2>3. CASE Claim(s)
    <3>1. CASE UNCHANGED mail
      BY <1>1, <3>1
    <3>2. ASSUME NEW e \in Deliveries, Claims(s, e) PROVE MailChange(d)
      <4>1. mail'[d].state = mail[d].state \/ d = e
        BY <1>0, <3>2 DEF Claims, Marked
      <4> QED BY <1>1, <2>3, <3>2, <4>1 DEF MailChange, ClaimedBy, Claim, At
    <3> QED BY <2>3, <3>1, <3>2, ClaimDoes
  <2>4. CASE Link(s)
    <3>1. CASE LinkRefused(s)
      BY <1>1, <3>1 DEF LinkRefused
    <3>2. CASE Links(s)
      <4>1. /\ mail'[d].state = mail[d].state
               \/ (d = worker[s].d /\ mail'[d].state = "running")
            /\ mail[worker[s].d].state = "claimed"
        BY <1>0, <3>2 DEF Links, Marked, MayRun
      <4> QED BY <1>1, <2>4, <3>2, <4>1 DEF MailChange, RunBy, Link, At
    <3> QED BY <2>4, <3>1, <3>2, LinkDoes
  <2>5. CASE Fail(s)
    <3> PICK r : r = Of(worker[s].d)
      OBVIOUS
    <3>1. \/ mail'[d].state = mail[d].state
          \/ /\ d \in Questions(r) /\ mail'[d].state = "cancelled"
             /\ Moved({r}, "failed")
      BY <1>0, <2>5, FailDoes DEF Fails, Marked
    <3>2. Of(d) \in Requests
      BY Recipients
    <3>3. d \in Questions(r) =>
            Of(d) = r /\ mail[d].kind = "clarification" /\ mail[d].state = "pending"
      BY DEF Questions, MailAbout
    <3> QED BY <1>1, <3>1, <3>2, <3>3 DEF MailChange, RetiredAsQuestion, Moved
  <2> QED BY <1>2, <2>1, <2>2, <2>3, <2>4, <2>5 DEF WorkerMoves
<1>3. ASSUME NEW s \in Sessions, WorkerRoutineStep(s) PROVE MailChange(d)
  BY <1>2, <1>3 DEF WorkerRoutineStep, WorkerMoves
<1>4. ASSUME NEW s \in Sessions, Claim(s) PROVE MailChange(d)
  BY <1>2, <1>4 DEF WorkerMoves
<1>5. ASSUME NEW s \in Sessions, StartOk(s) PROVE MailChange(d)
  BY <1>1, <1>5 DEF StartOk
<1>6. CASE \/ \E e \in Deliveries : TurnStep(e)
           \/ \E s \in Sessions, g \in Scopes : BeginScope(s, g)
           \/ \E r \in Requests : Sweep(r)
           \/ \E c \in stops : CancelRuns(c)
           \/ Crash
  BY <1>0, <1>1, <1>6, TurnSteps, BeginScopeDoes, SweepDoes, CancelRunsDoes, CrashDoes
<1>7. CASE \/ \E mode \in ScopeStates, g \in Scopes : StopScope(g, mode)
           \/ \E mode \in ScopeStates, r \in Requests : StopAssignment(r, mode)
  BY <1>7, FenceChanges DEF MailChange
<1>8. CASE RecoverUncertain
  BY <1>0, <1>8, RecoveryDoes DEF MailChange, Recovered, Marked, Interrupted
<1>9. CASE SettleInterrupted
  BY <1>0, <1>9, RecoveryDoes DEF MailChange, SettledAtStart, Marked, UnderReview
<1>10. ASSUME NEW s \in Sessions, NEW g \in Scopes, NEW r \in Requests, CreateRequest(g, s, r)
       PROVE  MailChange(d)
  BY <1>0, <1>1, <1>10, CreateDoes, CreateKeepsAddresses DEF NewMessage, Still
<1>11. ASSUME NEW d0 \in Deliveries, NEW kind \in Kinds, Post(d0, kind) PROVE MailChange(d)
  <2>1. PICK e \in Deliveries :
           /\ NewMessage(e, Of(d0), kind, FirstState(kind, Executable(Of(d0), kind)),
                         Retired(Of(d0), kind))
           /\ e \notin Posted
    BY <1>11, PostDoes, PostKeepsAddresses DEF Still
  <2>2. \/ mail'[d].state = mail[d].state
        \/ /\ d \in Questions(Of(d0)) /\ mail'[d].state = "cancelled"
           /\ kind \in {"supplement", "reply"}
    BY <1>0, <2>1 DEF NewMessage, Retired
  <2>3. Of(d0) \in Requests /\ Moved({Of(d0)}, NextState(Of(d0), kind))
    BY <1>11, PostDoes DEF Posts
  <2>4. kind \in {"supplement", "reply"} => req'[Of(d0)].state # "waiting_input"
    BY <2>3 DEF Moved, NextState
  <2>5. d \in Questions(Of(d0)) =>
          Of(d) = Of(d0) /\ mail[d].kind = "clarification" /\ mail[d].state = "pending"
    BY DEF Questions, MailAbout
  <2> QED BY <1>1, <2>2, <2>4, <2>5 DEF MailChange, RetiredAsQuestion
<1>12. CASE UNCHANGED vars
  BY <1>1, <1>12 DEF vars
<1> QED BY <1>3, <1>4, <1>5, <1>6, <1>7, <1>8, <1>9, <1>10, <1>11, <1>12, StepCases DEF HostStep

\* The states of a message go along the edges of the store's transitions.
LEMMA StepEdges ==
  ASSUME MailInv, [Next]_vars, NEW d \in Posted
  PROVE  DeliveryEdge(mail[d].state, mail'[d].state)
<1>1. d \in Deliveries
  BY DEF Posted
<1> QED BY <1>1, StepChangesMail
        DEF MailChange, DeliveryEdge, ClaimedBy, Claims, Marked, RunBy, ReleasedBy,
            RetiredAsQuestion, FencedBy, Queued, Recovered, SettledAtStart
-----------------------------------------------------------------------------
(* Why a request goes on.                                                  *)

\* Its target starts to work on it.
TakenUp(r, s) ==
    /\ worker[s].pc = "link" /\ worker[s].d \in Posted /\ Of(worker[s].d) = r
    /\ ToTarget(worker[s].d) /\ To(worker[s].d) = s
    /\ mail[worker[s].d].state = "claimed" /\ mail'[worker[s].d].state = "running"
    /\ req[r].state = "pending" /\ req'[r].state = "working"
\* Its target leaves it working.
GivenUp(r, s) ==
    /\ worker[s].pc = "fail"
    /\ req[r].state = "working" /\ req'[r].state = "failed"
\* It is cancelled, and nothing of it is queued or held.
Dismissed(r) ==
    /\ req[r].state = "pending" /\ req'[r].state = "cancelled"
    /\ \A d \in Posted : Of(d) = r => /\ mail[d].state \notin Owned
                                     /\ mail'[d].state \notin {"pending", "claimed"}
\* It is stopped by its source.
CutOff(r) ==
    /\ req[r].state \in {"pending", "working", "waiting_input"}
    /\ req'[r].state = "cancelled" /\ req'[r].cont = "revoked"
\* Its target was interrupted.
FoundDead(r) ==
    /\ boot = "recovered" /\ boot' = "up"
    /\ req[r].state \in {"pending", "working"} /\ req'[r].state = "failed"
\* One of its turns says something.
Answered(r) ==
    \E d0 \in Deliveries, kind \in Kinds :
        /\ Posts(d0, kind) /\ Of(d0) = r
        /\ req[r].state \in AnsweredBy(kind) /\ req'[r].state = NextState(r, kind)
\* It is new.
Opened(r) ==
    /\ req[r].state = "none" /\ req'[r].state = "pending" /\ req'[r].cont = "active"
    /\ req'[r].group \in Scopes /\ scope'[req'[r].group].state = "active"
    /\ \E d \in Posted' : /\ d \notin Posted /\ mail'[d].of = r
                          /\ mail'[d].kind = "request" /\ mail'[d].state = "pending"

RequestChange(r) ==
    \/ req'[r].state = req[r].state
    \/ \E s \in Sessions : TakenUp(r, s) \/ GivenUp(r, s)
    \/ Dismissed(r) \/ CutOff(r) \/ FoundDead(r) \/ Answered(r) \/ Opened(r)

\* What any step does to a request's state.
LEMMA StepChangesRequest ==
  ASSUME MailInv, [Next]_vars, NEW r \in Requests
  PROVE  RequestChange(r)
<1>0. TypeOK
  BY DEF MailInv
<1>1. CASE req'[r].state = req[r].state
  BY <1>1 DEF RequestChange
<1>2. ASSUME NEW s \in Sessions, WorkerRoutineStep(s) PROVE RequestChange(r)
  <2>1. CASE \/ Check(s) \/ Abandon(s) \/ Drop(s) \/ Resolve(s) \/ Settle(s)
             \/ StartFails(s) \/ StartBusy(s) \/ WaitOver(s) \/ WorkerDies(s)
             \/ WaitResumed(s) \/ Dispatch(s) \/ Claim(s)
    BY <1>1, <2>1 DEF Check, Abandon, Drop, Resolve, Settle, StartFails, StartBusy, WaitOver,
       WorkerDies, WaitResumed, Dispatch, Claim, Transition
  <2>2. CASE Fail(s)
    BY <1>0, <1>1, <2>2, FailDoes DEF Fail, At, Fails, Moved, RequestChange, GivenUp
  <2>3. CASE Link(s)
    <3>1. CASE LinkRefused(s)
      BY <1>1, <3>1 DEF LinkRefused
    <3>2. CASE Links(s)
      <4> PICK d : d = worker[s].d
        OBVIOUS
      <4>1. worker[s].pc = "link" /\ d \in Posted /\ d \in Deliveries /\ To(d) = s
        BY <2>3, HeldDelivery DEF Link, At
      <4>2. /\ mail[d].state = "claimed" /\ mail'[d].state = "running"
            /\ MayRun(d, s)
            /\ IF s = req[Of(d)].target THEN Moved({Of(d)}, "working") ELSE UNCHANGED req
        BY <3>2, <4>1 DEF Links, MayRun, Marked
      <4>3. CASE s = req[Of(d)].target /\ Of(d) = r
        <5>1. ToTarget(d) /\ req'[r].state = "working"
          BY <4>1, <4>2, <4>3, TargetKinds DEF Moved
        <5>2. req[r].state = "pending"
          BY <4>2, <4>3, <5>1 DEF MayRun, ToTarget
        <5>3. TakenUp(r, s)
          BY <4>1, <4>2, <4>3, <5>1, <5>2 DEF TakenUp
        <5> QED BY <5>3 DEF RequestChange
      <4>4. CASE s # req[Of(d)].target \/ Of(d) # r
        BY <1>1, <4>2, <4>4 DEF Moved
      <4> QED BY <4>3, <4>4
    <3> QED BY <2>3, <3>1, <3>2, LinkDoes
  <2> QED BY <1>2, <2>1, <2>2, <2>3 DEF WorkerRoutineStep
<1>3. ASSUME NEW s \in Sessions, Claim(s) \/ StartOk(s) PROVE RequestChange(r)
  BY <1>1, <1>3 DEF Claim, StartOk
<1>4. CASE \/ \E d \in Deliveries : TurnStep(d)
           \/ \E s \in Sessions, g \in Scopes : BeginScope(s, g)
           \/ \E c \in stops : CancelRuns(c)
           \/ Crash \/ RecoverUncertain
  BY <1>0, <1>1, <1>4, TurnSteps, BeginScopeDoes, CancelRunsDoes, CrashDoes, RecoveryDoes
<1>5. ASSUME NEW q \in Requests, Sweep(q) PROVE RequestChange(r)
  <2>1. /\ req[q].state = "pending" /\ MailAbout(q, Unresolved) = {} /\ UNCHANGED mail
        /\ Moved({q}, "cancelled")
    BY <1>0, <1>5, SweepDoes
  <2>2. CASE q = r
    <3>1. \A d \in Posted : Of(d) = r => /\ mail[d].state \notin Owned
                                         /\ mail'[d].state \notin {"pending", "claimed"}
      BY <2>1, <2>2 DEF MailAbout, Unresolved, Owned
    <3> QED BY <2>1, <2>2, <3>1 DEF Moved, Dismissed, RequestChange
  <2> QED BY <1>1, <2>1, <2>2 DEF Moved
<1>6. ASSUME NEW mode \in ScopeStates, NEW g \in Scopes, StopScope(g, mode)
      PROVE  RequestChange(r)
  <2> DEFINE F == {d \in Posted : /\ Of(d) \in MembersOf(g)
                                  /\ mode = "receive_only" => mail[d].kind = "reply"}
  <2> DEFINE idle == {q \in MembersOf(g) : /\ mode = "revoked" /\ req[q].state = "pending"
                                           /\ MailAbout(q, Owned) = {}}
  <2>1. FencedNow(F) /\ Moved(idle, "cancelled")
    BY <1>0, <1>6, StopScopeDoes DEF ScopeRestricted
  <2>2. r \notin idle => req'[r].state = req[r].state
    BY <2>1 DEF Moved
  <2>3. CASE r \in idle
    <3>1. /\ r \in MembersOf(g) /\ mode = "revoked" /\ req[r].state = "pending"
          /\ MailAbout(r, Owned) = {}
      BY <2>3
    <3>2. req'[r].state = "cancelled"
      BY <2>1, <2>3 DEF Moved
    <3>3. ASSUME NEW d \in Posted, Of(d) = r
          PROVE  mail[d].state \notin Owned /\ mail'[d].state \notin {"pending", "claimed"}
      <4>1. mail[d].state \notin Owned /\ d \in Deliveries
        BY <3>1, <3>3 DEF MailAbout, Posted
      <4>2. d \in F
        BY <3>1, <3>3
      <4> HIDE DEF F
      <4> QED BY <2>1, <4>1, <4>2 DEF FencedNow, Owned
    <3> QED BY <3>1, <3>2, <3>3 DEF Dismissed, RequestChange
  <2> HIDE DEF idle
  <2> QED BY <1>1, <2>2, <2>3
<1>7. ASSUME NEW mode \in ScopeStates, NEW q \in Requests, StopAssignment(q, mode)
      PROVE  RequestChange(r)
  BY <1>0, <1>1, <1>7, StopAssignmentDoes DEF RequestRestricted, RequestChange, CutOff
<1>8. CASE SettleInterrupted
  <2>1. boot = "recovered" /\ boot' = "up" /\ Moved(Unfinished, "failed")
    BY <1>0, <1>8, RecoveryDoes
  <2> QED BY <1>1, <2>1 DEF Moved, Unfinished, FoundDead, RequestChange
<1>9. ASSUME NEW t \in Sessions, NEW g \in Scopes, NEW q \in Requests, CreateRequest(g, t, q)
      PROVE  RequestChange(r)
  <2>1. Creates(g, t, q) /\ UNCHANGED scope
    BY <1>9, CreateDoes DEF Still
  <2>2. CASE q = r
    <3>1. PICK d \in Deliveries : /\ NewMessage(d, q, "request", "pending", {})
                                  /\ d \notin Posted /\ d \in Posted'
      BY <2>1, CreateKeepsAddresses
    <3> QED BY <2>1, <2>2, <3>1 DEF Creates, NewMessage, Opened, RequestChange
  <2> QED BY <1>1, <2>1, <2>2 DEF Creates
<1>10. ASSUME NEW d0 \in Deliveries, NEW kind \in Kinds, Post(d0, kind) PROVE RequestChange(r)
  <2>1. Posts(d0, kind)
    BY <1>10, PostDoes
  <2>2. CASE Of(d0) = r
    BY <2>1, <2>2 DEF Posts, Moved, Answered, RequestChange
  <2> QED BY <1>1, <2>1, <2>2 DEF Posts, Moved
<1>11. CASE UNCHANGED vars
  BY <1>1, <1>11 DEF vars
<1> QED BY <1>2, <1>3, <1>4, <1>5, <1>6, <1>7, <1>8, <1>9, <1>10, <1>11, StepCases DEF HostStep

\* What was said last about a request that is open, and in which state it is then.
LEMMA AnswerMoves ==
  ASSUME NEW r, Answered(r)
  PROVE  /\ req[r].state \in {"working", "waiting_input"}
         /\ req'[r].state \in {"pending", "working", "waiting_input", "replied"}
         /\ req'[r].state = "working" => req[r].state = "working"
BY DEF Answered, Posts, AnsweredBy, NextState, MaySay, Kinds

\* A request that is resolved stays so.
LEMMA ResolvedStays ==
  ASSUME MailInv, [Next]_vars, NEW r \in Requests,
         req[r].state \in {"replied", "cancelled", "failed"}
  PROVE  req'[r].state = req[r].state
<1>1. RequestChange(r)
  BY StepChangesRequest
<1> QED BY <1>1, AnswerMoves
        DEF RequestChange, TakenUp, GivenUp, Dismissed, CutOff, FoundDead, Opened
\* create_request and post_message alone post.
LEMMA StepOfPosts ==
  ASSUME MailInv, [Next]_vars, NEW d \in Posted', d \notin Posted
  PROVE  \/ \E s \in Sessions, g \in Scopes, r \in Requests : CreateRequest(g, s, r)
         \/ \E e \in Deliveries, kind \in Kinds : Post(e, kind)
<1>1. ASSUME Routine PROVE FALSE
  BY <1>1, MailStep, RoutineKeepsAddresses DEF MailInv
<1>2. ASSUME NEW s \in Sessions, WorkerRoutineStep(s) PROVE FALSE
  BY <1>1, <1>2, WorkerRoutine DEF WorkerRoutineStep
<1>3. CASE HostStep
  BY <1>1, <1>3, HostRoutine DEF HostStep
<1>4. ASSUME NEW s \in Sessions, Claim(s) \/ StartOk(s) PROVE FALSE
  <2>1. StartOk(s) => UNCHANGED mail
    BY DEF StartOk
  <2>2. Claim(s) => UNCHANGED mail \/ \E e \in Posted : Marked({e}, "claimed")
    BY ClaimDoes DEF Claims
  <2> QED BY <1>4, <2>1, <2>2 DEF Posted, Marked
<1>5. CASE UNCHANGED vars
  BY <1>5 DEF vars, Posted
<1> QED BY <1>2, <1>3, <1>4, <1>5, StepCases

\* Why there is a new message, and what it is.
FirstOf(d) ==
    LET r == mail'[d].of IN
    /\ mail'[d].kind = "request" /\ mail'[d].state = "pending"
    /\ r \in Requests /\ req[r].state = "none" /\ req'[r].state = "pending"
    /\ req'[r].cont = "active" /\ scope'[req'[r].group].state = "active"
Answers(d) ==
    LET r == mail'[d].of
        kind == mail'[d].kind
    IN  /\ r \in Requests /\ kind \in {"clarification", "supplement", "reply", "progress"}
        /\ req[r].state \in AnsweredBy(kind) /\ req'[r].state = NextState(r, kind)
        /\ req'[r].cont = req[r].cont /\ req'[r].group = req[r].group
        /\ req[r].target # Source(r)
        /\ UNCHANGED scope
        /\ kind = "supplement" => MayContinue(r)
        /\ mail'[d].state = FirstState(kind, Executable(r, kind))

\* A new message is a request's first one, or answers a message of it.
LEMMA StepPosts ==
  ASSUME MailInv, [Next]_vars, NEW d \in Posted', d \notin Posted
  PROVE  /\ boot = "up" /\ boot' = "up" /\ worker' = worker
         /\ FirstOf(d) \/ Answers(d)
<1>5. ASSUME NEW t \in Sessions, NEW g \in Scopes, NEW r \in Requests, CreateRequest(g, t, r)
      PROVE  boot = "up" /\ boot' = "up" /\ worker' = worker /\ FirstOf(d)
  <2>1. Creates(g, t, r) /\ Still /\ UNCHANGED worker
    BY <1>5, CreateDoes
  <2>2. PICK e \in Deliveries : /\ NewMessage(e, r, "request", "pending", {})
                                /\ Posted' = Posted \cup {e}
    BY <2>1, CreateKeepsAddresses DEF Still
  <2>3. d = e
    BY <2>2
  <2> QED BY <2>1, <2>2, <2>3 DEF Creates, NewMessage, FirstOf, Still
<1>6. ASSUME NEW d0 \in Deliveries, NEW kind \in Kinds, Post(d0, kind)
      PROVE  boot = "up" /\ boot' = "up" /\ worker' = worker /\ Answers(d)
  <2> PICK r : r = Of(d0)
    OBVIOUS
  <2>1. Posts(d0, kind) /\ Still /\ UNCHANGED worker
    BY <1>6, PostDoes
  <2>2. PICK e \in Deliveries :
           /\ NewMessage(e, Of(d0), kind, FirstState(kind, Executable(Of(d0), kind)),
                         Retired(Of(d0), kind))
           /\ Posted' = Posted \cup {e}
    BY <2>1, PostKeepsAddresses DEF Still
  <2>3. d = e
    BY <2>2
  <2>4. /\ mail'[d].of = r /\ mail'[d].kind = kind
        /\ mail'[d].state = FirstState(kind, Executable(r, kind))
    BY <2>2, <2>3 DEF NewMessage
  <2>5. /\ r \in Requests /\ kind \in {"clarification", "supplement", "reply", "progress"}
        /\ req[r].state \in AnsweredBy(kind) /\ req'[r].state = NextState(r, kind)
        /\ req'[r].cont = req[r].cont /\ req'[r].group = req[r].group
        /\ kind = "supplement" => MayContinue(r)
    BY <2>1 DEF Posts, Moved, MaySay
  <2>6. req[r].target # Source(r)
    BY <2>1, Recipients DEF Posts
  <2> QED BY <2>1, <2>4, <2>5, <2>6 DEF Answers, Posts, Still
<1> QED BY <1>5, <1>6, StepOfPosts

\* Its first delivery is queued only while the source goes on with the request.
LEMMA NewIsPermitted ==
  ASSUME MailInv, [Next]_vars, NEW d \in Posted', d \notin Posted
  PROVE  /\ mail'[d].of \in Requests
         /\ mail'[d].state \in {"pending", "settled", "cancelled"}
         /\ mail'[d].kind = "progress" <=> mail'[d].state = "settled"
         /\ mail'[d].state = "pending" => ~Revoked(Of(d))'
         /\ mail'[d].state = "pending" /\ mail'[d].kind = "reply" => MayContinue(Of(d))'
         /\ mail'[d].state = "cancelled" => ~MayContinue(Of(d))'
         /\ mail'[d].kind \in {"request", "supplement"} =>
              mail'[d].state = "pending" /\ req'[mail'[d].of].state = "pending"
         /\ mail'[d].kind = "reply" => req'[mail'[d].of].state = "replied"
<1> PICK r : r = mail'[d].of
  OBVIOUS
<1>0. Of(d)' = r
  BY DEF Of
<1>1. CASE FirstOf(d)
  BY <1>0, <1>1 DEF FirstOf, Revoked, MayContinue
<1>2. CASE Answers(d)
  <2> PICK kind : kind = mail'[d].kind
    OBVIOUS
  <2>1. /\ req'[r].cont = req[r].cont /\ req'[r].group = req[r].group /\ UNCHANGED scope
        /\ kind \in {"clarification", "supplement", "reply", "progress"}
        /\ mail'[d].state = FirstState(kind, Executable(r, kind))
        /\ kind = "supplement" => MayContinue(r)
        /\ req[r].target # Source(r) /\ r \in Requests
        /\ req'[r].state = NextState(r, kind)
    BY <1>2 DEF Answers
  <2>2. /\ MayContinue(Of(d))' <=> MayContinue(r)
        /\ Revoked(Of(d))' <=> Revoked(r)
        /\ MayContinue(r) => ~Revoked(r) /\ req[r].cont # "revoked"
    BY <1>0, <2>1 DEF MayContinue, Revoked
  <2>3. Recipient(r, kind) = Source(r) <=> kind # "supplement"
    BY <2>1 DEF Recipient
  <2>4. Executable(r, kind) <=> kind # "progress" /\ MayContinue(r)
    BY <2>1, <2>2, <2>3 DEF Executable
  <2>5. mail'[d].state = IF kind # "progress" /\ MayContinue(r) THEN "pending"
                         ELSE IF kind = "progress" THEN "settled" ELSE "cancelled"
    BY <2>1, <2>4 DEF FirstState
  <2> QED BY <2>1, <2>2, <2>5 DEF NextState
<1> QED BY <1>1, <1>2, StepPosts

\* A restriction comes with the fence of what it stops.
LEMMA StopsFence ==
  ASSUME MailInv, [Next]_vars, NEW d \in Posted
  PROVE  /\ Revoked(Of(d))' /\ ~Revoked(Of(d)) => mail'[d].state \notin {"pending", "claimed"}
         /\ ~MayContinue(Of(d))' /\ MayContinue(Of(d)) /\ mail[d].kind = "reply" =>
              mail'[d].state \notin {"pending", "claimed"}
<1>0. /\ TypeOK /\ d \in Deliveries /\ Of(d) \in Requests /\ req[Of(d)].state # "none"
      /\ Kept(d) /\ RequestKept(Of(d)) /\ req[Of(d)].group \in Scopes
  BY Recipients, StepKeeps, StepKeepsRequests DEF MailInv
<1> PICK r : r = Of(d)
  OBVIOUS
<1>1. ASSUME NEW F, FencedNow(F), d \in F PROVE mail'[d].state \notin {"pending", "claimed"}
  BY <1>0, <1>1 DEF FencedNow
<1>2. CASE ContinuationKept(r)
  <2>1. /\ Of(d)' = r /\ req'[r].group = req[r].group /\ req'[r].cont = req[r].cont
        /\ scope'[req[r].group].state = scope[req[r].group].state
    BY <1>0, <1>2 DEF ContinuationKept, RequestKept, Kept
  <2> QED BY <2>1 DEF MayContinue, Revoked
<1>3. ASSUME NEW mode \in ScopeStates, NEW g \in Scopes, StopScope(g, mode)
      PROVE  /\ Revoked(Of(d))' /\ ~Revoked(Of(d)) => mail'[d].state \notin {"pending", "claimed"}
             /\ ~MayContinue(Of(d))' /\ MayContinue(Of(d)) /\ mail[d].kind = "reply" =>
                  mail'[d].state \notin {"pending", "claimed"}
  <2> DEFINE F == {e \in Posted : /\ Of(e) \in MembersOf(g)
                                  /\ mode = "receive_only" => mail[e].kind = "reply"}
  <2>1. ScopeRestricted(g, mode)
    BY <1>0, <1>3, StopScopeDoes
  <2>2. /\ FencedNow(F) /\ mode \in {"receive_only", "revoked"}
        /\ scope'[g].state = mode
        /\ \A h \in Scopes : h # g => scope'[h] = scope[h]
        /\ req'[r].cont = req[r].cont
    BY <1>0, <2>1 DEF ScopeRestricted, ScopeEdge, Moved
  <2>3. Of(d)' = r /\ req'[r].group = req[r].group
    BY <1>0 DEF Kept
  <2>4. req[r].group = g <=> r \in MembersOf(g)
    BY <1>0 DEF MembersOf
  <2>5. req[r].group = g /\ (mode = "revoked" \/ mail[d].kind = "reply") => d \in F
    BY <2>2, <2>4
  <2> HIDE DEF F
  <2> QED BY <1>0, <1>1, <2>2, <2>3, <2>5 DEF MayContinue, Revoked
<1>4. ASSUME NEW mode \in ScopeStates, NEW q \in Requests, StopAssignment(q, mode)
      PROVE  /\ Revoked(Of(d))' /\ ~Revoked(Of(d)) => mail'[d].state \notin {"pending", "claimed"}
             /\ ~MayContinue(Of(d))' /\ MayContinue(Of(d)) /\ mail[d].kind = "reply" =>
                  mail'[d].state \notin {"pending", "claimed"}
  <2> DEFINE F == {e \in Posted : Of(e) = q /\ (mode = "receive_only" => To(e) = Source(q))}
  <2>1. RequestRestricted(q, mode) /\ UNCHANGED scope
    BY <1>0, <1>4, StopAssignmentDoes
  <2>2. /\ FencedNow(F) /\ mode \in {"receive_only", "revoked"} /\ req'[q].cont = mode
        /\ \A p \in Requests : p # q => req'[p] = req[p]
    BY <1>0, <2>1 DEF RequestRestricted, ScopeEdge
  <2>3. Of(d)' = r /\ req'[r].group = req[r].group
    BY <1>0 DEF Kept
  <2>4. mail[d].kind = "reply" => To(d) = Source(r)
    BY DEF To, Recipient
  <2>5. r = q /\ (mode = "revoked" \/ mail[d].kind = "reply") => d \in F
    BY <2>2, <2>4
  <2> HIDE DEF F
  <2> QED BY <1>0, <1>1, <2>1, <2>2, <2>3, <2>5 DEF MayContinue, Revoked
<1> QED BY <1>0, <1>2, <1>3, <1>4, StepContinues
-----------------------------------------------------------------------------
(* What requests and deliveries say about each other.                      *)

\* A delivery that is queued is one its recipient may still be given: nobody has
\* stopped it, and its request waits for it (or has failed with it).
Due(d) ==
    LET r == Of(d) IN
    /\ Queued(d) => ~Revoked(r)
    /\ Queued(d) /\ mail[d].kind = "reply" => MayContinue(r)
    /\ Queued(d) /\ ToTarget(d) => req[r].state \in {"pending", "failed"}
    /\ mail[d].kind = "reply" => req[r].state = "replied"
    /\ mail[d].kind = "progress" => mail[d].state = "settled"

\* A request has one assignment or supplement in the queue at most.
OneAssignment ==
    \A d, e \in Posted :
        Queued(d) /\ ToTarget(d) /\ Queued(e) /\ ToTarget(e) /\ Of(d) = Of(e) => d = e

\* What a worker knows about the request of its delivery.
Knows(s) ==
    LET pc == worker[s].pc
        d == worker[s].d
        r == Of(d)
    IN  d # 0 =>
        /\ pc \in {"start", "link"} /\ mail[d].state = "claimed" /\ ToTarget(d) =>
              req[r].state = "pending"
        /\ pc \in {"abandon", "drop"} /\ mail[d].state = "claimed" =>
              /\ mail[d].kind # "reply"
              /\ ToTarget(d) => req[r].state = "failed"
        /\ pc = "settle" /\ ToTarget(d) => req[r].state # "working"
        /\ mail[d].state = "review" /\ ToTarget(d) => Revoked(r) /\ req[r].state # "working"
        /\ mail[d].state = "review" /\ ~ToTarget(d) => ~MayContinue(r)

\* A request that is open has a delivery that will take it further.
Backed(r) ==
    /\ req[r].cont = "revoked" =>
          req[r].state \notin {"pending", "working", "waiting_input"}
    /\ req[r].state = "working" =>
          \E d \in Posted : /\ Of(d) = r /\ ToTarget(d)
                            /\ mail[d].state \in {"running", "review"}
    /\ req[r].state = "pending" =>
          \/ \E d \in Posted : /\ Of(d) = r /\ ToTarget(d)
                               /\ mail[d].state \in {"pending", "claimed", "review"}
          \/ scope[req[r].group].state = "revoked"

\* recover_uncertain leaves nothing claimed or running.
Reviewed == boot = "recovered" => \A d \in Posted : mail[d].state \notin {"claimed", "running"}

ReqInv ==
    /\ \A d \in Posted : Due(d)
    /\ OneAssignment /\ Reviewed
    /\ \A s \in Sessions : Knows(s)
    /\ \A r \in Requests : Backed(r)

\* A delivery that stays in the queue stays permitted, and keeps its request from
\* going on, but for the startup that fails it.
LEMMA QueuedStays ==
  ASSUME MailInv, ReqInv, [Next]_vars, NEW d \in Posted, mail'[d].state \in {"pending", "claimed"}
  PROVE  /\ Queued(d) /\ ~Revoked(Of(d))'
         /\ mail[d].kind = "reply" => MayContinue(Of(d))'
         /\ ToTarget(d) => \/ req'[Of(d)].state = req[Of(d)].state
                           \/ boot = "recovered" /\ req'[Of(d)].state = "failed"
<1> PICK r : r = Of(d)
  OBVIOUS
<1>1. /\ DeliveryEdge(mail[d].state, mail'[d].state) /\ Due(d)
      /\ r \in Requests /\ req[r].state # "none" /\ d \in Deliveries /\ Of(d)' = r
  BY StepEdges, Recipients, StepKeeps DEF ReqInv, Kept
<1>2. Queued(d)
  BY <1>1 DEF DeliveryEdge, Queued
<1>3. ~Revoked(Of(d))' /\ (mail[d].kind = "reply" => MayContinue(Of(d))')
  BY <1>1, <1>2, StopsFence DEF Due
<1>4. ASSUME ToTarget(d)
      PROVE  \/ req'[r].state = req[r].state
             \/ boot = "recovered" /\ req'[r].state = "failed"
  <2>1. RequestChange(r) /\ req[r].state \in {"pending", "failed"}
    BY <1>1, <1>2, <1>4, StepChangesRequest DEF Due
  <2>2. ASSUME NEW s \in Sessions, TakenUp(r, s) PROVE FALSE
    <3>1. worker[s].d = d
      BY <1>2, <1>4, <2>2 DEF TakenUp, Queued, ReqInv, OneAssignment
    <3> QED BY <2>2, <3>1 DEF TakenUp
  <2>3. ~Dismissed(r)
    BY <1>1 DEF Dismissed
  <2>4. ~CutOff(r)
    BY <1>1, <1>3 DEF CutOff, Revoked
  <2>5. ~Answered(r) /\ ~Opened(r) /\ \A s \in Sessions : ~GivenUp(r, s)
    BY <2>1, AnswerMoves DEF Opened, GivenUp
  <2> QED BY <2>1, <2>2, <2>3, <2>4, <2>5 DEF RequestChange, FoundDead
<1> QED BY <1>1, <1>2, <1>3, <1>4

\* Every step keeps that what is queued for a recipient is due.
LEMMA DueStep ==
  ASSUME MailInv, ReqInv, [Next]_vars, NEW d \in Posted'
  PROVE  Due(d)'
<1> PICK r : r = Of(d)'
  OBVIOUS
<1>1. CASE d \notin Posted
  <2>1. /\ mail'[d].state \in {"pending", "settled", "cancelled"}
        /\ mail'[d].kind = "progress" => mail'[d].state = "settled"
        /\ mail'[d].state = "pending" => ~Revoked(Of(d))'
        /\ mail'[d].state = "pending" /\ mail'[d].kind = "reply" => MayContinue(Of(d))'
        /\ mail'[d].kind \in {"request", "supplement"} => req'[Of(d)'].state = "pending"
        /\ mail'[d].kind = "reply" => req'[Of(d)'].state = "replied"
    BY <1>1, NewIsPermitted DEF Of
  <2> QED BY <2>1 DEF Due, Queued, ToTarget
<1>2. CASE d \in Posted
  <2>1. /\ Due(d) /\ Kept(d) /\ Of(d) = r /\ r \in Requests /\ req[r].state # "none"
        /\ DeliveryEdge(mail[d].state, mail'[d].state) /\ MailChange(d)
        /\ MayContinue(r)' => MayContinue(r)
        /\ mail'[d].kind = mail[d].kind
    BY <1>2, StepKeeps, Recipients, StepEdges, StepChangesMail, StepRestricts DEF ReqInv, Kept
  <2>2. /\ Queued(d)' => ~Revoked(Of(d))'
        /\ Queued(d)' /\ mail'[d].kind = "reply" => MayContinue(Of(d))'
        /\ Queued(d)' /\ ToTarget(d)' => req'[r].state \in {"pending", "failed"}
    BY <1>2, <2>1, QueuedStays DEF Queued, ToTarget, Due
  <2>3. mail'[d].kind = "reply" => req'[r].state = "replied"
    BY <2>1, ResolvedStays DEF Due
  <2>4. mail'[d].kind = "progress" => mail'[d].state = "settled"
    BY <2>1 DEF Due, DeliveryEdge
  <2> QED BY <2>1, <2>2, <2>3, <2>4 DEF Due
<1> QED BY <1>1, <1>2
\* A step posts one message at most.
LEMMA OnePosted ==
  ASSUME MailInv, [Next]_vars, NEW d \in Posted', NEW e \in Posted', d \notin Posted, e \notin Posted
  PROVE  d = e
<1>5. ASSUME NEW t \in Sessions, NEW g \in Scopes, NEW r \in Requests, CreateRequest(g, t, r)
      PROVE  d = e
  <2>1. Creates(g, t, r) /\ Still
    BY <1>5, CreateDoes
  <2> QED BY <2>1, CreateKeepsAddresses DEF Still
<1>6. ASSUME NEW d0 \in Deliveries, NEW kind \in Kinds, Post(d0, kind) PROVE d = e
  BY <1>6, PostDoes, PostKeepsAddresses DEF Still
<1> QED BY <1>5, <1>6, StepOfPosts

\* recover_uncertain alone makes the daemon "recovered", and its startup goes on to "up".
LEMMA BootSteps ==
  ASSUME MailInv, [Next]_vars
  PROVE  /\ boot' = "recovered" /\ boot # "recovered" => RecoverUncertain
         /\ boot' = "up" /\ boot # "up" => SettleInterrupted
         /\ boot' = "down" /\ boot # "down" => Crash
<1>0. TypeOK
  BY DEF MailInv
<1>1. ASSUME NEW s \in Sessions, WorkerRoutineStep(s) \/ Claim(s) \/ StartOk(s)
      PROVE  boot' = boot
  BY <1>1 DEF WorkerRoutineStep, Check, Abandon, Drop, Resolve, Settle, StartFails, StartBusy,
     Link, WaitOver, WorkerDies, WaitResumed, Fail, Dispatch, Claim, StartOk, Transition
<1>2. CASE /\ HostStep
           /\ ~Crash /\ ~RecoverUncertain /\ ~SettleInterrupted
  BY <1>0, <1>2, TurnSteps, BeginScopeDoes, StopScopeDoes, StopAssignmentDoes, SweepDoes,
     CancelRunsDoes DEF HostStep
<1>3. /\ Crash => boot' = "down"
      /\ RecoverUncertain => boot' = "recovered"
      /\ SettleInterrupted => boot' = "up"
  BY DEF Crash, RecoverUncertain, SettleInterrupted
<1>4. ASSUME NEW t \in Sessions, NEW g \in Scopes, NEW r \in Requests, CreateRequest(g, t, r)
      PROVE  boot' = boot
  BY <1>4, CreateDoes DEF Still
<1>5. ASSUME NEW d \in Deliveries, NEW kind \in Kinds, Post(d, kind) PROVE boot' = boot
  BY <1>5, PostDoes DEF Still
<1>6. CASE UNCHANGED vars
  BY <1>6 DEF vars
<1> QED BY <1>1, <1>2, <1>3, <1>4, <1>5, <1>6, StepCases

\* Every step keeps one queued assignment per request at most.
LEMMA OneAssignmentStep ==
  ASSUME MailInv, ReqInv, [Next]_vars
  PROVE  OneAssignment'
<1>1. SUFFICES ASSUME NEW d \in Posted', NEW e \in Posted', d # e,
                      mail'[d].state \in {"pending", "claimed"},
                      mail'[e].state \in {"pending", "claimed"},
                      mail'[d].kind \in {"request", "supplement"},
                      mail'[e].kind \in {"request", "supplement"},
                      mail'[d].of = mail'[e].of
               PROVE  FALSE
  BY DEF OneAssignment, Queued, ToTarget, Of
<1>2. CASE d \in Posted /\ e \in Posted
  <2>1. Kept(d) /\ Kept(e) /\ Queued(d) /\ Queued(e)
    BY <1>1, <1>2, StepKeeps, QueuedStays
  <2> QED BY <1>1, <1>2, <2>1 DEF Kept, ReqInv, OneAssignment, ToTarget, Of
<1>3. ASSUME NEW x \in Posted', NEW y \in Posted, x \notin Posted,
             mail'[y].state \in {"pending", "claimed"},
             mail'[x].kind \in {"request", "supplement"},
             mail'[y].kind \in {"request", "supplement"},
             mail'[x].of = mail'[y].of
      PROVE  FALSE
  <2> PICK r : r = Of(y)
    OBVIOUS
  <2>1. Kept(y) /\ Queued(y) /\ Due(y) /\ req[r].state # "none"
    BY <1>3, StepKeeps, QueuedStays, Recipients DEF ReqInv
  <2>2. ToTarget(y) /\ mail'[x].of = r
    BY <1>3, <2>1 DEF Kept, ToTarget, Of
  <2>3. req[r].state \in {"pending", "failed"}
    BY <2>1, <2>2 DEF Due
  <2>4. ~FirstOf(x)
    BY <2>1, <2>2 DEF FirstOf
  <2>5. ~Answers(x)
    BY <1>3, <2>2, <2>3 DEF Answers, AnsweredBy
  <2> QED BY <1>3, <2>4, <2>5, StepPosts
<1>4. CASE d \notin Posted /\ e \in Posted
  BY <1>1, <1>3, <1>4
<1>5. CASE d \in Posted /\ e \notin Posted
  BY <1>1, <1>3, <1>5
<1>6. CASE d \notin Posted /\ e \notin Posted
  BY <1>1, <1>6, OnePosted
<1> QED BY <1>2, <1>4, <1>5, <1>6

\* Every step keeps that the recovery leaves nothing claimed or running.
LEMMA ReviewedStep ==
  ASSUME MailInv, ReqInv, [Next]_vars
  PROVE  Reviewed'
<1>1. SUFFICES ASSUME boot' = "recovered", NEW d \in Posted'
               PROVE  mail'[d].state \notin {"claimed", "running"}
  BY DEF Reviewed
<1>2. d \in Posted /\ d \in Deliveries
  BY <1>1, StepPosts DEF Posted
<1>3. CASE boot = "recovered"
  <2>1. mail[d].state \notin {"claimed", "running"} /\ MailChange(d)
    BY <1>2, <1>3, StepChangesMail DEF ReqInv, Reviewed
  <2>2. \A s \in Sessions : worker[s].pc = "none"
    BY <1>3 DEF MailInv, NoWorkers
  <2> QED BY <1>2, <2>1, <2>2
          DEF MailChange, ClaimedBy, RunBy, ReleasedBy, RetiredAsQuestion, FencedBy, Queued,
              Recovered, SettledAtStart
<1>4. CASE boot # "recovered"
  <2>1. RecoverUncertain
    BY <1>1, <1>4, BootSteps
  <2> QED BY <1>2, <2>1, RecoveryDoes DEF MailInv, Marked, Interrupted
<1> QED BY <1>3, <1>4

\* A request comes to be working by the link of its target's worker alone.
LEMMA TakenUpAlone ==
  ASSUME MailInv, [Next]_vars, NEW r \in Requests,
         req[r].state # "working", req'[r].state = "working"
  PROVE  TakenUp(r, req[r].target)
<1>1. RequestChange(r)
  BY StepChangesRequest
<1>2. PICK s \in Sessions : TakenUp(r, s)
  BY <1>1, AnswerMoves
     DEF RequestChange, GivenUp, Dismissed, CutOff, FoundDead, Opened
<1>3. s = req[r].target
  BY <1>2, TargetKinds DEF TakenUp
<1> QED BY <1>2, <1>3

\* How a worker goes on with a delivery.
WorkerGoesOnFrom(s) ==
    /\ worker'[s].d = worker[s].d
    /\ \/ worker'[s].pc = worker[s].pc
       \/ worker'[s].pc \in {"check", "wait", "fail"}
       \/ /\ worker[s].pc = "check" /\ UNCHANGED <<scope, req, mail>>
          /\ \/ worker'[s].pc = "start" /\ MayStart(worker[s].d, s)
             \/ worker'[s].pc = "abandon" /\ ~MayStart(worker[s].d, s)
       \/ worker[s].pc = "abandon" /\ worker'[s].pc = "drop"
       \/ /\ worker[s].pc = "abandon" /\ worker'[s].pc = "resolve"
          /\ mail[worker[s].d].state = "review" /\ UNCHANGED mail
       \/ worker[s].pc = "link" /\ worker'[s].pc = "resolve" /\ LinkRefused(s)
       \/ worker[s].pc = "start" /\ worker'[s].pc = "link"
       \/ worker[s].pc = "fail" /\ worker'[s].pc = "settle" /\ Fails(s)

WorkerHasClaimed(s) == worker'[s].pc = "check" /\ mail'[worker'[s].d].state = "claimed"

\* A worker with a message has just claimed it, or goes on with it.
LEMMA WorkerGoesOn ==
  ASSUME MailInv, [Next]_vars, NEW s \in Sessions, worker'[s].d # 0
  PROVE  WorkerHasClaimed(s) \/ WorkerGoesOnFrom(s)
<1> DEFINE Goal == WorkerHasClaimed(s) \/ WorkerGoesOnFrom(s)
<1> USE DEF WorkerHasClaimed, WorkerGoesOnFrom
<1>0. TypeOK
  BY DEF MailInv
<1>1. CASE worker'[s] = worker[s]
  BY <1>1
<1>2. ASSUME NEW t \in Sessions, WorkerRoutineStep(t) \/ Claim(t) \/ StartOk(t) PROVE Goal
  <2>1. CASE Claim(t)
    <3>1. ASSUME NEW e \in Deliveries, Claims(t, e) PROVE Goal
      <4>1. e \in Deliveries /\ mail'[e].state = "claimed"
        BY <3>1 DEF Claims, Marked
      <4> QED BY <1>1, <3>1, <4>1 DEF Claims, WorkerNow
    <3>2. CASE WorkerNow(t, "none", 0)
      BY <1>1, <3>2 DEF WorkerNow
    <3> QED BY <2>1, <3>1, <3>2, ClaimDoes
  <2>2. CASE Drop(t) \/ Resolve(t) \/ Settle(t) \/ StartFails(t)
    <3>1. WorkerNow(t, "claim", 0)
      BY <1>0, <2>2, WorkerReleases DEF Drop, Resolve, Settle, StartFails, Transition
    <3> QED BY <1>1, <3>1 DEF WorkerNow
  <2>3. CASE Check(t)
    <3>1. /\ UNCHANGED <<scope, req, mail>> /\ worker[t].pc = "check"
          /\ WorkerNow(t, IF MayStart(worker[t].d, t) THEN "start" ELSE "abandon", worker[t].d)
      BY <1>0, <2>3, WorkerGoes DEF Check, At, WorkerPcs
    <3> QED BY <1>1, <3>1 DEF WorkerNow
  <2>4. CASE Abandon(t)
    <3>1. /\ UNCHANGED mail /\ worker[t].pc = "abandon"
          /\ WorkerNow(t, IF mail[worker[t].d].state = "review" THEN "resolve" ELSE "drop",
                       worker[t].d)
      BY <1>0, <2>4, WorkerGoes DEF Abandon, At, WorkerPcs
    <3> QED BY <1>1, <3>1 DEF WorkerNow
  <2>9. CASE StartBusy(t) \/ WaitOver(t) \/ Dispatch(t)
    <3>1. Dispatch(t) => worker[t].pc = "none"
      BY DEF Dispatch, At
    <3>2. worker[t].pc = "none" => worker[t].d = 0
      BY DEF MailInv, Held
    <3> QED BY <1>1, <2>9, <3>1, <3>2, MovesDo DEF Moves, WorkerNow
  <2>5. CASE StartOk(t)
    BY <1>1, <2>5, StartOkStarts DEF StartOkDoes, WorkerNow, StartOk, At
  <2>6. CASE Link(t)
    BY <1>1, <2>6, LinkDoes DEF Links, LinkRefused, WorkerNow, Link, At
  <2>7. CASE WaitResumed(t)
    BY <1>1, <2>7, WaitResumedDoes DEF Relinks, RelinkRefused, RelinkBreaks, WorkerNow
  <2>10. CASE WorkerDies(t)
    BY <1>1, <2>10, WorkerDiesDoes DEF Dies, WorkerNow
  <2>8. CASE Fail(t)
    BY <1>1, <2>8, FailDoes, ZenonT(40) DEF Fails, WorkerNow, Fail, At
  <2> QED BY <1>2, <2>1, <2>2, <2>3, <2>4, <2>5, <2>6, <2>7, <2>8, <2>9, <2>10
          DEF WorkerRoutineStep
<1>3. CASE Crash
  BY <1>0, <1>3, CrashDoes DEF Crashes
<1>4. CASE HostStep /\ ~Crash
  BY <1>0, <1>1, <1>4, TurnSteps, BeginScopeDoes, StopScopeDoes, StopAssignmentDoes, SweepDoes,
     CancelRunsDoes, RecoveryDoes DEF HostStep
<1>5. ASSUME NEW t \in Sessions, NEW g \in Scopes, NEW r \in Requests, CreateRequest(g, t, r)
      PROVE  Goal
  BY <1>1, <1>5, CreateDoes
<1>6. ASSUME NEW d \in Deliveries, NEW kind \in Kinds, Post(d, kind) PROVE Goal
  BY <1>1, <1>6, PostDoes
<1>7. CASE UNCHANGED vars
  BY <1>1, <1>7 DEF vars
<1> QED BY <1>2, <1>3, <1>4, <1>5, <1>6, <1>7, StepCases

\* Every step keeps what a worker knows of its request.
LEMMA KnowsStep ==
  ASSUME MailInv, ReqInv, [Next]_vars, NEW s \in Sessions
  PROVE  Knows(s)'
<1>1. CASE worker'[s].d = 0
  BY <1>1 DEF Knows
<1>2. CASE worker'[s].d # 0
  <2> PICK d : d = worker'[s].d
    OBVIOUS
  <2>1. CASE worker'[s].pc = "check" /\ mail'[d].state = "claimed"
    BY <2>1 DEF Knows
  <2>2. CASE worker[s].d = d
    <3> PICK r : r = Of(d)
      OBVIOUS
    <3>1. /\ d \in Posted /\ d \in Deliveries /\ To(d) = s /\ mail[d].state \in Owned
          /\ Kept(d) /\ Due(d) /\ Knows(s) /\ r \in Requests
          /\ boot = "up" /\ boot' = "up"
      <4>1. d \in Posted /\ d \in Deliveries /\ To(d) = s /\ mail[d].state \in Owned /\ d # 0
        BY <1>2, <2>2, HeldOwned
      <4>2. boot = "up"
        BY <1>2, <2>2, WorkersAreUp DEF MailInv, Held
      <4>3. boot' = "up"
        <5>1. MailInv'
          BY MailStep
        <5> QED BY <1>2, <5>1 DEF MailInv, NoWorkers, Held
      <4> QED BY <4>1, <4>2, <4>3, StepKeeps, Recipients DEF ReqInv
    <3>2. /\ Of(d)' = r /\ mail'[d].kind = mail[d].kind
          /\ ToTarget(d)' <=> ToTarget(d)
          /\ ToTarget(d) => s = req[r].target
          /\ worker'[s].d = d
      BY <3>1, TargetKinds DEF Kept, ToTarget
    <3>3. ASSUME mail'[d].state = "claimed"
          PROVE  /\ mail[d].state = "claimed"
                 /\ ToTarget(d) => req'[r].state = req[r].state
      <4>1. mail[d].state = "claimed"
        BY <3>1, <3>3, StepEdges DEF DeliveryEdge, Owned
      <4> QED BY <3>1, <3>3, <4>1, QueuedStays
    <3>4. ASSUME req'[r].state = "working", ToTarget(d)
          PROVE  \/ req[r].state = "working"
                 \/ /\ worker[s].pc = "link" /\ mail[d].state = "claimed"
                    /\ mail'[d].state = "running"
      <4>1. req[r].state # "working" => TakenUp(r, s)
        BY <3>1, <3>2, <3>4, TakenUpAlone
      <4> QED BY <2>2, <4>1 DEF TakenUp
    <3>5. ASSUME mail'[d].state = "review", mail[d].state # "review" PROVE FencedBy(d)
      <4>1. MailChange(d) /\ ~Recovered(d) /\ ~SettledAtStart(d)
        BY <3>1, StepChangesMail DEF Recovered, SettledAtStart
      <4>2. ASSUME NEW t \in Sessions, ReleasedBy(d, t) PROVE FALSE
        <5>1. worker[t].d = d /\ worker'[t].d = 0
          BY <4>2 DEF ReleasedBy
        <5>2. t = s
          BY <2>2, <3>1, <5>1, HeldApart
        <5> QED BY <1>2, <5>1, <5>2
      <4>3. ASSUME NEW t \in Sessions, ClaimedBy(d, t) \/ RunBy(d, t) PROVE FALSE
        BY <3>1, <3>5, <4>3 DEF ClaimedBy, Claims, Marked, RunBy
      <4> QED BY <3>5, <4>1, <4>2, <4>3 DEF MailChange, RetiredAsQuestion
    <3>6. ASSUME mail'[d].state = "review", ~ToTarget(d) PROVE ~MayContinue(r)'
      <4>1. CASE mail[d].state = "review"
        <5>1. ~MayContinue(r)
          BY <1>2, <2>2, <3>1, <3>6, <4>1 DEF Knows
        <5> QED BY <3>1, <5>1, StepRestricts, Recipients
      <4>2. CASE mail[d].state # "review"
        <5>1. Revoked(Of(d))' \/ ~MayContinue(Of(d))'
          BY <3>5, <3>6, <4>2 DEF FencedBy
        <5> QED BY <3>2, <5>1 DEF Revoked, MayContinue
      <4> QED BY <4>1, <4>2
    <3>7. ASSUME mail'[d].state = "review", ToTarget(d)
          PROVE  Revoked(r)' /\ req'[r].state # "working"
      <4>1. CASE mail[d].state = "review"
        <5>1. Revoked(r) /\ req[r].state # "working"
          BY <1>2, <2>2, <3>1, <3>7, <4>1 DEF Knows
        <5>2. Revoked(r)'
          BY <3>1, <5>1, StepRestricts, Recipients
        <5> QED BY <3>4, <3>7, <4>1, <5>1, <5>2
      <4>2. CASE mail[d].state # "review"
        <5>1. Revoked(Of(d))' /\ Queued(d)
          BY <3>7, <3>5, <4>2 DEF FencedBy
        <5>2. Revoked(r)'
          BY <3>2, <5>1 DEF Revoked
        <5>3. req[r].state \in {"pending", "failed"}
          BY <3>1, <3>7, <5>1 DEF Due
        <5>4. req'[r].state # "working"
          BY <3>4, <3>7, <5>3
        <5> QED BY <5>2, <5>4
      <4> QED BY <4>1, <4>2
    <3>8. WorkerHasClaimed(s) \/ WorkerGoesOnFrom(s)
      BY <1>2, WorkerGoesOn
    <3>9. ASSUME worker'[s].pc \in {"start", "link"}, mail'[d].state = "claimed", ToTarget(d)
          PROVE  req'[r].state = "pending"
      <4>1. worker[s].pc \in {"start", "link"} => req[r].state = "pending"
        BY <1>2, <2>2, <3>1, <3>3, <3>9 DEF Knows
      <4>2. ASSUME MayStart(d, s) PROVE req[r].state = "pending"
        BY <3>1, <3>2, <3>3, <3>9, <4>2, Recipients DEF MayStart, Due, Queued
      <4> QED BY <2>2, <3>3, <3>8, <3>9, <4>1, <4>2 DEF WorkerGoesOnFrom, WorkerHasClaimed
    <3>10. ASSUME worker'[s].pc \in {"abandon", "drop"}, mail'[d].state = "claimed"
          PROVE  mail'[d].kind # "reply" /\ (ToTarget(d) => req'[r].state = "failed")
      <4>1. worker[s].pc \in {"abandon", "drop"} =>
              mail[d].kind # "reply" /\ (ToTarget(d) => req[r].state = "failed")
        BY <1>2, <2>2, <3>1, <3>3, <3>10 DEF Knows
      <4>2. ASSUME ~MayStart(d, s)
            PROVE  mail[d].kind # "reply" /\ (ToTarget(d) => req[r].state = "failed")
        <5>1. Queued(d) /\ ~Revoked(r)
          BY <3>1, <3>3, <3>10 DEF Due, Queued
        <5>2. req[r].target # Source(r)
          BY <3>1, Recipients
        <5>3. ASSUME mail[d].kind = "reply" PROVE FALSE
          <6>1. s = Source(r) /\ MayContinue(r) /\ req[r].state = "replied"
            BY <3>1, <5>1, <5>3, TargetKinds DEF Due, ToTarget
          <6> QED BY <4>2, <5>1, <5>3, <6>1 DEF MayStart, Permits
        <5>4. ASSUME ToTarget(d) PROVE req[r].state = "failed"
          <6>1. s # Source(r) /\ req[r].state \in {"pending", "failed"}
            BY <3>1, <3>2, <5>1, <5>2, <5>4 DEF Due
          <6> QED BY <4>2, <5>1, <6>1 DEF MayStart, Permits
        <5> QED BY <5>3, <5>4
      <4> QED BY <2>2, <3>2, <3>3, <3>8, <3>10, <4>1, <4>2 DEF WorkerGoesOnFrom, WorkerHasClaimed
    <3>11. ASSUME worker'[s].pc = "settle", ToTarget(d) PROVE req'[r].state # "working"
      <4>1. CASE worker[s].pc = "settle"
        <5>1. req[r].state # "working"
          BY <1>2, <2>2, <3>11, <4>1, <3>1 DEF Knows
        <5> QED BY <3>4, <3>11, <4>1, <5>1
      <4>2. CASE Fails(s)
        BY <2>2, <3>1, <3>2, <3>11, <4>2 DEF Fails, Moved
      <4> QED BY <3>8, <3>11, <4>1, <4>2 DEF WorkerGoesOnFrom, WorkerHasClaimed
    <3>12. (Revoked(Of(d))' <=> Revoked(r)') /\ (MayContinue(Of(d))' <=> MayContinue(r)')
      BY <3>2 DEF Revoked, MayContinue
    <3> QED BY <3>2, <3>7, <3>9, <3>10, <3>11, <3>12, <3>6 DEF Knows
  <2> QED BY <1>2, <2>1, <2>2, WorkerGoesOn DEF WorkerGoesOnFrom, WorkerHasClaimed
<1> QED BY <1>1, <1>2

\* The delivery that backs a request does so until the request goes on.
LEMMA StillBacks ==
  ASSUME MailInv, ReqInv, [Next]_vars, NEW d \in Posted, ToTarget(d)
  PROVE  LET r == Of(d) IN
         /\ mail[d].state \in {"running", "review"} /\ req'[r].state = "working" =>
              mail'[d].state \in {"running", "review"}
         /\ mail[d].state \in {"pending", "claimed", "review"} /\ req'[r].state = "pending" =>
              mail'[d].state \in {"pending", "claimed", "review"} \/ Revoked(Of(d))'
<1> PICK r : r = Of(d)
  OBVIOUS
<1>1. /\ d \in Deliveries /\ d # 0 /\ r \in Requests /\ Due(d) /\ MailChange(d) /\ Kept(d)
      /\ To(d) = req[r].target
  BY StepChangesMail, Recipients, StepKeeps, TargetKinds DEF ReqInv
<1>2. ASSUME NEW s \in Sessions, ReleasedBy(d, s), req'[r].state \in {"working", "pending"}
      PROVE  \/ worker[s].pc = "start" /\ mail'[d].state = "review"
             \/ /\ worker[s].pc = "resolve" /\ mail[d].state = "review"
                /\ req'[r].state = "pending" /\ Revoked(Of(d))'
             \/ worker[s].pc = "settle" /\ mail[d].state = "running" /\ req'[r].state = "pending"
  <2>1. Knows(s) /\ worker[s].d = d /\ UNCHANGED <<scope, req>>
    BY <1>2 DEF ReqInv, ReleasedBy
  <2>2. ~(worker[s].pc = "drop" /\ mail[d].state = "claimed")
    BY <1>1, <1>2, <2>1 DEF Knows
  <2>3. mail[d].state = "review" => Revoked(Of(d))' /\ req[r].state # "working"
    <3>1. mail[d].state = "review" => Revoked(r) /\ req[r].state # "working"
      BY <1>1, <2>1 DEF Knows
    <3> QED BY <1>1, <2>1, <3>1 DEF Revoked, Kept
  <2>4. worker[s].pc = "settle" => req[r].state # "working"
    BY <1>1, <2>1 DEF Knows
  <2> QED BY <1>2, <2>1, <2>2, <2>3, <2>4 DEF ReleasedBy
<1>3. ASSUME SettledAtStart(d), req'[r].state \in {"working", "pending"} PROVE FALSE
  <2>1. boot = "recovered" /\ mail[d].state = "review" /\ Moved(Unfinished, "failed")
    BY <1>3 DEF SettledAtStart
  <2>2. r \notin Unfinished => req'[r].state = req[r].state
    BY <1>1, <2>1 DEF Moved
  <2>3. r \in Unfinished => req'[r].state = "failed"
    BY <1>1, <2>1 DEF Moved
  <2> QED BY <1>1, <1>3, <2>1, <2>2, <2>3 DEF Unfinished, UnderReview
<1>4. ASSUME NEW s \in Sessions, RunBy(d, s) PROVE req'[r].state = "working"
  <2>1. Links(s) /\ worker[s].d = d
    BY <1>4 DEF RunBy
  <2>2. To(d) = s
    BY <1>1, <2>1, HeldOwned
  <2> QED BY <1>1, <2>1, <2>2 DEF Links, Moved
<1>5. ASSUME NEW s \in Sessions, ClaimedBy(d, s)
      PROVE  mail[d].state = "pending" /\ mail'[d].state = "claimed"
  BY <1>1, <1>5 DEF ClaimedBy, Claims, Marked
<1>6. ~RetiredAsQuestion(d)
  BY DEF RetiredAsQuestion, ToTarget
<1>7. FencedBy(d) => Revoked(Of(d))' /\ Queued(d)
                     /\ (mail[d].state = "claimed" => mail'[d].state = "review")
  BY DEF FencedBy
<1>8. Recovered(d) => mail'[d].state = "review"
  BY DEF Recovered
<1>9. mail'[d].state = mail[d].state \/ mail'[d].state # mail[d].state
  OBVIOUS
<1>10. ASSUME mail[d].state \in {"running", "review"}, req'[r].state = "working"
       PROVE  mail'[d].state \in {"running", "review"}
  BY <1>1, <1>2, <1>3, <1>4, <1>5, <1>6, <1>7, <1>8, <1>10
     DEF MailChange, Queued, RunBy, Recovered
<1>11. ASSUME mail[d].state \in {"pending", "claimed", "review"}, req'[r].state = "pending"
       PROVE  mail'[d].state \in {"pending", "claimed", "review"} \/ Revoked(Of(d))'
  BY <1>1, <1>2, <1>3, <1>4, <1>5, <1>6, <1>7, <1>8, <1>11 DEF MailChange, Queued
<1> QED BY <1>10, <1>11

\* Every step keeps that an open request is backed.
LEMMA BackedStep ==
  ASSUME MailInv, ReqInv, [Next]_vars, NEW r \in Requests
  PROVE  Backed(r)'
<1>1. RequestChange(r) /\ Backed(r) /\ MailInv'
  BY StepChangesRequest, MailStep DEF ReqInv
<1>2. ASSUME req'[r].cont = "revoked",
             req'[r].state \in {"pending", "working", "waiting_input"}
      PROVE  FALSE
  <2>1. ~Opened(r) /\ ~CutOff(r)
    BY <1>2 DEF Opened, CutOff
  <2>2. req[r].state \in {"pending", "working", "waiting_input"}
    BY <1>1, <1>2, <2>1, AnswerMoves
       DEF RequestChange, TakenUp, GivenUp, Dismissed, FoundDead
  <2>3. req[r].cont # "revoked"
    BY <1>1, <2>2 DEF Backed
  <2>4. ~ContinuationKept(r)
    BY <1>2, <2>2, <2>3 DEF ContinuationKept
  <2>5. ASSUME NEW mode \in ScopeStates, NEW g \in Scopes, StopScope(g, mode) PROVE FALSE
    <3>1. req'[r].cont = req[r].cont
      BY <2>5, StopScopeDoes DEF MailInv, ScopeRestricted, Moved
    <3> QED BY <1>2, <2>3, <3>1
  <2>6. ASSUME NEW mode \in ScopeStates, NEW q \in Requests, StopAssignment(q, mode) PROVE FALSE
    <3>1. RequestRestricted(q, mode)
      BY <2>6, StopAssignmentDoes DEF MailInv
    <3> QED BY <1>2, <2>2, <2>3, <3>1 DEF RequestRestricted
  <2> QED BY <2>4, <2>5, <2>6, StepContinues
<1>3. ASSUME req'[r].state = "working"
      PROVE  \E d \in Posted' : /\ Of(d)' = r /\ ToTarget(d)'
                                /\ mail'[d].state \in {"running", "review"}
  <2>1. CASE req[r].state = "working"
    <3>1. PICK d \in Posted : /\ Of(d) = r /\ ToTarget(d)
                              /\ mail[d].state \in {"running", "review"}
      BY <1>1, <2>1 DEF Backed
    <3> QED BY <1>3, <3>1, StillBacks, StepKeeps DEF Kept, ToTarget
  <2>2. CASE req[r].state # "working"
    <3>1. PICK s : TakenUp(r, s)
      BY <1>3, <2>2, TakenUpAlone
    <3> PICK d : d = worker[s].d
      OBVIOUS
    <3>2. d \in Posted /\ Of(d) = r /\ ToTarget(d) /\ mail'[d].state = "running"
      BY <3>1 DEF TakenUp
    <3> QED BY <3>2, StepKeeps DEF Kept, ToTarget
  <2> QED BY <2>1, <2>2
<1>4. ASSUME req'[r].state = "pending"
      PROVE  \/ \E d \in Posted' : /\ Of(d)' = r /\ ToTarget(d)'
                                   /\ mail'[d].state \in {"pending", "claimed", "review"}
             \/ scope'[req'[r].group].state = "revoked"
  <2>1. CASE req[r].state = "pending"
    <3>1. CASE scope[req[r].group].state = "revoked"
      <4>1. req'[r].group = req[r].group /\ req[r].group \in Scopes
        BY <2>1, StepKeepsRequests DEF RequestKept, MailInv, Addressed
      <4>2. CASE ContinuationKept(r)
        BY <2>1, <3>1, <4>1, <4>2 DEF ContinuationKept
      <4>3. ASSUME NEW mode \in ScopeStates, NEW g \in Scopes, StopScope(g, mode)
            PROVE  scope'[req[r].group].state = "revoked"
        BY <3>1, <4>1, <4>3, StopScopeDoes DEF MailInv, ScopeRestricted, ScopeEdge
      <4>4. ASSUME NEW mode \in ScopeStates, NEW q \in Requests, StopAssignment(q, mode)
            PROVE  scope'[req[r].group].state = "revoked"
        BY <3>1, <4>1, <4>4, StopAssignmentDoes DEF MailInv
      <4> QED BY <4>1, <4>2, <4>3, <4>4, StepContinues
    <3>2. CASE scope[req[r].group].state # "revoked"
      <4>1. PICK d \in Posted : /\ Of(d) = r /\ ToTarget(d)
                                /\ mail[d].state \in {"pending", "claimed", "review"}
        BY <1>1, <2>1, <3>2 DEF Backed
      <4>2. Kept(d) /\ Of(d)' = r /\ ToTarget(d)' /\ d \in Posted'
        BY <4>1, StepKeeps DEF Kept, ToTarget
      <4>3. mail'[d].state \in {"pending", "claimed", "review"} \/ Revoked(Of(d))'
        BY <1>4, <4>1, StillBacks
      <4>4. Revoked(Of(d))' => scope'[req'[r].group].state = "revoked"
        BY <1>2, <1>4, <4>2 DEF Revoked
      <4> QED BY <4>2, <4>3, <4>4
    <3> QED BY <3>1, <3>2
  <2>2. CASE Opened(r)
    BY <2>2 DEF Opened, ToTarget, Of
  <2>3. CASE Answered(r)
    <3>1. PICK d0 \in Deliveries, kind \in Kinds :
             Posts(d0, kind) /\ Of(d0) = r /\ req[r].state \in AnsweredBy(kind)
             /\ req'[r].state = NextState(r, kind)
      BY <2>3 DEF Answered
    <3>2. kind = "supplement" /\ MayContinue(r) /\ d0 \in Posted
      BY <1>4, <3>1 DEF Posts, NextState, AnsweredBy, MaySay
    <3>3. Executable(r, kind)
      BY <3>1, <3>2, Recipients DEF Executable, MayContinue, Recipient
    <3>4. PICK e \in Deliveries : mail'[e].of = r /\ mail'[e].kind = kind
                                  /\ mail'[e].state = FirstState(kind, Executable(r, kind))
      BY <3>1 DEF Posts, NewMessage
    <3>5. mail'[e].state = "pending"
      BY <3>3, <3>4 DEF FirstState
    <3> QED BY <3>2, <3>4, <3>5 DEF Posted, Of, ToTarget
  <2> QED BY <1>1, <1>4, <2>1, <2>2, <2>3
          DEF RequestChange, TakenUp, GivenUp, Dismissed, CutOff, FoundDead
<1> QED BY <1>2, <1>3, <1>4 DEF Backed

\* Every step keeps the requests' invariant.
LEMMA ReqInvStep ==
  ASSUME MailInv, ReqInv, [Next]_vars
  PROVE  ReqInv'
BY DueStep, OneAssignmentStep, ReviewedStep, KnowsStep, BackedStep DEF ReqInv

\* The store starts without requests.
LEMMA ReqInvInit ==
  ASSUME Init
  PROVE  ReqInv
<1>1. /\ Posted = {} /\ boot = "up"
      /\ \A s \in Sessions : worker[s].d = 0
      /\ \A r \in Requests : req[r].state = "none"
  BY DEF Init, Posted, Idle
<1> QED BY <1>1 DEF ReqInv, OneAssignment, Reviewed, Knows, Backed

\* Requests and deliveries agree, whatever messages, stops, failures and restarts come
\* between the transactions of a worker.
LEMMA RequestInvariant == Spec => [](MailInv /\ ReqInv)
<1>1. ASSUME MailInv, ReqInv, [Next]_vars PROVE MailInv' /\ ReqInv'
  BY <1>1, MailStep, ReqInvStep
<1> QED BY <1>1, MailInit, ReqInvInit, PTL DEF Spec

\* What closes a reply that has not been running at its source.
LEMMA ReplyStep ==
  ASSUME MailInv, ReqInv, [Next]_vars, NEW d \in Deliveries, Closed(d)', mail'[d].kind = "reply",
         ~Closed(d), mail[d].state # "running"
  PROVE  ~MayContinue(Of(d))' \/ (boot = "recovered" /\ mail[d].state = "review")
<1>1. CASE d \notin Posted
  <2>1. d \in Posted'
    BY DEF Closed, Posted
  <2> QED BY <1>1, <2>1, NewIsPermitted DEF Closed
<1>2. CASE d \in Posted
  <2>1. /\ MailChange(d) /\ Kept(d) /\ mail[d].kind = "reply" /\ d # 0
        /\ ~ToTarget(d) /\ mail'[d].state # mail[d].state
    BY <1>2, StepChangesMail, StepKeeps DEF Kept, ToTarget, Closed, Deliveries
  <2>2. ASSUME NEW s \in Sessions, ReleasedBy(d, s) PROVE ~MayContinue(Of(d))'
    <3>1. worker[s].d = d /\ Knows(s) /\ UNCHANGED <<scope, req>>
      BY <2>2 DEF ReleasedBy, ReqInv
    <3>2. worker[s].pc = "resolve" /\ mail[d].state = "review"
      BY <2>1, <2>2, <3>1 DEF ReleasedBy, Knows, Closed
    <3>3. ~MayContinue(Of(d))
      BY <2>1, <3>1, <3>2 DEF Knows
    <3> QED BY <2>1, <3>1, <3>3 DEF Kept, MayContinue
  <2>3. ASSUME NEW s \in Sessions, ClaimedBy(d, s) \/ RunBy(d, s) PROVE FALSE
    BY <2>3 DEF ClaimedBy, Claims, Marked, RunBy, Closed
  <2>4. FencedBy(d) => ~MayContinue(Of(d))'
    BY DEF FencedBy, Revoked, MayContinue
  <2>5. ~RetiredAsQuestion(d) /\ ~Recovered(d)
    BY <2>1 DEF RetiredAsQuestion, Recovered, Closed
  <2> QED BY <2>1, <2>2, <2>3, <2>4, <2>5 DEF MailChange, SettledAtStart
<1> QED BY <1>1, <1>2

\* A reply is given to its source.  What closes it before it has been running there
\* is a restriction by the source, or the startup that closes what a failed start or
\* a crash has left under review: no claim, busy session, stop of another request or
\* refused link does.
THEOREM NoReplyIsLost == Spec => ReplyNotLost
<1>1. ASSUME MailInv, ReqInv, [Next]_vars
      PROVE  \A d \in Deliveries :
                Closed(d)' /\ mail'[d].kind = "reply" /\ ~Closed(d) /\ mail[d].state # "running" =>
                    \/ ~MayContinue(Of(d))'
                    \/ boot = "recovered" /\ mail[d].state = "review"
  BY <1>1, ReplyStep
<1> QED BY <1>1, RequestInvariant, PTL DEF Spec, ReplyNotLost

-----------------------------------------------------------------------------
(* Questions to the source.                                                *)

\* A turn that was started for a delivery is the only one.
LEMMA StartsKept ==
  ASSUME MailInv, [Next]_vars, NEW d \in Deliveries, turn[d].starts = 1
  PROVE  turn'[d].starts = 1
<1>1. ASSUME NEW s \in Sessions, WorkerRoutineStep(s) PROVE turn'[d].starts = 1
  BY <1>1, WorkerRoutine DEF WorkerRoutineStep, Routine, Progresses
<1>2. ASSUME HostStep PROVE turn'[d].starts = 1
  BY <1>2, HostRoutine DEF HostStep, Routine, Progresses
<1>3. ASSUME NEW s \in Sessions, StartOk(s) PROVE turn'[d].starts = 1
  <2>1. turn[worker[s].d].starts = 0
    BY <1>3 DEF StartOk, At, MailInv, Held
  <2> QED BY <1>3, <2>1, StartOkStarts DEF StartOkDoes, TurnNow
<1>4. ASSUME NEW s \in Sessions, Claim(s) PROVE turn'[d].starts = 1
  BY <1>4 DEF Claim
<1>5. CASE \/ \E s \in Sessions, g \in Scopes, r \in Requests : CreateRequest(g, s, r)
           \/ \E e \in Deliveries, kind \in Kinds : Post(e, kind)
  BY <1>5, CreateDoes, PostDoes
<1>6. CASE UNCHANGED vars
  BY <1>6 DEF vars
<1> QED BY <1>1, <1>2, <1>3, <1>4, <1>5, <1>6, StepCases

\* The daemon is started again after crashes alone.
LEMMA CrashesCount ==
  ASSUME MailInv, [Next]_vars
  PROVE  /\ crashes > 0 => crashes' > 0
         /\ boot' # "up" => boot # "up" \/ crashes' > 0
<1>0. TypeOK /\ crashes \in Nat
  BY DEF MailInv, TypeOK
<1>1. ASSUME UNCHANGED crashes, boot' \in {"up", boot}
      PROVE  /\ crashes > 0 => crashes' > 0
             /\ boot' # "up" => boot # "up" \/ crashes' > 0
  BY <1>1
<1>2. ASSUME NEW s \in Sessions, WorkerRoutineStep(s) \/ Claim(s) \/ StartOk(s)
      PROVE  UNCHANGED <<crashes, boot>>
  BY <1>2 DEF WorkerRoutineStep, Check, Abandon, Drop, Resolve, Settle, StartFails, StartBusy,
     Link, WaitOver, WorkerDies, WaitResumed, Fail, Dispatch, Claim, StartOk, Transition, bounds
<1>3. CASE Crash
  BY <1>0, <1>3, CrashDoes DEF Crashes
<1>4. CASE HostStep /\ ~Crash /\ ~RecoverUncertain /\ ~SettleInterrupted
  <2>1. UNCHANGED <<crashes, boot>>
    BY <1>0, <1>4, TurnSteps, BeginScopeDoes, StopScopeDoes, StopAssignmentDoes, SweepDoes,
       CancelRunsDoes DEF HostStep
  <2> QED BY <1>1, <2>1
<1>5. CASE RecoverUncertain \/ SettleInterrupted
  BY <1>0, <1>5, RecoveryDoes
<1>6. CASE \/ \E s \in Sessions, g \in Scopes, r \in Requests : CreateRequest(g, s, r)
           \/ \E e \in Deliveries, kind \in Kinds : Post(e, kind)
  BY <1>1, <1>6, CreateDoes, PostDoes DEF Still
<1>7. CASE UNCHANGED vars
  BY <1>1, <1>7 DEF vars, bounds
<1> QED BY <1>1, <1>2, <1>3, <1>4, <1>5, <1>6, <1>7, StepCases

Asks(d) == mail[d].kind = "clarification"

\* A request comes to wait for its source by a new question, behind all others.
LEMMA AskedAlone ==
  ASSUME MailInv, [Next]_vars, NEW r \in Requests,
         req[r].state # "waiting_input", req'[r].state = "waiting_input"
  PROVE  \E d \in Posted' : /\ d \notin Posted /\ \A e \in Posted : e < d
                            /\ Of(d)' = r /\ Asks(d)'
                            /\ mail'[d].state = "pending" \/ ~MayContinue(r)'
<1>1. Answered(r)
  BY StepChangesRequest
     DEF RequestChange, TakenUp, GivenUp, Dismissed, CutOff, FoundDead, Opened
<1>2. PICK d0 \in Deliveries, kind \in Kinds :
         /\ Posts(d0, kind) /\ Of(d0) = r
         /\ req[r].state \in AnsweredBy(kind) /\ req'[r].state = NextState(r, kind)
  BY <1>1 DEF Answered
<1>3. kind = "clarification"
  BY <1>2 DEF NextState, Kinds, Posts, MaySay
<1>4. PICK d \in Deliveries :
         NewMessage(d, r, kind, FirstState(kind, Executable(r, kind)), Retired(r, kind))
  BY <1>2 DEF Posts
<1>5. d \notin Posted /\ \A e \in Posted : e < d
  BY <1>4 DEF NewMessage, Posted, Deliveries
<1>6. mail'[d].state \in {"pending", "cancelled", "settled"} /\ Of(d)' = r /\ Asks(d)'
  BY <1>3, <1>4 DEF NewMessage, FirstState, Of, Asks
<1>7. d \in Posted'
  BY <1>6 DEF Posted
<1>8. mail'[d].state = "pending" \/ ~MayContinue(Of(d))'
  BY <1>5, <1>6, <1>7, NewIsPermitted DEF Asks
<1>9. MayContinue(Of(d))' <=> MayContinue(r)'
  BY <1>6 DEF MayContinue
<1> QED BY <1>5, <1>6, <1>7, <1>8, <1>9

\* While it waits, its last question stays the last.
LEMMA LastStays ==
  ASSUME MailInv, [Next]_vars, NEW r \in Requests, NEW d \in Deliveries,
         req[r].state = "waiting_input", req'[r].state = "waiting_input"
  PROVE  LastQuestion(r, d)' <=> LastQuestion(r, d)
<1>1. \A e \in Posted : e \in Posted' /\ Of(e)' = Of(e) /\ mail'[e].kind = mail[e].kind
  BY StepKeeps DEF Kept
<1>2. ASSUME NEW e \in Posted', e \notin Posted, Of(e)' = r, mail'[e].kind = "clarification"
      PROVE  FALSE
  <2>1. FirstOf(e) \/ Answers(e)
    BY <1>2, StepPosts
  <2> QED BY <1>2, <2>1 DEF FirstOf, Answers, AnsweredBy, Of
<1>3. \A e : e \in Posted' /\ Of(e)' = r /\ mail'[e].kind = "clarification" <=>
             e \in Posted /\ Of(e) = r /\ mail[e].kind = "clarification"
  BY <1>1, <1>2
<1> QED BY <1>3 DEF LastQuestion

\* A worker that is about to drop the last question knows that nobody wants it.
Unwanted(s) ==
    LET d == worker[s].d IN
    /\ d # 0 /\ worker[s].pc \in {"abandon", "drop"} /\ mail[d].state = "claimed"
    /\ LastQuestion(Of(d), d) /\ req[Of(d)].state = "waiting_input"
    => ~MayContinue(Of(d))

QuestionInv ==
    /\ boot # "up" => crashes > 0
    /\ \A d \in Posted : mail[d].state = "running" => turn[d].starts = 1
    /\ \A s \in Sessions : Unwanted(s)
    /\ \A r \in Requests : req[r].state = "waiting_input" => QuestionBacked(r)

\* Every step keeps that a running delivery was started.
LEMMA RunningStarted ==
  ASSUME MailInv, QuestionInv, [Next]_vars, NEW d \in Posted', mail'[d].state = "running"
  PROVE  turn'[d].starts = 1
<1>1. d \in Deliveries
  BY DEF Posted
<1>2. d \in Posted
  BY NewIsPermitted
<1>3. CASE mail[d].state = "running"
  BY <1>1, <1>2, <1>3, StartsKept DEF QuestionInv
<1>4. CASE mail[d].state # "running"
  <2>1. PICK s \in Sessions : RunBy(d, s)
    BY <1>2, <1>4, StepChangesMail
       DEF MailChange, ClaimedBy, Claims, Marked, ReleasedBy, RetiredAsQuestion, FencedBy,
           Queued, Recovered, SettledAtStart, Posted
  <2>2. turn[d].starts = 1
    BY <2>1 DEF RunBy, MailInv, Held
  <2> QED BY <1>1, <2>2, StartsKept
<1> QED BY <1>3, <1>4

\* Every step keeps what a worker about to drop a question knows.
LEMMA UnwantedStep ==
  ASSUME MailInv, ReqInv, QuestionInv, [Next]_vars, NEW s \in Sessions
  PROVE  Unwanted(s)'
<1> PICK d : d = worker'[s].d
  OBVIOUS
<1>1. SUFFICES ASSUME d # 0, worker'[s].pc \in {"abandon", "drop"}, mail'[d].state = "claimed",
                      LastQuestion(Of(d), d)', req'[Of(d)'].state = "waiting_input"
               PROVE  ~MayContinue(Of(d))'
  BY DEF Unwanted
<1>2. WorkerGoesOnFrom(s) /\ worker[s].d = d
  BY <1>1, WorkerGoesOn DEF WorkerHasClaimed, WorkerGoesOnFrom
<1> PICK r : r = Of(d)
  OBVIOUS
<1>3. /\ d \in Posted /\ d \in Deliveries /\ To(d) = s /\ r \in Requests /\ req[r].state # "none"
      /\ Of(d)' = r /\ mail'[d].kind = mail[d].kind
  BY <1>1, <1>2, HeldOwned, Recipients, StepKeeps DEF Kept
<1>4. mail[d].state = "claimed"
  <2>1. mail[d].state \in Owned
    BY <1>1, <1>2, HeldOwned
  <2> QED BY <1>1, <1>3, <2>1, StepEdges DEF DeliveryEdge, Owned
<1>5. req[r].state = "waiting_input"
  <2>1. SUFFICES ASSUME req[r].state # "waiting_input" PROVE FALSE
    OBVIOUS
  <2>2. PICK e \in Posted' : e \notin Posted /\ d < e /\ Of(e)' = r /\ Asks(e)'
    BY <1>1, <1>3, <2>1, AskedAlone
  <2>3. e <= d
    BY <1>1, <1>3, <2>2 DEF LastQuestion, Asks
  <2>4. d \in Nat /\ e \in Nat
    BY <1>3, <2>2 DEF Deliveries, Posted
  <2> QED BY <2>2, <2>3, <2>4
<1>6. LastQuestion(r, d)
  <2>1. LastQuestion(r, d)'
    BY <1>1, <1>3 DEF LastQuestion
  <2> QED BY <1>1, <1>3, <1>5, <2>1, LastStays
<1>7. ~MayContinue(r)
  <2>1. CASE worker[s].pc \in {"abandon", "drop"}
    BY <1>1, <1>2, <1>4, <1>5, <1>6, <2>1 DEF QuestionInv, Unwanted
  <2>2. CASE worker[s].pc = "check" /\ ~MayStart(d, s)
    <3>1. mail[d].kind = "clarification" /\ s = Source(r) /\ req[r].target # Source(r)
      BY <1>3, <1>6, Recipients, TargetKinds DEF LastQuestion, ToTarget
    <3>2. ~Permits(r, s)
      BY <1>5, <2>2, <3>1 DEF MayStart
    <3> QED BY <3>1, <3>2 DEF Permits, Revoked, MayContinue
  <2> QED BY <1>1, <1>2, <2>1, <2>2 DEF WorkerGoesOnFrom
<1>8. ~MayContinue(r)'
  BY <1>3, <1>7, StepRestricts
<1> QED BY <1>3, <1>8 DEF MayContinue

\* The question behind a request that waits for its source stays behind it.
LEMMA QuestionStays ==
  ASSUME MailInv, ReqInv, QuestionInv, [Next]_vars, NEW r \in Requests,
         req[r].state = "waiting_input", req'[r].state = "waiting_input"
  PROVE  QuestionBacked(r)'
<1>1. PICK d \in Deliveries :
        /\ LastQuestion(r, d)
        /\ \/ mail[d].state \in Unresolved
           \/ ~MayContinue(r)
           \/ mail[d].state = "settled" /\ (turn[d].starts = 1 \/ crashes > 0)
  BY DEF QuestionInv, QuestionBacked
<1>2. /\ d \in Posted /\ Of(d) = r /\ ~ToTarget(d) /\ Kept(d) /\ MailChange(d) /\ d # 0
      /\ DeliveryEdge(mail[d].state, mail'[d].state)
  BY <1>1, StepKeeps, StepChangesMail, StepEdges DEF LastQuestion, ToTarget, Deliveries
<1>3. LastQuestion(r, d)'
  BY <1>1, LastStays
<1>4. ~MayContinue(r) => ~MayContinue(r)'
  BY StepRestricts
<1>5. CASE ~MayContinue(r)'
  BY <1>3, <1>5 DEF QuestionBacked
<1>6. CASE mail[d].state = "settled" /\ (turn[d].starts = 1 \/ crashes > 0)
  <2>1. mail'[d].state = "settled"
    BY <1>2, <1>6 DEF DeliveryEdge
  <2>2. turn'[d].starts = 1 \/ crashes' > 0
    BY <1>6, StartsKept, CrashesCount
  <2> QED BY <1>3, <2>1, <2>2 DEF QuestionBacked
<1>7. CASE mail[d].state \in Unresolved /\ MayContinue(r)'
  <2>1. CASE mail'[d].state \in Unresolved
    BY <1>3, <2>1 DEF QuestionBacked
  <2>2. CASE mail'[d].state \notin Unresolved
    <3>1. ASSUME NEW s \in Sessions, ReleasedBy(d, s)
          PROVE  mail'[d].state = "settled" /\ turn[d].starts = 1
      <4>1. worker[s].d = d /\ Knows(s) /\ Unwanted(s)
        BY <3>1 DEF ReleasedBy, ReqInv, QuestionInv
      <4>2. MayContinue(r)
        BY <1>4, <1>7
      <4>3. ~(worker[s].pc = "drop" /\ mail[d].state = "claimed")
        BY <1>1, <1>2, <4>1, <4>2 DEF Unwanted
      <4>4. mail[d].state # "review"
        BY <1>2, <4>1, <4>2 DEF Knows
      <4>5. mail[d].state = "running" /\ mail'[d].state = "settled"
        BY <2>2, <3>1, <4>3, <4>4 DEF ReleasedBy, Unresolved, Owned
      <4> QED BY <1>2, <4>5 DEF QuestionInv
    <3>2. ASSUME NEW s \in Sessions, ClaimedBy(d, s) \/ RunBy(d, s) PROVE FALSE
      BY <2>2, <3>2 DEF ClaimedBy, Claims, Marked, RunBy, Unresolved, Owned
    <3>3. ~RetiredAsQuestion(d) /\ ~Recovered(d)
      BY <1>2, <2>2 DEF RetiredAsQuestion, Recovered, Unresolved, Owned
    <3>4. ~FencedBy(d)
      <4>1. Of(d)' = r
        BY <1>2 DEF Kept
      <4>2. MayContinue(Of(d))' /\ ~Revoked(Of(d))'
        BY <1>7, <4>1 DEF Revoked, MayContinue
      <4> QED BY <4>2 DEF FencedBy
    <3>5. \/ mail'[d].state = "settled" /\ turn[d].starts = 1
          \/ SettledAtStart(d)
      BY <1>2, <1>7, <2>2, <3>1, <3>2, <3>3, <3>4 DEF MailChange
    <3>6. mail'[d].state = "settled" /\ (turn'[d].starts = 1 \/ crashes' > 0)
      <4>1. SettledAtStart(d) => mail'[d].state = "settled" /\ crashes' > 0
        BY CrashesCount DEF SettledAtStart, QuestionInv
      <4> QED BY <3>5, <4>1, StartsKept
    <3> QED BY <1>3, <3>6 DEF QuestionBacked
  <2> QED BY <2>1, <2>2
<1> QED BY <1>1, <1>4, <1>5, <1>6, <1>7

\* Every step keeps the questions' invariant.
LEMMA QuestionInvStep ==
  ASSUME MailInv, ReqInv, QuestionInv, [Next]_vars
  PROVE  QuestionInv'
<1>1. boot' # "up" => crashes' > 0
  BY CrashesCount DEF QuestionInv
<1>2. ASSUME NEW r \in Requests, req'[r].state = "waiting_input" PROVE QuestionBacked(r)'
  <2>1. CASE req[r].state = "waiting_input"
    BY <1>2, <2>1, QuestionStays
  <2>2. CASE req[r].state # "waiting_input"
    <3>1. PICK d \in Posted' : /\ d \notin Posted /\ \A e \in Posted : e < d
                               /\ Of(d)' = r /\ Asks(d)'
                               /\ mail'[d].state = "pending" \/ ~MayContinue(r)'
      BY <1>2, <2>2, AskedAlone
    <3>2. \A e \in Posted' : e \in Nat /\ (e = d \/ e < d)
      BY <3>1, OnePosted DEF Posted, Deliveries
    <3>3. LastQuestion(r, d)' /\ d \in Deliveries
      BY <3>1, <3>2 DEF LastQuestion, Asks, Posted
    <3> QED BY <3>1, <3>3 DEF QuestionBacked, Unresolved
  <2> QED BY <2>1, <2>2
<1> QED BY <1>1, <1>2, RunningStarted, UnwantedStep DEF QuestionInv

\* Nothing has been asked.
LEMMA QuestionInvInit ==
  ASSUME Init
  PROVE  QuestionInv
<1>1. /\ Posted = {} /\ boot = "up"
      /\ \A s \in Sessions : worker[s].d = 0
      /\ \A r \in Requests : req[r].state = "none"
  BY DEF Init, Posted, Idle
<1> QED BY <1>1 DEF QuestionInv, Unwanted

\* A request that is working has an execution behind it, one that is pending has mail
\* its target will be given, or a sweep will cancel it, and one that waits for its
\* source has a question on its way, or one that was put to the source, or that the
\* source has stopped, or that a startup after a crash has closed.
THEOREM RequestsAreBacked == Spec => []RequestBacked
<1>1. ASSUME MailInv, ReqInv, QuestionInv PROVE RequestBacked
  <2>1. ASSUME NEW r \in Requests, req[r].state = "working"
        PROVE  \E d \in MailAbout(r, {"running", "review"}) : To(d) = req[r].target
    BY <1>1, <2>1, TargetKinds DEF ReqInv, Backed, MailAbout
  <2>2. ASSUME NEW r \in Requests, req[r].state = "pending"
        PROVE  \/ \E d \in MailAbout(r, Unresolved) : To(d) = req[r].target
               \/ scope[req[r].group].state = "revoked"
    BY <1>1, <2>2, TargetKinds DEF ReqInv, Backed, MailAbout, Unresolved, Owned
  <2> QED BY <1>1, <2>1, <2>2 DEF RequestBacked, QuestionInv
<1>2. ASSUME MailInv, ReqInv, QuestionInv, [Next]_vars PROVE QuestionInv'
  BY <1>2, QuestionInvStep
<1> QED BY <1>1, <1>2, QuestionInvInit, RequestInvariant, PTL DEF Spec
-----------------------------------------------------------------------------
(* Somebody attends to what is claimed and what is running.                *)

Attended(d) ==
    /\ mail[d].state = "running" => worker[To(d)].d = d \/ turn[d].state = "broken"
    /\ mail[d].state = "claimed" => worker[To(d)].d = d \/ Refused(d)

\* A worker that resolves a claim resolves one under review, or (to no effect) the
\* claim of a question whose link was refused.
Resolves(s) ==
    worker[s].pc = "resolve" =>
        mail[worker[s].d].state = "review" \/ Refused(worker[s].d)

AttendInv ==
    /\ boot = "up" => \A d \in Posted : Attended(d)
    /\ \A s \in Sessions : Resolves(s)

\* A worker lets a delivery go once it is resolved or under review, or when it cannot
\* resolve it.
LEMMA WorkerLetsGo ==
  ASSUME MailInv, [Next]_vars, NEW s \in Sessions, worker[s].d # 0, worker'[s].d # worker[s].d
  PROVE  \/ boot' = "down"
         \/ mail'[worker[s].d].state \notin {"claimed", "running"}
         \/ worker[s].pc = "resolve" /\ mail[worker[s].d].state # "review"
         \/ worker[s].pc = "wait" /\ turn'[worker[s].d].state = "broken"
<1> DEFINE Goal == \/ boot' = "down"
                   \/ mail'[worker[s].d].state \notin {"claimed", "running"}
                   \/ worker[s].pc = "resolve" /\ mail[worker[s].d].state # "review"
                   \/ worker[s].pc = "wait" /\ turn'[worker[s].d].state = "broken"
<1>0. TypeOK /\ Held(s)
  BY DEF MailInv
<1>1. worker'[s] # worker[s]
  OBVIOUS
<1>2. ASSUME NEW t \in Sessions, WorkerRoutineStep(t) \/ Claim(t) \/ StartOk(t) PROVE Goal
  <2>1. CASE Claim(t)
    <3>1. worker[t].d = 0
      BY <2>1 DEF Claim, At, MailInv, Held
    <3>2. worker'[s] = worker[s] \/ t = s
      BY <2>1, ClaimDoes DEF Claims, WorkerNow
    <3> QED BY <1>1, <3>1, <3>2
  <2>2. CASE Drop(t) \/ Resolve(t) \/ Settle(t) \/ StartFails(t)
    <3>1. t = s
      BY <1>0, <1>1, <2>2, WorkerReleases
         DEF Drop, Resolve, Settle, StartFails, Transition, WorkerNow
    <3>2. worker[s].d \in Deliveries
      BY HeldOwned
    <3>3. {"cancelled", "settled", "review"} \subseteq DeliveryStates
      BY DEF DeliveryStates, Unresolved, Owned
    <3>4. ASSUME NEW before, NEW after \in DeliveryStates, Transition(s, before, after),
                 mail[worker[s].d].state = before
          PROVE  mail'[worker[s].d].state = after
      BY <3>2, <3>4, TransitionDoes DEF Leaves, Marked
    <3>5. ASSUME NEW before, NEW after \in DeliveryStates, Transition(s, before, after),
                 mail[worker[s].d].state # before
          PROVE  mail'[worker[s].d].state = mail[worker[s].d].state
      BY <3>5, TransitionDoes DEF Leaves
    <3>6. CASE Drop(s)
      BY <1>0, <3>3, <3>4, <3>5, <3>6 DEF Drop, At, Held
    <3>7. CASE StartFails(s)
      BY <1>0, <3>3, <3>4, <3>5, <3>7 DEF StartFails, At, Held
    <3>8. CASE Settle(s)
      BY <1>0, <3>3, <3>4, <3>5, <3>8 DEF Settle, At, Held
    <3>9. CASE Resolve(s)
      BY <1>0, <3>3, <3>4, <3>5, <3>9 DEF Resolve, At
    <3> QED BY <2>2, <3>1, <3>6, <3>7, <3>8, <3>9
  <2>3. CASE \/ Check(t) \/ Abandon(t) \/ StartBusy(t) \/ WaitOver(t) \/ Dispatch(t)
             \/ StartOk(t) \/ Link(t) \/ Fail(t)
    <3>1. worker'[s].d = worker[s].d
      BY <2>3, MovesDo, StartOkStarts, LinkDoes, FailDoes
         DEF Moves, StartOkDoes, Links, LinkRefused, Fails, WorkerNow
    <3> QED BY <3>1
  <2>4. CASE WaitResumed(t)
    <3>1. worker[t].pc = "wait" /\ (Relinks(t) \/ RelinkRefused(t) \/ RelinkBreaks(t))
      BY <2>4, WaitResumedDoes DEF WaitResumed, At
    <3>2. CASE Relinks(t) \/ RelinkRefused(t)
      BY <3>2 DEF Relinks, RelinkRefused, WorkerNow
    <3>3. CASE RelinkBreaks(t)
      <4>1. t = s
        BY <1>1, <3>3 DEF RelinkBreaks, WorkerNow
      <4> QED BY <3>1, <3>3, <4>1 DEF RelinkBreaks, TurnNow
    <3> QED BY <3>1, <3>2, <3>3
  <2>5. CASE WorkerDies(t)
    <3>1. /\ Dies(t) /\ worker[t].pc = "wait" /\ turn[worker[t].d].state = "broken"
      BY <2>5, WorkerDiesDoes
    <3>2. t = s
      BY <1>1, <3>1 DEF Dies, WorkerNow
    <3> QED BY <3>1, <3>2 DEF Dies
  <2> QED BY <1>2, <2>1, <2>2, <2>3, <2>4, <2>5 DEF WorkerRoutineStep
<1>3. CASE Crash
  BY <1>3 DEF Crash
<1>4. CASE HostStep /\ ~Crash
  BY <1>0, <1>1, <1>4, TurnSteps, BeginScopeDoes, StopScopeDoes, StopAssignmentDoes, SweepDoes,
     CancelRunsDoes, RecoveryDoes DEF HostStep
<1>5. ASSUME NEW t \in Sessions, NEW g \in Scopes, NEW r \in Requests, CreateRequest(g, t, r)
      PROVE  Goal
  BY <1>1, <1>5, CreateDoes
<1>6. ASSUME NEW d \in Deliveries, NEW kind \in Kinds, Post(d, kind) PROVE Goal
  BY <1>1, <1>6, PostDoes
<1>7. CASE UNCHANGED vars
  BY <1>1, <1>7 DEF vars
<1> QED BY <1>2, <1>3, <1>4, <1>5, <1>6, <1>7, StepCases

\* A turn that was started and cancelled stays so.
LEMMA CancelledForGood ==
  ASSUME MailInv, TurnInv, [Next]_vars, NEW d \in Deliveries,
         turn[d].starts = 1, turn[d].token
  PROVE  turn'[d].starts = 1 /\ turn'[d].token
<1>0. TypeOK /\ turn[d].state # "paused"
  BY DEF MailInv, TurnInv, Minded
<1>1. CASE UNCHANGED turn
  BY <1>1
<1>2. ASSUME NEW s \in Sessions, WorkerMoves(s) PROVE UNCHANGED turn
  BY <1>2, WorkerMovesDo
<1>3. ASSUME NEW s \in Sessions, WaitOver(s) \/ WorkerDies(s) PROVE UNCHANGED turn
  BY <1>3 DEF WaitOver, WorkerDies
<1>4. ASSUME NEW e \in Deliveries, MayCancel(e) PROVE turn'[d].starts = 1 /\ turn'[d].token
  BY <1>4 DEF MayCancel, CancelledTurn
<1>5. ASSUME NEW s \in Sessions, Link(s) \/ WaitResumed(s)
      PROVE  turn'[d].starts = 1 /\ turn'[d].token
  <2>1. worker[s].d \in Deliveries
    BY <1>5, HeldDelivery DEF Link, WaitResumed, At
  <2> QED BY <1>4, <1>5, <2>1, LinkDoes, WaitResumedDoes
          DEF Links, LinkRefused, Relinks, RelinkRefused, RelinkBreaks, TurnNow
<1>6. ASSUME NEW s \in Sessions, StartOk(s) PROVE turn'[d].starts = 1 /\ turn'[d].token
  <2>1. turn[worker[s].d].starts = 0
    BY <1>6 DEF StartOk, At, MailInv, Held
  <2>2. d # worker[s].d
    BY <2>1
  <2>3. StartOkDoes(s)
    BY <1>6, StartOkStarts
  <2>4. turn'[d] = turn[d]
    BY <2>2, <2>3 DEF StartOkDoes, TurnNow
  <2> QED BY <2>4
<1>7. ASSUME NEW e \in Deliveries, TurnStep(e) PROVE turn'[d].starts = 1 /\ turn'[d].token
  BY <1>0, <1>7, TurnSteps, ZenonT(40) DEF TurnStepDoes, TurnNow
<1>8. ASSUME NEW c \in stops, CancelRuns(c) PROVE turn'[d].starts = 1 /\ turn'[d].token
  BY <1>0, <1>8, CancelRunsDoes DEF CancelsAll, CancelledTurn
<1>9. CASE Crash
  BY <1>0, <1>9, CrashDoes DEF Crashes
<1>10. CASE \/ \E s \in Sessions, g \in Scopes : BeginScope(s, g)
            \/ \E mode \in ScopeStates, g \in Scopes : StopScope(g, mode)
            \/ \E mode \in ScopeStates, r \in Requests : StopAssignment(r, mode)
            \/ \E r \in Requests : Sweep(r)
            \/ RecoverUncertain \/ SettleInterrupted
  BY <1>0, <1>1, <1>10, BeginScopeDoes, StopScopeDoes, StopAssignmentDoes, SweepDoes, RecoveryDoes
<1>11. CASE \/ \E s \in Sessions, g \in Scopes, r \in Requests : CreateRequest(g, s, r)
            \/ \E e \in Deliveries, kind \in Kinds : Post(e, kind)
  BY <1>1, <1>11, CreateDoes, PostDoes
<1>12. CASE UNCHANGED vars
  BY <1>1, <1>12 DEF vars
<1> QED BY <1>1, <1>2, <1>3, <1>5, <1>6, <1>7, <1>8, <1>9, <1>10, <1>11, <1>12, StepCases
        DEF HostStep, WorkerRoutineStep, WorkerMoves

\* So does one that broke.
LEMMA BrokenForGood ==
  ASSUME MailInv, [Next]_vars, NEW d \in Deliveries, turn[d].state = "broken"
  PROVE  turn'[d].state = "broken"
<1>0. TypeOK
  BY DEF MailInv
<1>1. CASE UNCHANGED turn
  BY <1>1
<1>2. ASSUME NEW s \in Sessions, WorkerMoves(s) \/ WaitOver(s) \/ WorkerDies(s)
      PROVE  UNCHANGED turn
  BY <1>2, WorkerMovesDo DEF WaitOver, WorkerDies
<1>3. ASSUME NEW e \in Deliveries, MayCancel(e) PROVE turn'[d].state = "broken"
  BY <1>3 DEF MayCancel, CancelledTurn
<1>4. ASSUME NEW s \in Sessions, Link(s) \/ WaitResumed(s) PROVE turn'[d].state = "broken"
  <2>1. worker[s].d \in Deliveries
    BY <1>4, HeldDelivery DEF Link, WaitResumed, At
  <2> QED BY <1>3, <1>4, <2>1, LinkDoes, WaitResumedDoes
          DEF Links, LinkRefused, Relinks, RelinkRefused, RelinkBreaks, TurnNow
<1>5. ASSUME NEW s \in Sessions, StartOk(s) PROVE turn'[d].state = "broken"
  <2>1. turn[worker[s].d].state = "none"
    BY <1>5 DEF StartOk, At, MailInv, Held
  <2>2. d # worker[s].d
    BY <2>1
  <2>3. StartOkDoes(s)
    BY <1>5, StartOkStarts
  <2> QED BY <2>2, <2>3 DEF StartOkDoes, TurnNow
<1>6. ASSUME NEW e \in Deliveries, TurnStep(e) PROVE turn'[d].state = "broken"
  BY <1>0, <1>6, TurnSteps, ZenonT(40) DEF TurnStepDoes, TurnNow
<1>7. ASSUME NEW c \in stops, CancelRuns(c) PROVE turn'[d].state = "broken"
  BY <1>0, <1>7, CancelRunsDoes DEF CancelsAll, CancelledTurn
<1>8. CASE Crash
  BY <1>0, <1>8, CrashDoes DEF Crashes
<1>9. CASE \/ \E s \in Sessions, g \in Scopes : BeginScope(s, g)
           \/ \E mode \in ScopeStates, g \in Scopes : StopScope(g, mode)
           \/ \E mode \in ScopeStates, r \in Requests : StopAssignment(r, mode)
           \/ \E r \in Requests : Sweep(r)
           \/ RecoverUncertain \/ SettleInterrupted
  BY <1>0, <1>1, <1>9, BeginScopeDoes, StopScopeDoes, StopAssignmentDoes, SweepDoes, RecoveryDoes
<1>10. CASE \/ \E s \in Sessions, g \in Scopes, r \in Requests : CreateRequest(g, s, r)
            \/ \E e \in Deliveries, kind \in Kinds : Post(e, kind)
  BY <1>1, <1>10, CreateDoes, PostDoes
<1>11. CASE UNCHANGED vars
  BY <1>1, <1>11 DEF vars
<1> QED BY <1>1, <1>2, <1>4, <1>5, <1>6, <1>7, <1>8, <1>9, <1>10, <1>11, StepCases
        DEF HostStep, WorkerRoutineStep, WorkerMoves

\* A message whose turn was refused stays refused.
LEMMA RefusedStays ==
  ASSUME MailInv, TurnInv, [Next]_vars, NEW d \in Posted, Refused(d)
  PROVE  Refused(d)'
BY StepKeeps, CancelledForGood, Recipients DEF Refused, Kept

\* Every step keeps that an owned message is attended.
LEMMA AttendedStep ==
  ASSUME MailInv, TurnInv, ReqInv, AttendInv, [Next]_vars, boot' = "up", NEW d \in Posted'
  PROVE  Attended(d)'
<1>1. SUFFICES ASSUME mail'[d].state \in {"claimed", "running"} PROVE Attended(d)'
  BY DEF Attended
<1>2. d \in Posted
  BY <1>1, NewIsPermitted
<1>3. /\ d \in Deliveries /\ d # 0 /\ To(d) \in Sessions /\ To(d)' = To(d)
      /\ DeliveryEdge(mail[d].state, mail'[d].state) /\ MailChange(d)
  BY <1>2, Recipients, StepKeeps, StepEdges, StepChangesMail DEF Kept
<1> PICK s : s = To(d)
  OBVIOUS
<1>4. CASE boot # "up"
  <2>1. SettleInterrupted
    BY <1>4, BootSteps
  <2>2. boot = "recovered" /\ Marked(UnderReview, "settled")
    BY <2>1, RecoveryDoes DEF MailInv
  <2>3. mail[d].state \notin {"claimed", "running"}
    BY <1>2, <2>2 DEF ReqInv, Reviewed
  <2> QED BY <1>1, <1>3, <2>2, <2>3 DEF Marked
<1>5. CASE boot = "up"
  <2>1. Attended(d)
    BY <1>2, <1>5 DEF AttendInv
  <2>2. CASE mail'[d].state = mail[d].state /\ worker[s].d = d
    <3>1. CASE worker'[s].d = d
      BY <1>3, <3>1 DEF Attended
    <3>2. CASE worker'[s].d # d
      <4>1. \/ worker[s].pc = "resolve" /\ mail[d].state # "review"
            \/ worker[s].pc = "wait" /\ turn'[d].state = "broken"
        BY <1>1, <1>3, <2>2, <3>2, WorkerLetsGo
      <4>2. CASE worker[s].pc = "resolve" /\ mail[d].state # "review"
        <5>1. Refused(d) /\ mail[d].state # "running"
          BY <1>3, <2>2, <4>2 DEF AttendInv, Resolves, MailInv, Held
        <5>2. Refused(d)'
          BY <1>2, <5>1, RefusedStays
        <5> QED BY <2>2, <5>1, <5>2 DEF Attended
      <4>3. CASE worker[s].pc = "wait" /\ turn'[d].state = "broken"
        <5>1. mail[d].state = "running"
          BY <1>3, <2>2, <4>3 DEF MailInv, Held
        <5> QED BY <2>2, <4>3, <5>1 DEF Attended
      <4> QED BY <4>1, <4>2, <4>3
    <3> QED BY <3>1, <3>2
  <2>3. CASE mail'[d].state = mail[d].state /\ worker[s].d # d
    <3>1. \/ mail[d].state = "claimed" /\ Refused(d)
          \/ mail[d].state = "running" /\ turn[d].state = "broken"
      BY <1>1, <2>1, <2>3 DEF Attended
    <3>2. CASE mail[d].state = "claimed" /\ Refused(d)
      <4>1. Refused(d)'
        BY <1>2, <3>2, RefusedStays
      <4> QED BY <2>3, <3>2, <4>1 DEF Attended
    <3>3. CASE mail[d].state = "running" /\ turn[d].state = "broken"
      <4>1. turn'[d].state = "broken"
        BY <1>3, <3>3, BrokenForGood
      <4> QED BY <2>3, <3>3, <4>1 DEF Attended
    <3> QED BY <3>1, <3>2, <3>3
  <2>4. CASE mail'[d].state # mail[d].state
    <3>1. ASSUME NEW t \in Sessions, ClaimedBy(d, t) PROVE t = s /\ worker'[t].d = d
      BY <3>1 DEF ClaimedBy, Claims, WorkerNow
    <3>2. ASSUME NEW t \in Sessions, RunBy(d, t) PROVE t = s /\ worker'[t].d = d
      <4>1. worker[t].d = d
        BY <3>2 DEF RunBy
      <4> QED BY <1>3, <3>2, <4>1, HeldOwned DEF RunBy, Links, WorkerNow
    <3>3. ASSUME NEW t \in Sessions PROVE ~ReleasedBy(d, t)
      BY <1>1 DEF ReleasedBy
    <3>4. ~RetiredAsQuestion(d) /\ ~FencedBy(d) /\ ~Recovered(d) /\ ~SettledAtStart(d)
      BY <1>1 DEF RetiredAsQuestion, FencedBy, Queued, Recovered, SettledAtStart
    <3>5. worker'[s].d = d
      BY <1>3, <2>4, <3>1, <3>2, <3>3, <3>4 DEF MailChange
    <3> QED BY <1>3, <3>5 DEF Attended
  <2> QED BY <2>2, <2>3, <2>4
<1> QED BY <1>4, <1>5

\* A link that is refused to a claim nobody has fenced is that of a question.
LEMMA RefusalsAreQuestions ==
  ASSUME MailInv, ReqInv, NEW s \in Sessions, worker[s].pc = "link",
         mail[worker[s].d].state = "claimed", ~MayRun(worker[s].d, s)
  PROVE  mail[worker[s].d].kind = "clarification"
<1> PICK d, r : d = worker[s].d /\ r = Of(d)
  OBVIOUS
<1>1. /\ d \in Posted /\ d # 0 /\ To(d) = s /\ Due(d) /\ Knows(s)
      /\ mail[d].kind \in Kinds /\ d \in Deliveries
  <2>1. d \in Posted /\ To(d) = s /\ d \in Deliveries
    BY HeldDelivery
  <2>2. Due(d) /\ Knows(s) /\ d # 0
    BY <2>1 DEF ReqInv, Deliveries
  <2>3. mail[d].kind \in Kinds
    BY <2>1 DEF MailInv, TypeOK
  <2> QED BY <2>1, <2>2, <2>3
<1>2. ~Revoked(r) /\ req[r].target # Source(r)
  BY <1>1, Recipients DEF Due, Queued
<1>3. ASSUME ToTarget(d) PROVE FALSE
  <2>1. s = req[r].target /\ req[r].state = "pending"
    BY <1>1, <1>3, TargetKinds DEF Knows
  <2> QED BY <1>2, <1>3, <2>1 DEF MayRun, Permits, ToTarget
<1>4. ASSUME mail[d].kind = "reply" PROVE FALSE
  <2>1. MayContinue(r) /\ req[r].state = "replied"
    BY <1>1, <1>4 DEF Due, Queued
  <2> QED BY <1>2, <1>4, <2>1 DEF MayRun, Permits
<1>5. mail[d].kind # "progress"
  BY <1>1 DEF Due
<1> QED BY <1>1, <1>3, <1>4, <1>5 DEF ToTarget, Kinds

\* Every step keeps what a worker about to resolve stands before.
LEMMA ResolvesStep ==
  ASSUME MailInv, TurnInv, ReqInv, AttendInv, [Next]_vars, NEW s \in Sessions
  PROVE  Resolves(s)'
<1>0. MailInv'
  BY MailStep
<1>1. SUFFICES ASSUME worker'[s].pc = "resolve" PROVE Resolves(s)'
  BY DEF Resolves
<1>2. worker'[s].d # 0
  BY <1>0, <1>1 DEF MailInv, Held
<1>3. WorkerGoesOnFrom(s)
  BY <1>1, <1>2, WorkerGoesOn DEF WorkerHasClaimed
<1> PICK d : d = worker[s].d
  OBVIOUS
<1>4. /\ d # 0 /\ worker'[s].d = d
      /\ d \in Posted /\ d \in Deliveries /\ To(d) = s /\ mail[d].state \in Owned
  BY <1>2, <1>3, HeldOwned DEF WorkerGoesOnFrom
<1>5. CASE worker[s].pc = "resolve"
  <2>1. mail[d].state = "review" \/ Refused(d)
    BY <1>5 DEF AttendInv, Resolves
  <2>2. CASE Refused(d)
    BY <1>4, <2>2, RefusedStays DEF Resolves
  <2>3. CASE mail[d].state = "review"
    <3>1. MailChange(d) /\ boot = "up"
      BY <1>4, <1>5, StepChangesMail, WorkersAreUp
    <3>2. ASSUME NEW t \in Sessions, ReleasedBy(d, t) PROVE FALSE
      <4>1. worker[t].d = d /\ worker'[t].d = 0
        BY <3>2 DEF ReleasedBy
      <4>2. t = s
        BY <1>4, <4>1, HeldApart
      <4> QED BY <1>2, <4>1, <4>2
    <3>3. mail'[d].state = "review"
      BY <2>3, <3>1, <3>2
         DEF MailChange, ClaimedBy, Claims, RunBy, RetiredAsQuestion, FencedBy, Queued,
             Recovered, SettledAtStart
    <3> QED BY <1>4, <3>3 DEF Resolves
  <2> QED BY <2>1, <2>2, <2>3
<1>6. CASE mail[d].state = "review" /\ UNCHANGED mail
  BY <1>4, <1>6 DEF Resolves
<1>7. CASE worker[s].pc = "link" /\ LinkRefused(s)
  <2>1. /\ mail[d].state \in {"claimed", "review"} /\ turn[d].starts = 1
        /\ turn[d].state = "live" /\ ~turn[d].token
    BY <1>7 DEF MailInv, Held, TurnInv, AtTurn
  <2>2. ~MayRun(d, s) /\ MayCancel(d) /\ UNCHANGED mail
    BY <1>7 DEF LinkRefused
  <2>3. CASE mail[d].state = "review"
    BY <1>4, <2>2, <2>3 DEF Resolves
  <2>4. CASE mail[d].state = "claimed"
    <3>1. mail'[d].kind = "clarification"
      BY <1>7, <2>2, <2>4, RefusalsAreQuestions
    <3>2. turn'[d].starts = 1 /\ turn'[d].token
      BY <2>1, <2>2 DEF MayCancel, CancelledTurn
    <3> QED BY <1>4, <3>1, <3>2 DEF Resolves, Refused
  <2> QED BY <2>1, <2>3, <2>4
<1> QED BY <1>1, <1>3, <1>5, <1>6, <1>7 DEF WorkerGoesOnFrom

\* Every step keeps the attendance of owned messages.
LEMMA AttendInvStep ==
  ASSUME MailInv, TurnInv, ReqInv, AttendInv, [Next]_vars
  PROVE  AttendInv'
BY AttendedStep, ResolvesStep DEF AttendInv

\* The store starts without owned messages.
LEMMA AttendInvInit ==
  ASSUME Init
  PROVE  AttendInv
<1>1. Posted = {} /\ \A s \in Sessions : worker[s].pc = "none"
  BY DEF Init, Posted, Idle
<1> QED BY <1>1 DEF AttendInv, Resolves

\* While the daemon is up, what is running is waited for, but for a delivery whose turn
\* broke and took its worker along, and what is claimed is held by the worker that will
\* start or release it, but for a question whose link was refused: no stop, refusal,
\* approval or restart leaves anything else behind.
THEOREM OwnersAreAttended == Spec => []OwnerAttended
<1>1. AttendInv => OwnerAttended
  BY DEF AttendInv, Attended, OwnerAttended
<1>2. ASSUME MailInv, TurnInv, ReqInv, AttendInv, [Next]_vars
      PROVE  TurnInv' /\ AttendInv'
  BY <1>2, TurnInvStep, AttendInvStep
<1> QED BY <1>1, <1>2, TurnInvInit, AttendInvInit, RequestInvariant, PTL DEF Spec
-----------------------------------------------------------------------------
(* An open request has room for its reply.                                 *)

About(r) == {d \in Posted : Of(d) = r}
OpenStates == {"pending", "working", "waiting_input"}

\* The messages about a request, counted as the store counts them.
LEMMA AboutIs ==
  ASSUME MailInv, NEW r
  PROVE  MailAbout(r, DeliveryStates) = About(r) /\ IsFiniteSet(About(r))
<1>1. \A d \in Posted : mail[d].state \in DeliveryStates
  BY DEF MailInv, TypeOK, Posted
<1>2. MailAbout(r, DeliveryStates) = About(r)
  BY <1>1 DEF MailAbout, About
<1>3. PICK n \in 0 .. MaxDeliveries : Posted = 1 .. n
  BY DEF MailInv, Addressed
<1>4. IsFiniteSet(1 .. n)
  BY <1>3, FS_Interval DEF CollaborationAssumption
<1>5. About(r) \subseteq Posted
  BY DEF About
<1>6. IsFiniteSet(About(r))
  BY <1>3, <1>4, <1>5, FS_Subset
<1> QED BY <1>2, <1>6

\* A step that posts nothing about a request leaves its mail what it was.
LEMMA AboutKept ==
  ASSUME MailInv, [Next]_vars, NEW r, \A d \in Posted' : Of(d)' = r => d \in Posted
  PROVE  About(r)' = About(r)
<1>1. \A d \in Posted : d \in Posted' /\ Of(d)' = Of(d)
  BY StepKeepsAddresses DEF AddressKept
<1>2. \A d : d \in About(r)' <=> d \in About(r)
  BY <1>1 DEF About
<1> QED BY <1>2, Zenon

RoomFor(r) == req[r].state \in OpenStates => Cardinality(About(r)) < MaxMessages

\* Every step keeps room for the reply.
LEMMA RoomForStep ==
  ASSUME MailInv, [Next]_vars, NEW r \in Requests, RoomFor(r)
  PROVE  RoomFor(r)'
<1>1. SUFFICES ASSUME req'[r].state \in OpenStates
               PROVE  Cardinality(About(r)') < MaxMessages
  BY DEF RoomFor, OpenStates
<1>2. req[r].state \in OpenStates \/ Opened(r)
  BY <1>1, StepChangesRequest, AnswerMoves
     DEF RequestChange, TakenUp, GivenUp, Dismissed, CutOff, FoundDead, OpenStates
<1>3. MailInv' /\ IsFiniteSet(About(r)) /\ MaxMessages \in Nat \ {0, 1}
  BY MailStep, AboutIs DEF CollaborationAssumption
<1>4. ASSUME NEW d \in Posted', d \notin Posted, Of(d)' = r
      PROVE  Cardinality(About(r)') < MaxMessages
  <2>1. \A e : e \in About(r)' <=> e \in About(r) \/ e = d
    <3>1. \A e \in Posted : e \in Posted' /\ Of(e)' = Of(e)
      BY StepKeepsAddresses DEF AddressKept
    <3>2. \A e \in Posted' : e \in Posted \/ e = d
      BY <1>4, OnePosted
    <3> QED BY <1>4, <3>1, <3>2 DEF About
  <2>2. About(r)' = About(r) \cup {d}
    BY <2>1, Zenon
  <2>3. d \notin About(r)
    BY <1>4 DEF About
  <2>4. Cardinality(About(r) \cup {d}) = Cardinality(About(r)) + 1
    BY <1>3, <2>3, FS_AddElement
  <2>5. Cardinality(About(r)) \in Nat
    BY <1>3, FS_CardinalityType
  <2>6. mail'[d].of = r
    BY <1>4 DEF Of
  <2>7. CASE req[r].state = "none"
    <3>1. About(r) = {}
      BY <2>7 DEF About, MailInv, Addressed
    <3>2. Cardinality(About(r)) = 0
      BY <3>1, FS_EmptySet
    <3> QED BY <1>3, <2>2, <2>4, <3>2
  <2>8. CASE req[r].state # "none"
    <3>1. ASSUME NEW t \in Sessions, NEW g \in Scopes, NEW q \in Requests, CreateRequest(g, t, q)
          PROVE  FALSE
      <4>1. Creates(g, t, q) /\ UNCHANGED scope
        BY <3>1, CreateDoes DEF Still
      <4>2. PICK e \in Deliveries : NewMessage(e, q, "request", "pending", {})
                                    /\ Posted' = Posted \cup {e}
        BY <4>1, CreateKeepsAddresses
      <4>3. q = r
        BY <1>4, <2>6, <4>2 DEF NewMessage
      <4> QED BY <2>8, <4>1, <4>3 DEF Creates
    <3>2. PICK d0 \in Deliveries, kind \in Kinds : Post(d0, kind)
      BY <1>4, <3>1, StepOfPosts
    <3>3. Posts(d0, kind) /\ UNCHANGED scope
      BY <3>2, PostDoes DEF Still
    <3>4. Of(d0) = r
      <4>1. PICK e \in Deliveries :
               /\ NewMessage(e, Of(d0), kind, FirstState(kind, Executable(Of(d0), kind)),
                             Retired(Of(d0), kind))
               /\ Posted' = Posted \cup {e}
        BY <3>3, PostKeepsAddresses
      <4> QED BY <1>4, <2>6, <4>1 DEF NewMessage
    <3>5. kind # "reply"
      BY <1>1, <3>3, <3>4 DEF Posts, Moved, NextState, OpenStates
    <3>6. Cardinality(MailAbout(r, DeliveryStates)) < MaxMessages - 1
      BY <3>2, <3>4, <3>5 DEF Post, Append
    <3> QED BY <1>3, <2>2, <2>4, <2>5, <3>6, AboutIs
  <2> QED BY <2>7, <2>8
<1>5. ASSUME \A d \in Posted' : Of(d)' = r => d \in Posted
      PROVE  Cardinality(About(r)') < MaxMessages
  <2>1. About(r)' = About(r)
    BY <1>5, AboutKept
  <2>2. ~Opened(r)
    BY <1>5 DEF Opened, Of
  <2> QED BY <1>2, <2>1, <2>2 DEF RoomFor
<1> QED BY <1>4, <1>5

\* However long the two sessions talk, an open request has room for one more message,
\* the reply: _append keeps the last one of MAX_MESSAGES for it.
THEOREM RoomIsKept == Spec => []ReplyHasRoom
<1>1. ASSUME Init PROVE \A r \in Requests : RoomFor(r)
  BY <1>1 DEF Init, RoomFor, OpenStates
<1>2. ASSUME MailInv, \A r \in Requests : RoomFor(r), [Next]_vars
      PROVE  (\A r \in Requests : RoomFor(r))'
  BY <1>2, RoomForStep
<1>3. ASSUME MailInv, \A r \in Requests : RoomFor(r) PROVE ReplyHasRoom
  BY <1>3, AboutIs DEF RoomFor, ReplyHasRoom, OpenStates
<1> QED BY <1>1, <1>2, <1>3, MailboxInvariant, PTL DEF Spec
=============================================================================
