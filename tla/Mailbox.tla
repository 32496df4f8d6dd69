------------------------------- MODULE Mailbox ------------------------------
(***************************************************************************)
(* What the collaboration mailbox promises, whatever its requests, scopes, *)
(* workers and crashes do: every session has one queue, its messages are   *)
(* taken in the order they were posted, one at a time, and each of them is *)
(* executed at most once.  A message may be closed at any time, but never  *)
(* while it could still be executed.                                       *)
(***************************************************************************)
EXTENDS Naturals

CONSTANTS Messages,   \* message numbers, in the order of their posting
          Recipients

VARIABLES box,   \* "new", "waiting", "owned" or "closed"
          to,    \* the recipient of a message that is posted
          runs   \* how often it was executed

mailVars == <<box, to, runs>>

Init ==
    /\ box = [m \in Messages |-> "new"]
    /\ to \in [Messages -> Recipients]
    /\ runs = [m \in Messages |-> 0]

(* Messages that wait or are owned are closed, for good.                   *)
Closed(C) ==
    /\ C \subseteq {m \in Messages : box[m] \in {"waiting", "owned"}}
    /\ box' = [m \in Messages |-> IF m \in C THEN "closed" ELSE box[m]]
    /\ UNCHANGED <<to, runs>>

Close == \E C \in SUBSET Messages : Closed(C)

(* A new message is posted behind all others; it may be a mere notice, and *)
(* it may supersede messages that still wait.                              *)
Post(m, C) ==
    /\ box[m] = "new"
    /\ \A n \in Messages : n < m => box[n] # "new"
    /\ C \subseteq {n \in Messages : box[n] = "waiting"}
    /\ \E b \in {"waiting", "closed"} :
          box' = [n \in Messages |-> IF n = m THEN b
                                     ELSE IF n \in C THEN "closed" ELSE box[n]]
    /\ \E s \in Recipients : to' = [to EXCEPT ![m] = s]
    /\ UNCHANGED runs

(* The oldest waiting message of a recipient who owns none.                *)
Take(m) ==
    /\ box[m] = "waiting"
    /\ \A n \in Messages : to[n] = to[m] =>
          /\ box[n] # "owned"
          /\ n < m => box[n] # "waiting"
    /\ box' = [box EXCEPT ![m] = "owned"]
    /\ UNCHANGED <<to, runs>>

Execute(m) ==
    /\ box[m] = "owned" /\ runs[m] = 0
    /\ runs' = [runs EXCEPT ![m] = 1]
    /\ UNCHANGED <<box, to>>

Next ==
    \/ Close
    \/ \E m \in Messages : \/ Take(m) \/ Execute(m)
                           \/ \E C \in SUBSET Messages : Post(m, C)

Spec == Init /\ [][Next]_mailVars
=============================================================================
