---------------------------- MODULE MCToolCalls -----------------------------
(***************************************************************************)
(* Model checking of program tool calls.  Runs are interchangeable, and so *)
(* are calls.                                                              *)
(***************************************************************************)
EXTENDS ToolCalls, TLC

Symmetry == Permutations(Runs) \cup Permutations(Calls)

(***************************************************************************)
(* Of a call that is over, without a ticket, a place in a queue or a       *)
(* thread, no step and no property reads more than its run and its answer. *)
(* States that differ in the rest are one state for TLC.                   *)
(***************************************************************************)
Over(c) ==
    /\ task[c] \in {"done", "quit"} /\ job[c] \in {"none", "cancelled", "finished"}
    /\ c \notin held \cup Range(queue) \cup Range(work)

LiveCalls ==
    <<run, task, cancel, settled, queue, held, reads, writer, work, inflight,
      [c \in Calls |-> IF Over(c) THEN info[c].run ELSE info[c]],
      [c \in Calls |-> IF Over(c) THEN "none" ELSE job[c]]>>
=============================================================================
