-------------------------- MODULE MCRuntimeManager --------------------------
(***************************************************************************)
(* Model checking of the runtime manager.  Thread ids are interchangeable. *)
(***************************************************************************)
EXTENDS RuntimeManager, TLC

RefSymmetry == Permutations(Refs)

(***************************************************************************)
(* What a call that has returned had in its local variables is dead: no    *)
(* step reads it, and CloseLeavesNothing reads the session of a close that *)
(* is done alone.  States that differ there are one state for TLC.         *)
(***************************************************************************)
SubmitFrame(c) ==
    IF submits[c].pc \in {"done", "failed", "keyerror"}
    THEN [pc |-> submits[c].pc] ELSE submits[c]

CloseFrame(k) ==
    CASE closes[k].pc = "done" -> [pc |-> "done", session |-> closes[k].session]
      [] closes[k].pc = "failed" -> [pc |-> "failed"]
      [] OTHER -> closes[k]

LiveFrames ==
    <<mgrClosed, sessions, runtimes, submitLock, lockCount, locked, lifecycle,
      closing, queuedOwner, releaseTask, permits, waiting, shutdown, abandoned,
      leaked, [c \in SubmitIds |-> SubmitFrame(c)], [k \in CloseIds |-> CloseFrame(k)]>>
=============================================================================
