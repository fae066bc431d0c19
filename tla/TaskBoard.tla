----------------------------- MODULE TaskBoard -----------------------------
(***************************************************************************)
(* What a controller that polls CheckTaskStatus (src/connection/api.go) is *)
(* promised: a task is unknown, then waiting, then decided, one task at a  *)
(* time, and the decision stands until the shim forgets all of its tasks.  *)
(* If the id of a task may be given to another one (Reuse), less is left   *)
(* of it: an id nobody was given stays unknown, no step changes the answer *)
(* for two ids, and every answer is one of those listed.                   *)
(***************************************************************************)
CONSTANTS
    TaskIds,
    Verdicts,   \* the messages that a decided task can be answered with
    Reuse       \* may an id be given to a task while another one has it?

VARIABLE board  \* [TaskIds -> the reply to CheckTaskStatus]

Unknown == [t \in TaskIds |-> "task not found"]

Init == board = Unknown

Accept(t) ==
    /\ Reuse \/ board[t] = "task not found"
    /\ board' = [board EXCEPT ![t] = "waiting"]

Decide(t, verdict) ==
    /\ \/ board[t] = "waiting"
       \/ Reuse /\ board[t] # "task not found"
    /\ board' = [board EXCEPT ![t] = verdict]

Forget == board' = Unknown

Next ==
    \/ \E t \in TaskIds : Accept(t) \/ \E verdict \in Verdicts : Decide(t, verdict)
    \/ Forget

Spec == Init /\ [][Next]_board
=============================================================================
