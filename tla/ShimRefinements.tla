-------------------------- MODULE ShimRefinements --------------------------
(***************************************************************************)
(* What the gRPC service of ShimService promises to its controller, as two *)
(* abstract specifications that it implements.                             *)
(***************************************************************************)
EXTENDS ShimService

\* The replies to CheckTaskStatus.
Board == [t \in TaskIds |-> CheckTaskStatusReply(t)]

TB == INSTANCE TaskBoard WITH
          Verdicts <- {"prepare failed", "started"},
          Reuse <- IdsCollide,
          board <- Board

\* The groups whose node runs, per launch file, and ChildPids.
RunningNodes == [lf \in Launches |-> LiveGroups(lf)]

NS == INSTANCE NodeSupervisor WITH
          node <- RunningNodes,
          known <- childPids

\* If ids do not collide, CheckTaskStatus shows each task unknown, waiting,
\* decided, in this order and one task at a time, whatever workers, restarts and
\* the end of the process do to the map of tasks meanwhile.  If they do, a verdict
\* may be taken back and replaced by another task's, but still one id at a time,
\* and no id has an answer that no task was given.
ImplementsTaskBoard == TB!Spec

\* For a controller that does one thing at a time per launch file, the workers
\* and handlers together are a supervisor: no node is started next to another
\* one, ChildPids never names anything but the node of its launch file, and no
\* entry is deleted while its node runs.
ImplementsSupervisor == NS!Spec
=============================================================================
