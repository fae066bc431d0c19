------------------------- MODULE ShimServiceProofs -------------------------
(***************************************************************************)
(* Proofs about ShimService for every set of process ids, launch files,    *)
(* handlers, workers and task ids, every number of restarts of the shim    *)
(* and every discipline of the controller.                                 *)
(***************************************************************************)
EXTENDS ShimService, TLAPS

USE NoneAssumption, NoTaskAssumption, BootsAssumption

-----------------------------------------------------------------------------
(***************************************************************************)
(* Type correctness.                                                       *)
(***************************************************************************)
\* The values the code gives to entries of tasks.
LEMMA TaskType ==
    ASSUME NEW d \in BOOLEAN, NEW m \in Messages
    PROVE  Task(d, m) \in TaskRecords
  BY Zenon DEF Task, TaskRecords

\* The five statuses a task can be given are records of tasks.
LEMMA TaskValues ==
    /\ NoTask \in TaskRecords
    /\ Task(FALSE, "starting") \in TaskRecords
    /\ Task(FALSE, "start failed") \in TaskRecords
    /\ Task(TRUE, "prepare failed") \in TaskRecords
    /\ Task(TRUE, "started") \in TaskRecords
  <1>1. {"absent", "starting", "start failed", "prepare failed", "started"}
           \subseteq Messages
    BY DEF Messages
  <1>2. QED
    BY <1>1, TaskType DEF NoTask

\* Before the first start of the shim everything is empty.
LEMMA TypeInit == Init => TypeOK
  <1> SUFFICES ASSUME Init PROVE TypeOK
    OBVIOUS
  <1>1. registered \in BOOLEAN
    BY DEF Init
  <1>2. IdleWorker \in WorkerRecords /\ IdleWorker.pc = "idle"
    BY DEF IdleWorker, WorkerRecords, WorkerPCs
  <1>3. IdleCall \in CallRecords /\ IdleCall.pc = "idle"
    BY DEF IdleCall, CallRecords, CallPCs, Ops
  <1>4. tasks \in [TaskIds -> TaskRecords]
    BY TaskValues DEF Init
  <1>5. QED
    BY <1>1, <1>2, <1>3, <1>4
       DEF Init, TypeOK, GroupsInit, GroupStates

\* ShimGone is what Exit, Reexec and MapFault have in common.
LEMMA TypeShimGone == TypeOK /\ ShimGone => TypeOK'
  <1> SUFFICES ASSUME TypeOK, ShimGone PROVE TypeOK'
    OBVIOUS
  <1>1. \A w \in Workers :
           /\ worker'[w] \in WorkerRecords
           /\ worker'[w].pc # "idle" =>
                 worker'[w].launch \in Launches /\ worker'[w].task \in TaskIds
           /\ worker'[w].pc \notin {"record", "report"}
    BY DEF TypeOK, ShimGone, WorkerRecords, WorkerPCs
  <1>2. /\ group' \in [Pids -> GroupStates]
        /\ owner' \in [Pids -> Launches \cup {None}]
    BY DEF TypeOK, ShimGone, AdoptedByInit, GroupStates
  <1>3. /\ tasks' \in [TaskIds -> TaskRecords]
        /\ registered' \in BOOLEAN
    BY TaskValues DEF ShimGone
  <1>4. QED
    BY <1>1, <1>2, <1>3 DEF TypeOK, ShimGone, IdleCall,
       CallRecords, CallPCs, Ops, WorkerRecords, WorkerPCs

\* What Launch does to the record of its worker.
LEMMA PidRecorded ==
    ASSUME NEW wk \in WorkerRecords, NEW p \in Pids
    PROVE  [wk EXCEPT !.pc = "record", !.pid = p] \in WorkerRecords
  BY DEF WorkerRecords, WorkerPCs

\* What StopDelete does to the records of the handlers, its own and the others.
LEMMA StopDeleteRecords ==
    ASSUME NEW cl \in CallRecords, NEW lf \in Launches
    PROVE  /\ AfterStop(cl) \in CallRecords
           /\ \/ AfterStop(cl).pc = "idle"
              \/ /\ AfterStop(cl).pc = "start"
                 /\ AfterStop(cl).launch = cl.launch
                 /\ AfterStop(cl).pid = cl.pid
           /\ WithoutEntry(cl, lf) \in CallRecords
           /\ WithoutEntry(cl, lf).pc = cl.pc
           /\ WithoutEntry(cl, lf).op = cl.op
           /\ WithoutEntry(cl, lf).launch = cl.launch
           /\ WithoutEntry(cl, lf).pid = cl.pid
  BY DEF AfterStop, WithoutEntry, IdleCall, CallRecords, CallPCs, Ops

\* What PrepareFails, LaunchFails and Report have in common.
LEMMA TypeFinished ==
    ASSUME TypeOK, NEW w \in Workers, worker[w].pc # "idle",
           tasks' \in [TaskIds -> TaskRecords],
           worker' = [worker EXCEPT ![w].pc = "finished"],
           UNCHANGED <<shim, boots, registered, pending, childPids, call,
                       group, owner>>
    PROVE  TypeOK'
  BY DEF TypeOK, WorkerRecords, WorkerPCs

\* One case per action; each leaf expands the action and the record sets it
\* moves between.
LEMMA TypeStep == TypeOK /\ [Next]_vars => TypeOK'
  <1> SUFFICES ASSUME TypeOK, [Next]_vars PROVE TypeOK'
    OBVIOUS
  <1> USE DEF TypeOK
  <1>1. CASE Boot
    <2>1. /\ tasks' \in [TaskIds -> TaskRecords]
          /\ registered' \in BOOLEAN
      BY <1>1, TaskValues DEF Boot
    <2>2. QED
      BY <1>1, <2>1 DEF Boot
  <1>2. CASE Register
    BY <1>2 DEF Register
  <1>3. ASSUME NEW w \in Workers, NEW t \in TaskIds, NEW lf \in Launches,
               StartService(w, t, lf)
        PROVE  TypeOK'
    <2>1. tasks' \in [TaskIds -> TaskRecords]
      BY <1>3, TaskValues DEF StartService, SpawnWorker, NewTaskIds
    <2>2. QED
      BY <1>3, <2>1 DEF StartService, SpawnWorker, NewTaskIds, serverVars,
         WorkerRecords, WorkerPCs
  <1>4. ASSUME NEW w \in Workers, WorkerStep(w) PROVE TypeOK'
    <2>1. CASE PrepareFails(w)
      <3>1. tasks' \in [TaskIds -> TaskRecords]
        BY <2>1, TaskValues DEF PrepareFails, UpdatedTasks
      <3>2. QED
        BY <2>1, <3>1, TypeFinished DEF PrepareFails, Goto, serverVars
    <2>2. CASE PrepareDone(w)
      BY <2>2 DEF PrepareDone, Goto, serverVars, WorkerRecords, WorkerPCs
    <2>3. ASSUME NEW p \in Pids, Launch(w, p) PROVE TypeOK'
      <3>0. [worker[w] EXCEPT !.pc = "record", !.pid = p] \in WorkerRecords
        BY PidRecorded
      <3>1. worker' \in [Workers -> WorkerRecords]
        BY <2>3, <3>0 DEF Launch
      <3>2. group' \in [Pids -> GroupStates]
        BY <2>3 DEF Launch, Fork, GroupStates
      <3>3. \A v \in Workers :
               /\ worker'[v].launch = worker[v].launch
               /\ worker'[v].task = worker[v].task
               /\ v # w => worker'[v] = worker[v]
        BY <2>3 DEF Launch, WorkerRecords
      <3>4. worker[w].pc = "launch" /\ worker'[w].pid = p
        BY <2>3 DEF Launch, WorkerRecords
      <3>5. QED
        BY <2>3, <3>1, <3>2, <3>3, <3>4 DEF Launch, Fork, serverVars
    <2>4. CASE LaunchFails(w)
      <3>1. tasks' \in [TaskIds -> TaskRecords]
        BY <2>4, TaskValues DEF LaunchFails, UpdatedTasks
      <3>2. QED
        BY <2>4, <3>1, TypeFinished DEF LaunchFails, Goto, serverVars
    <2>5. CASE Record(w)
      BY <2>5 DEF Record, Goto, serverVars, WorkerRecords, WorkerPCs
    <2>6. CASE Report(w)
      <3>1. tasks' \in [TaskIds -> TaskRecords]
        BY <2>6, TaskValues DEF Report, UpdatedTasks
      <3>2. QED
        BY <2>6, <3>1, TypeFinished DEF Report, Goto, serverVars
    <2>7. QED
      BY <1>4, <2>1, <2>2, <2>3, <2>4, <2>5, <2>6 DEF WorkerStep
  <1>5. ASSUME NEW c \in Calls, NEW op \in {"stop", "restart"},
               NEW lf \in Launches, StopRosNode(c, op, lf)
        PROVE  TypeOK'
    BY <1>5 DEF StopRosNode, Tracked, serverVars, IdleCall, CallRecords,
       CallPCs, Ops
  <1>6. ASSUME NEW c \in Calls, NEW op \in {"shutdown", "reexec"},
               RangeBegin(c, op)
        PROVE  TypeOK'
    BY <1>6 DEF RangeBegin, Tracked, serverVars, IdleCall, CallRecords,
       CallPCs, Ops
  <1>7. ASSUME NEW c \in Calls, CallStep(c) PROVE TypeOK'
    <2>1. CASE StopKill(c)
      BY <2>1 DEF StopKill, KillIfActive, serverVars, CallRecords, CallPCs,
         GroupStates
    <2>2. CASE StopDelete(c)
      <3> DEFINE lf == call[c].launch
      <3>1. lf \in Launches /\ call[c].pid \in Pids
        BY <2>2 DEF StopDelete
      <3>2. call' = [d \in Calls |-> IF d = c THEN AfterStop(call[d])
                                             ELSE WithoutEntry(call[d], lf)]
        BY <2>2 DEF StopDelete
      <3> HIDE DEF lf
      <3>3. ASSUME NEW d \in Calls
            PROVE  /\ call'[d] \in CallRecords
                   /\ call'[d].pc \in {"grace", "delete", "start", "rangeGrace"}
                         => call'[d].launch \in Launches /\ call'[d].pid \in Pids
                   /\ call'[d].pc \in {"range", "rangeGrace"} =>
                         call'[d].op \in {"shutdown", "reexec"}
        <4>1. call[d] \in CallRecords
          OBVIOUS
        <4>2. CASE d = c
          <5>1. call'[d] = AfterStop(call[d])
            BY <3>2, <4>2
          <5>2. QED
            BY <2>2, <4>1, <4>2, <5>1, <3>1, StopDeleteRecords DEF StopDelete
        <4>3. CASE d # c
          <5>1. call'[d] = WithoutEntry(call[d], lf)
            BY <3>2, <4>3
          <5>2. /\ call'[d] \in CallRecords
                /\ call'[d].pc = call[d].pc /\ call'[d].op = call[d].op
                /\ call'[d].launch = call[d].launch
                /\ call'[d].pid = call[d].pid
            BY <4>1, <5>1, <3>1, StopDeleteRecords
          <5>3. QED
            BY <5>2
        <4>4. QED
          BY <4>2, <4>3
      <3>4. QED
        BY <2>2, <3>2, <3>3 DEF StopDelete, serverVars
    <2>3. ASSUME NEW w \in Workers, NEW t \in TaskIds, RestartStart(c, w, t)
          PROVE  TypeOK'
      <3>1. tasks' \in [TaskIds -> TaskRecords]
        BY <2>3, TaskValues DEF RestartStart, SpawnWorker, NewTaskIds
      <3>2. QED
        BY <2>3, <3>1 DEF RestartStart, SpawnWorker, NewTaskIds, serverVars,
         WorkerRecords, WorkerPCs, IdleCall, CallRecords, CallPCs, Ops
    <2>4. ASSUME NEW lf \in Launches, RangeNext(c, lf) PROVE TypeOK'
      BY <2>4 DEF RangeNext, Tracked, serverVars, CallRecords, CallPCs
    <2>5. CASE RangeKill(c)
      BY <2>5 DEF RangeKill, KillIfActive, serverVars, CallRecords, CallPCs,
         GroupStates
    <2>6. CASE RangeDone(c)
      BY <2>6 DEF RangeDone, IdleCall, CallRecords, CallPCs, Ops
    <2>7. QED
      BY <1>7, <2>1, <2>2, <2>3, <2>4, <2>5, <2>6 DEF CallStep
  <1>8. CASE Signal
    BY <1>8 DEF Signal
  <1>9. CASE QuitSignal
    BY <1>9 DEF QuitSignal
  <1>10. CASE Exit \/ Reexec \/ MapFault
    BY <1>10, TypeShimGone DEF Exit, Reexec, MapFault
  <1>11. CASE ReexecFails
    BY <1>11 DEF ReexecFails
  <1>12. CASE Environment
    BY <1>12 DEF Environment, NodeExits, ForeignFork, OtherExits, serverVars,
       GroupStates
  <1>13. CASE UNCHANGED vars
    BY <1>13 DEF vars
  <1>14. QED
    BY <1>1, <1>2, <1>3, <1>4, <1>5, <1>6, <1>7, <1>8, <1>9, <1>10, <1>11,
       <1>12, <1>13 DEF Next

\* No interleaving of handlers, workers, crashes and restarts leaves a goroutine
\* about to use a pid, a task or a launch file that it does not have.
THEOREM TypeCorrect == Spec => []TypeOK
  BY TypeInit, TypeStep, PTL DEF Spec

-----------------------------------------------------------------------------
(***************************************************************************)
(* Pids that the shim holds.  OwnGroups says that nothing else can have    *)
(* got them; StopKillsNode needs it, because TerminateProcess only kills   *)
(* the group if the pid still answers.                                     *)
(***************************************************************************)
PidInv == TypeOK /\ OwnGroups /\ StopKillsNode

\* What the operating system may do while the shim runs.
GroupStep ==
    \/ \E p \in Pids, lf \in Launches : Fork(p, lf)
    \/ \E p \in Pids : \/ KillIfActive(p)
                       \/ NodeExits(p)
                       \/ ForeignFork(p)
                       \/ OtherExits(p)
    \/ UNCHANGED <<group, owner>>

\* A held pid is not given away, and a dead group does not come back.
LEMMA GroupStepKeeps ==
    ASSUME TypeOK, GroupStep
    PROVE  \A p \in Pids :
              /\ \A lf \in Launches : Holds(p, lf) => Holds(p, lf)'
              /\ group[p] = "dead" => group'[p] = "dead"
  <1> USE DEF TypeOK, Holds
  <1>1. ASSUME NEW q \in Pids, NEW k \in Launches, Fork(q, k)
        PROVE  \A p \in Pids :
                  group[p] \in {"live", "dead"} =>
                      group'[p] = group[p] /\ owner'[p] = owner[p]
    BY <1>1 DEF Fork
  <1>2. ASSUME NEW q \in Pids,
               \/ KillIfActive(q) \/ NodeExits(q)
               \/ ForeignFork(q) \/ OtherExits(q)
        PROVE  \A p \in Pids :
                  group[p] \in {"live", "dead"} =>
                      /\ group'[p] \in {"dead", group[p]}
                      /\ owner'[p] = owner[p]
    BY <1>2 DEF KillIfActive, IsProcessActive, NodeExits, ForeignFork,
       OtherExits
  <1>3. QED
    BY <1>1, <1>2 DEF GroupStep

AtWorker(w) == worker[w].pc \in {"record", "report"}
AtCall(c) == call[c].pc \in {"grace", "delete", "start", "rangeGrace"}
Killed(c) == call[c].pc \in {"delete", "start"}

\* No holder of a pid appears or changes: what most steps have in common.
NoNewHolder ==
    /\ \A lf \in Launches : childPids'[lf] \in {None, childPids[lf]}
    /\ \A w \in Workers : AtWorker(w)' =>
          /\ AtWorker(w)
          /\ worker'[w].pid = worker[w].pid
          /\ worker'[w].launch = worker[w].launch
    /\ \A c \in Calls :
          /\ AtCall(c)' => /\ AtCall(c)
                           /\ call'[c].pid = call[c].pid
                           /\ call'[c].launch = call[c].launch
          /\ Killed(c)' => Killed(c)

\* A step after which nobody holds a pid that was not held before, no handler has
\* newly come to believe that a group is dead, and the groups move as
\* ProcessGroups lets them, keeps the invariant.
LEMMA NoNewHolderKeeps ==
    ASSUME PidInv, TypeOK', GroupStep, NoNewHolder
    PROVE  PidInv'
  <1> USE DEF PidInv, AtWorker, AtCall, Killed
  <1>1. ASSUME NEW lf \in Tracked' PROVE Holds(childPids[lf], lf)'
    <2>1. lf \in Tracked /\ childPids'[lf] = childPids[lf]
      BY <1>1 DEF NoNewHolder, Tracked
    <2>2. childPids[lf] \in Pids /\ lf \in Launches
      BY <2>1 DEF Tracked, TypeOK
    <2>3. Holds(childPids[lf], lf)
      BY <2>1 DEF OwnGroups
    <2>4. QED
      BY <2>1, <2>2, <2>3, GroupStepKeeps DEF Holds
  <1>2. ASSUME NEW w \in Workers, AtWorker(w)'
        PROVE  Holds(worker[w].pid, worker[w].launch)'
    <2>1. /\ Holds(worker[w].pid, worker[w].launch)
          /\ worker'[w].pid = worker[w].pid
          /\ worker'[w].launch = worker[w].launch
      BY <1>2 DEF NoNewHolder, OwnGroups
    <2>2. worker[w].pid \in Pids /\ worker[w].launch \in Launches
      BY <1>2 DEF NoNewHolder, TypeOK
    <2>3. QED
      BY <2>1, <2>2, GroupStepKeeps DEF Holds
  <1>3. ASSUME NEW c \in Calls, AtCall(c)'
        PROVE  /\ Holds(call[c].pid, call[c].launch)'
               /\ Killed(c)' => group'[call'[c].pid] = "dead"
    <2>1. /\ Holds(call[c].pid, call[c].launch)
          /\ call'[c].pid = call[c].pid
          /\ call'[c].launch = call[c].launch
          /\ Killed(c)' => group[call[c].pid] = "dead"
      BY <1>3 DEF NoNewHolder, OwnGroups, StopKillsNode
    <2>2. call[c].pid \in Pids /\ call[c].launch \in Launches
      BY <1>3 DEF NoNewHolder, TypeOK
    <2>3. QED
      BY <2>1, <2>2, GroupStepKeeps DEF Holds
  <1>4. QED
    BY <1>1, <1>2, <1>3 DEF OwnGroups, StopKillsNode, Tracked

\* Nobody holds a pid before the first start of the shim.
LEMMA PidInvInit == Init => PidInv
  BY TypeInit DEF Init, PidInv, OwnGroups, StopKillsNode, Tracked, IdleWorker,
     IdleCall

\* When the process ends nobody holds a pid any more.
LEMMA PidInvShimGone == PidInv /\ ShimGone => PidInv'
  <1> SUFFICES ASSUME PidInv, ShimGone PROVE PidInv'
    OBVIOUS
  <1>1. TypeOK'
    BY TypeShimGone DEF PidInv
  <1>2. \A w \in Workers : worker'[w].pc \in {"idle", "lost"}
    BY DEF ShimGone, PidInv, TypeOK, WorkerRecords
  <1>3. \A c \in Calls : call'[c].pc = "idle"
    BY DEF ShimGone, IdleCall
  <1>4. Tracked' = {}
    BY DEF ShimGone, Tracked
  <1>5. QED
    BY <1>1, <1>2, <1>3, <1>4 DEF PidInv, OwnGroups, StopKillsNode

\* The steps by which a pid is acquired (Launch, Record, StopRosNode, RangeNext)
\* or a group is killed (StopKill) are argued one by one; all others acquire
\* none.
LEMMA PidInvStep == PidInv /\ [Next]_vars => PidInv'
  <1> SUFFICES ASSUME PidInv, [Next]_vars PROVE PidInv'
    OBVIOUS
  <1>0. TypeOK /\ TypeOK'
    BY TypeStep DEF PidInv
  <1> USE DEF AtWorker, AtCall, Killed
  <1>1. CASE Boot
    BY <1>0, <1>1, NoNewHolderKeeps DEF Boot, GroupStep, NoNewHolder, TypeOK
  <1>2. CASE Register \/ Signal \/ QuitSignal \/ ReexecFails \/ UNCHANGED vars
    BY <1>0, <1>2, NoNewHolderKeeps
       DEF Register, Signal, QuitSignal, ReexecFails, vars, GroupStep, NoNewHolder
  <1>3. ASSUME NEW w \in Workers, NEW t \in TaskIds, NEW lf \in Launches,
               StartService(w, t, lf)
        PROVE  PidInv'
    BY <1>0, <1>3, NoNewHolderKeeps
       DEF StartService, SpawnWorker, NewTaskIds, serverVars, GroupStep, NoNewHolder, TypeOK
  <1>4. ASSUME NEW w \in Workers, WorkerStep(w) PROVE PidInv'
    <2>1. CASE PrepareFails(w) \/ PrepareDone(w) \/ LaunchFails(w) \/ Report(w)
      <3>0. \E pc \in {"launch", "finished"} : Goto(w, pc)
        BY <2>1 DEF PrepareFails, PrepareDone, LaunchFails, Report
      <3>1. \A v \in Workers : AtWorker(v)' => worker'[v] = worker[v]
        BY <1>0, <3>0 DEF Goto, TypeOK, WorkerRecords
      <3>2. UNCHANGED <<childPids, call, group, owner>>
        BY <2>1 DEF PrepareFails, PrepareDone, LaunchFails, Report
      <3>3. NoNewHolder /\ GroupStep
        BY <1>0, <3>1, <3>2 DEF GroupStep, NoNewHolder, TypeOK
      <3>4. QED
        BY <1>0, <3>3, NoNewHolderKeeps
    <2>2. ASSUME NEW p \in Pids, Launch(w, p) PROVE PidInv'
      <3>1. GroupStep /\ worker[w].launch \in Launches
        BY <1>0, <2>2 DEF Launch, GroupStep, TypeOK
      <3>2. /\ worker'[w].pid = p
            /\ worker'[w].launch = worker[w].launch
            /\ \A v \in Workers \ {w} : worker'[v] = worker[v]
        BY <1>0, <2>2 DEF Launch, TypeOK, WorkerRecords
      <3>3. Holds(worker[w].pid, worker[w].launch)'
        BY <1>0, <2>2, <3>1, <3>2 DEF Launch, Fork, Holds, TypeOK
      <3>4. \A v \in Workers \ {w} :
               AtWorker(v)' => Holds(worker[v].pid, worker[v].launch)'
        BY <1>0, <3>1, <3>2, GroupStepKeeps
           DEF PidInv, OwnGroups, Holds, TypeOK
      <3>5. /\ \A lf \in Tracked' : Holds(childPids[lf], lf)'
            /\ \A c \in Calls :
                  /\ AtCall(c)' => Holds(call[c].pid, call[c].launch)'
                  /\ Killed(c)' => group'[call'[c].pid] = "dead"
        BY <1>0, <2>2, <3>1, GroupStepKeeps
           DEF Launch, PidInv, OwnGroups, StopKillsNode, Holds, TypeOK,
               Tracked
      <3>6. QED
        BY <1>0, <3>3, <3>4, <3>5 DEF PidInv, OwnGroups, StopKillsNode
    <2>3. CASE Record(w)
      <3>1. Holds(worker[w].pid, worker[w].launch)
        BY <2>3 DEF Record, PidInv, OwnGroups
      <3>2. /\ worker'[w].pid = worker[w].pid
            /\ worker'[w].launch = worker[w].launch
            /\ \A v \in Workers \ {w} : worker'[v] = worker[v]
        BY <1>0, <2>3 DEF Record, Goto, TypeOK, WorkerRecords
      <3>3. QED
        BY <1>0, <2>3, <3>1, <3>2
           DEF Record, Goto, PidInv, OwnGroups, StopKillsNode, Holds, Tracked,
               TypeOK
    <2>4. QED
      BY <1>4, <2>1, <2>2, <2>3 DEF WorkerStep
  <1>5. ASSUME NEW c \in Calls, NEW op \in {"stop", "restart"},
               NEW lf \in Launches, StopRosNode(c, op, lf)
        PROVE  PidInv'
    BY <1>0, <1>5 DEF StopRosNode, PidInv, OwnGroups, StopKillsNode, Holds,
       Tracked, IdleCall, TypeOK
  <1>6. ASSUME NEW c \in Calls, NEW op \in {"shutdown", "reexec"},
               RangeBegin(c, op)
        PROVE  PidInv'
    BY <1>0, <1>6, NoNewHolderKeeps
       DEF RangeBegin, serverVars, IdleCall, GroupStep, NoNewHolder, TypeOK
  <1>7. ASSUME NEW c \in Calls, CallStep(c) PROVE PidInv'
    <2>1. CASE StopKill(c)
      <3>1. Holds(call[c].pid, call[c].launch) /\ call[c].pid \in Pids
        BY <1>0, <2>1 DEF StopKill, PidInv, OwnGroups, TypeOK
      <3>2. GroupStep /\ group'[call[c].pid] = "dead"
        BY <1>0, <2>1, <3>1 DEF StopKill, KillIfActive, IsProcessActive, Holds,
           GroupStep, TypeOK
      <3>3. QED
        BY <1>0, <2>1, <3>2, GroupStepKeeps
           DEF StopKill, PidInv, OwnGroups, StopKillsNode, Holds, Tracked, TypeOK
    <2>2. CASE StopDelete(c)
      <3>1. \A d \in Calls :
               \/ call'[d].pc = "idle"
               \/ /\ call'[d].pc = call[d].pc \/ (Killed(d) /\ Killed(d)')
                  /\ call'[d].pid = call[d].pid
                  /\ call'[d].launch = call[d].launch
        BY <1>0, <2>2, StopDeleteRecords DEF StopDelete, TypeOK
      <3>2. NoNewHolder /\ GroupStep
        BY <1>0, <2>2, <3>1 DEF StopDelete, GroupStep, NoNewHolder, TypeOK
      <3>3. QED
        BY <1>0, <3>2, NoNewHolderKeeps
    <2>3. ASSUME NEW w \in Workers, NEW t \in TaskIds, RestartStart(c, w, t)
          PROVE  PidInv'
      BY <1>0, <2>3, NoNewHolderKeeps
         DEF RestartStart, SpawnWorker, NewTaskIds, serverVars, IdleCall, GroupStep,
             NoNewHolder, TypeOK
    <2>4. ASSUME NEW lf \in Launches, RangeNext(c, lf) PROVE PidInv'
      <3>1. /\ call'[c].launch = lf /\ call'[c].pid = childPids[lf]
            /\ call'[c].pc \in {"range", "rangeGrace"}
            /\ \A d \in Calls \ {c} : call'[d] = call[d]
        BY <1>0, <2>4 DEF RangeNext, TypeOK, CallRecords
      <3>2. Holds(childPids[lf], lf) /\ UNCHANGED <<childPids, worker, group, owner>>
        BY <2>4 DEF RangeNext, PidInv, OwnGroups
      <3>3. QED
        BY <1>0, <3>1, <3>2 DEF PidInv, OwnGroups, StopKillsNode, Holds, Tracked
    <2>5. CASE RangeKill(c)
      BY <1>0, <2>5, NoNewHolderKeeps
         DEF RangeKill, serverVars, GroupStep, NoNewHolder, TypeOK, CallRecords
    <2>6. CASE RangeDone(c)
      BY <1>0, <2>6, NoNewHolderKeeps
         DEF RangeDone, IdleCall, GroupStep, NoNewHolder, TypeOK
    <2>7. QED
      BY <1>7, <2>1, <2>2, <2>3, <2>4, <2>5, <2>6 DEF CallStep
  <1>8. CASE Exit \/ Reexec \/ MapFault
    BY <1>8, PidInvShimGone DEF Exit, Reexec, MapFault
  <1>9. CASE Environment
    BY <1>0, <1>9, NoNewHolderKeeps
       DEF Environment, serverVars, GroupStep, NoNewHolder
  <1>10. QED
    BY <1>1, <1>2, <1>3, <1>4, <1>5, <1>6, <1>7, <1>8, <1>9 DEF Next

\* A pid in ChildPids, in a worker or in a handler never names a process that is
\* not the shim's, however long it was kept and whatever came in between.
THEOREM OwnGroupsAlways == Spec => []OwnGroups
  <1>1. PidInv => OwnGroups
    BY DEF PidInv
  <1>2. QED
    BY <1>1, PidInvInit, PidInvStep, PTL DEF Spec

\* Whenever TerminateProcess has returned true the node is dead.
THEOREM StopKillsNodeAlways == Spec => []StopKillsNode
  <1>1. PidInv => StopKillsNode
    BY DEF PidInv
  <1>2. QED
    BY <1>1, PidInvInit, PidInvStep, PTL DEF Spec

\* SIGKILL is sent only to groups that this shim started.
THEOREM KillsOnlyOwnAlways == Spec => KillsOnlyOwn
  <1> DEFINE OnlyOwn == \A p \in Pids :
                           group'[p] = "dead" => group[p] \in {"live", "dead"}
  <1>1. ASSUME PidInv, [Next]_vars PROVE OnlyOwn
    <2>0. TypeOK /\ OwnGroups
      BY <1>1 DEF PidInv
    <2>1. CASE ShimGone
      BY <2>0, <2>1 DEF ShimGone, AdoptedByInit, TypeOK, GroupStates
    <2>2. ASSUME NEW c \in Calls, KillIfActive(call[c].pid),
                 call[c].pc \in {"grace", "rangeGrace"}
          PROVE  OnlyOwn
      BY <2>0, <2>2 DEF KillIfActive, OwnGroups, Holds, TypeOK
    <2>3. ASSUME NEW w \in Workers, NEW p \in Pids, Launch(w, p) PROVE OnlyOwn
      BY <2>0, <2>3 DEF Launch, Fork, TypeOK
    <2>4. CASE Environment
      BY <2>0, <2>4 DEF Environment, NodeExits, ForeignFork, OtherExits, TypeOK
    <2>5. CASE UNCHANGED group
      BY <2>5
    <2>6. \A w \in Workers : WorkerStep(w) =>
             UNCHANGED group \/ \E p \in Pids : Launch(w, p)
      BY DEF WorkerStep, PrepareFails, PrepareDone, LaunchFails, Record, Report
    <2>7. \A c \in Calls : CallStep(c) =>
             \/ UNCHANGED group
             \/ KillIfActive(call[c].pid) /\ call[c].pc \in {"grace", "rangeGrace"}
      <3> TAKE c \in Calls
      <3>1. StopKill(c) \/ RangeKill(c) =>
               KillIfActive(call[c].pid) /\ call[c].pc \in {"grace", "rangeGrace"}
        BY DEF StopKill, RangeKill
      <3>2. StopDelete(c) \/ RangeDone(c) => UNCHANGED group
        BY DEF StopDelete, RangeDone
      <3>3. \A w \in Workers, t \in TaskIds :
               RestartStart(c, w, t) => UNCHANGED group
        BY DEF RestartStart
      <3>4. \A lf \in Launches : RangeNext(c, lf) => UNCHANGED group
        BY DEF RangeNext
      <3>5. QED
        BY <3>1, <3>2, <3>3, <3>4 DEF CallStep
    <2>8. \/ UNCHANGED group \/ Environment \/ ShimGone
          \/ \E w \in Workers : WorkerStep(w)
          \/ \E c \in Calls : CallStep(c)
      BY <1>1 DEF Next, vars, Boot, Register, StartService, StopRosNode,
         RangeBegin, Signal, QuitSignal, ReexecFails, Exit, Reexec, MapFault
    <2>9. QED
      BY <2>1, <2>2, <2>3, <2>4, <2>5, <2>6, <2>7, <2>8
  <1>2. QED
    BY <1>1, PidInvInit, PidInvStep, PTL DEF Spec, KillsOnlyOwn
=============================================================================
