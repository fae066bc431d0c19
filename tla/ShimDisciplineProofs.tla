------------------------ MODULE ShimDisciplineProofs ------------------------
(***************************************************************************)
(* What ShimService promises a controller that restrains itself, for every *)
(* value of the other constants: the service implements TaskBoard, and if  *)
(* ids do not collide a verdict stands; with one operation at a time per   *)
(* launch file no node is lost or doubled and the service implements       *)
(* NodeSupervisor.                                                         *)
(***************************************************************************)
EXTENDS ShimRefinements, ShimServiceProofs,
        FiniteSetTheorems, FunctionTheorems

USE NoneAssumption, NoTaskAssumption, BootsAssumption

-----------------------------------------------------------------------------
(***************************************************************************)
(* Tasks.  A worker that has not reported is the only one to hold its      *)
(* task, and the task is in its first state.                               *)
(***************************************************************************)
Starting == Task(FALSE, "starting")

TasksUndecided ==
    \A w \in Workers : InFlight(w) => tasks[worker[w].task] = Starting

OwnTask ==
    \A v, w \in Workers :
        InFlight(v) /\ InFlight(w) /\ v # w => worker[v].task # worker[w].task

\* Boot empties the maps, so nobody may be left to rely on them.
DownIsEmpty ==
    shim = "down" => /\ pending = {}
                     /\ \A t \in TaskIds : tasks[t] = NoTask
                     /\ \A w \in Workers : ~InFlight(w)
                     /\ \A c \in Calls : ~Busy(c)

TaskInv == TypeOK /\ TasksUndecided /\ OwnTask /\ DownIsEmpty

\* Only ShimGone takes the process down, and while it is down no goroutine moves.
LEMMA DownStep == TypeOK /\ DownIsEmpty /\ [Next]_vars => DownIsEmpty'
  <1> SUFFICES ASSUME TypeOK, DownIsEmpty, [Next]_vars PROVE DownIsEmpty'
    OBVIOUS
  <1>1. CASE ShimGone
    <2>1. \A w \in Workers : worker'[w].pc \in {"idle", "lost"}
      BY <1>1 DEF ShimGone, TypeOK, WorkerRecords
    <2>2. \A c \in Calls : call'[c].pc = "idle"
      BY <1>1 DEF ShimGone, IdleCall
    <2>3. QED
      BY <1>1, <2>1, <2>2 DEF ShimGone, DownIsEmpty, InFlight, Busy
  <1>2. CASE UNCHANGED <<shim, pending, tasks, worker, call>>
    BY <1>2 DEF DownIsEmpty, InFlight, Busy
  <1>3. CASE shim' # "down"
    BY <1>3 DEF DownIsEmpty
  <1>4. ASSUME NEW w \in Workers, WorkerStep(w) PROVE InFlight(w) /\ shim' = shim
    BY <1>4 DEF WorkerStep, PrepareFails, PrepareDone, Launch, LaunchFails,
       Record, Report, InFlight, serverVars
  <1>5. ASSUME NEW c \in Calls, CallStep(c) PROVE Busy(c) /\ shim' = shim
    <2>1. \A w \in Workers, t \in TaskIds :
             RestartStart(c, w, t) => Busy(c) /\ shim' = shim
      BY DEF RestartStart, Busy, serverVars
    <2>2. \A lf \in Launches : RangeNext(c, lf) => Busy(c) /\ shim' = shim
      BY DEF RangeNext, Busy, serverVars
    <2>3. StopKill(c) \/ StopDelete(c) \/ RangeKill(c) \/ RangeDone(c) =>
             Busy(c) /\ shim' = shim
      BY DEF StopKill, StopDelete, RangeKill, RangeDone, Busy, serverVars
    <2>4. QED
      BY <1>5, <2>1, <2>2, <2>3 DEF CallStep
  <1>6. \/ ShimGone
        \/ UNCHANGED <<shim, pending, tasks, worker, call>>
        \/ shim' # "down"
        \/ \E w \in Workers : WorkerStep(w)
        \/ \E c \in Calls : CallStep(c)
        \/ ReexecFails
    BY DEF Next, vars, Boot, Register, StartService, StopRosNode, RangeBegin,
       Signal, QuitSignal, Exit, Reexec, MapFault, Environment, serverVars
  <1>7. ReexecFails => pending # {} /\ shim' = shim
    BY DEF ReexecFails
  <1>8. QED
    BY <1>1, <1>2, <1>3, <1>4, <1>5, <1>6, <1>7 DEF DownIsEmpty

\* No worker takes on a task, and the tasks of those still in flight stay as they
\* are: what most steps have in common.
NoNewTask ==
    \A w \in Workers : InFlight(w)' =>
        /\ InFlight(w)
        /\ worker'[w].task = worker[w].task
        /\ tasks'[worker[w].task] = tasks[worker[w].task]

\* Such a step keeps the invariant.
LEMMA NoNewTaskKeeps ==
    ASSUME TaskInv, [Next]_vars, NoNewTask
    PROVE  TaskInv'
  <1>1. TypeOK' /\ DownIsEmpty'
    BY TypeStep, DownStep DEF TaskInv
  <1>2. TasksUndecided'
    BY DEF TaskInv, TasksUndecided, NoNewTask
  <1>3. OwnTask'
    BY DEF TaskInv, OwnTask, NoNewTask
  <1>4. QED
    BY <1>1, <1>2, <1>3 DEF TaskInv

\* A worker that returns writes to its own task only.
LEMMA ReturnKeeps ==
    ASSUME TaskInv, [Next]_vars, NEW w \in Workers, InFlight(w),
           worker' = [worker EXCEPT ![w].pc = "finished"],
           \A t \in TaskIds : t # worker[w].task => tasks'[t] = tasks[t]
    PROVE  TaskInv'
  <1>1. \A v \in Workers \ {w} : worker'[v] = worker[v]
    OBVIOUS
  <1>2. worker'[w].pc = "finished"
    BY DEF TaskInv, TypeOK, WorkerRecords
  <1>3. \A v \in Workers \ {w} :
           InFlight(v) => worker[v].task \in TaskIds \ {worker[w].task}
    BY DEF TaskInv, OwnTask, TypeOK, InFlight
  <1>4. NoNewTask
    BY <1>1, <1>2, <1>3 DEF NoNewTask, InFlight
  <1>5. QED
    BY <1>4, NoNewTaskKeeps

\* A new worker has a task that nobody else has.
LEMMA SpawnKeeps ==
    ASSUME ~IdsCollide, TaskInv, [Next]_vars,
           NEW w \in Workers, NEW t \in TaskIds, NEW lf \in Launches,
           SpawnWorker(w, t, lf)
    PROVE  TaskInv'
  <1>1. TypeOK' /\ DownIsEmpty'
    BY TypeStep, DownStep DEF TaskInv
  <1>2. /\ worker'[w].pc = "prepare" /\ worker'[w].task = t
        /\ \A v \in Workers \ {w} : worker'[v] = worker[v]
        /\ tasks'[t] = Starting
        /\ \A u \in TaskIds \ {t} : tasks'[u] = tasks[u]
    BY DEF SpawnWorker, NewTaskIds, TaskInv, TypeOK, Starting
  <1>3. NoTask # Starting
    BY DEF NoTask, Starting, Task
  <1>4. \A v \in Workers : InFlight(v) => worker[v].task \in TaskIds \ {t}
    BY <1>3 DEF SpawnWorker, NewTaskIds, TaskInv, TasksUndecided, TypeOK, InFlight
  <1>5. TasksUndecided' /\ OwnTask'
    BY <1>2, <1>4 DEF TaskInv, TasksUndecided, OwnTask, InFlight
  <1>6. QED
    BY <1>1, <1>5 DEF TaskInv

\* There is no task and no worker before the first start of the shim.
LEMMA TaskInvInit == Init => TaskInv
  BY TypeInit DEF Init, TaskInv, TasksUndecided, OwnTask, DownIsEmpty, InFlight,
     Busy, IdleWorker, IdleCall

\* When the process ends no worker is left.
LEMMA TaskInvShimGone ==
    ASSUME TaskInv, [Next]_vars, ShimGone
    PROVE  TaskInv'
  <1>1. \A w \in Workers : worker'[w].pc \in {"idle", "lost"}
    BY DEF ShimGone, TaskInv, TypeOK, WorkerRecords
  <1>2. QED
    BY <1>1, NoNewTaskKeeps DEF NoNewTask, InFlight

\* What a worker does to the tasks when it returns.
LEMMA OwnTaskUpdated ==
    ASSUME TypeOK, NEW w \in Workers, worker[w].pc # "idle",
           NEW d \in BOOLEAN, NEW m \in Messages,
           tasks' = UpdatedTasks(worker[w].task, d, m)
    PROVE  \A t \in TaskIds : t # worker[w].task => tasks'[t] = tasks[t]
  BY DEF UpdatedTasks, TypeOK

\* The steps that start a worker, those in which one returns, and the rest.
LEMMA TaskInvStep ==
    ASSUME ~IdsCollide
    PROVE  TaskInv /\ [Next]_vars => TaskInv'
  <1> SUFFICES ASSUME TaskInv, [Next]_vars PROVE TaskInv'
    OBVIOUS
  <1>0. TypeOK
    BY DEF TaskInv
  <1>1. CASE ShimGone
    BY <1>1, TaskInvShimGone
  <1>2. CASE UNCHANGED <<tasks, worker>>
    BY <1>2, NoNewTaskKeeps DEF NoNewTask, InFlight
  <1>3. ASSUME NEW w \in Workers, NEW t \in TaskIds, NEW lf \in Launches,
               SpawnWorker(w, t, lf)
        PROVE  TaskInv'
    BY <1>3, SpawnKeeps
  <1>4. ASSUME NEW w \in Workers, WorkerStep(w) PROVE TaskInv'
    <2>1. CASE PrepareFails(w) \/ LaunchFails(w) \/ Report(w)
      <3>1. /\ worker[w].pc # "idle" /\ InFlight(w)
            /\ worker' = [worker EXCEPT ![w].pc = "finished"]
        BY <2>1 DEF PrepareFails, LaunchFails, Report, InFlight, Goto
      <3>2. \E d \in BOOLEAN, m \in Messages :
               tasks' = UpdatedTasks(worker[w].task, d, m)
        BY <2>1 DEF PrepareFails, LaunchFails, Report, Messages
      <3>3. \A t \in TaskIds : t # worker[w].task => tasks'[t] = tasks[t]
        BY <1>0, <3>1, <3>2, OwnTaskUpdated
      <3>4. QED
        BY <3>1, <3>3, ReturnKeeps
    <2>2. CASE PrepareDone(w) \/ Record(w) \/ \E p \in Pids : Launch(w, p)
      <3>1. /\ InFlight(w) /\ tasks' = tasks
            /\ \A v \in Workers \ {w} : worker'[v] = worker[v]
            /\ worker'[w].task = worker[w].task
        BY <1>0, <2>2
           DEF PrepareDone, Record, Launch, Goto, InFlight, TypeOK, WorkerRecords
      <3>2. QED
        BY <3>1, NoNewTaskKeeps DEF NoNewTask, InFlight
    <2>3. QED
      BY <1>4, <2>1, <2>2 DEF WorkerStep
  <1>5. CASE Boot
    <2>1. shim = "down" /\ worker' = worker
      BY <1>5 DEF Boot
    <2>2. QED
      BY <2>1, NoNewTaskKeeps DEF NoNewTask, InFlight, TaskInv, DownIsEmpty
  <1>6. ASSUME NEW c \in Calls, CallStep(c)
        PROVE  \/ UNCHANGED <<tasks, worker>>
               \/ \E w \in Workers, t \in TaskIds :
                     RestartStart(c, w, t) /\ call[c].pc = "start"
    BY <1>6 DEF CallStep, StopKill, StopDelete, RangeNext, RangeKill, RangeDone,
       RestartStart
  <1>7. ASSUME NEW c \in Calls, CallStep(c) PROVE TaskInv'
    BY <1>0, <1>2, <1>3, <1>6, <1>7 DEF RestartStart, TypeOK
  <1>8. \/ ShimGone \/ Boot \/ UNCHANGED <<tasks, worker>>
        \/ \E w \in Workers, t \in TaskIds, lf \in Launches :
              SpawnWorker(w, t, lf)
        \/ \E w \in Workers : WorkerStep(w)
        \/ \E c \in Calls : CallStep(c)
    BY DEF Next, vars, Register, StartService, StopRosNode, RangeBegin,
       Signal, QuitSignal, Exit, Reexec, ReexecFails, MapFault, Environment
  <1>9. QED
    BY <1>1, <1>2, <1>3, <1>4, <1>5, <1>7, <1>8

\* What a worker that returns leaves in the map.
Outcomes == {Task(TRUE, "prepare failed"), Task(TRUE, "started"),
             Task(FALSE, "start failed")}

\* The steps that write to the map of tasks, seen from one of its entries.  Only
\* if ids collide may the entry be another task's.
LEMMA TaskWrites ==
    ASSUME TypeOK, ~IdsCollide => TaskInv, [Next]_vars
    PROVE  \/ UNCHANGED tasks
           \/ /\ tasks' = [t \in TaskIds |-> NoTask]
              /\ IdsCollide \/ shim' = "down"
           \/ \E t \in TaskIds : /\ IdsCollide \/ tasks[t] = NoTask
                                 /\ tasks' = [tasks EXCEPT ![t] = Starting]
           \/ \E t \in TaskIds, v \in Outcomes :
                 /\ tasks[t].message # "absent"
                 /\ IdsCollide \/ tasks[t] = Starting
                 /\ tasks' = [tasks EXCEPT ![t] = v]
  <1>2. ASSUME Boot
        PROVE  \/ UNCHANGED tasks
               \/ IdsCollide /\ tasks' = [t \in TaskIds |-> NoTask]
    <2>1. CASE IdsCollide
      BY <1>2, <2>1 DEF Boot
    <2>2. CASE ~IdsCollide
      <3>1. \A t \in TaskIds : tasks[t] = NoTask
        BY <1>2, <2>2 DEF Boot, TaskInv, DownIsEmpty
      <3>2. QED
        BY <1>2, <3>1 DEF Boot, TypeOK
    <2>3. QED
      BY <2>1, <2>2
  <1>3. ASSUME NEW w \in Workers, NEW t \in TaskIds, NEW lf \in Launches,
               SpawnWorker(w, t, lf)
        PROVE  /\ IdsCollide \/ tasks[t] = NoTask
               /\ tasks' = [tasks EXCEPT ![t] = Starting]
    BY <1>3 DEF SpawnWorker, NewTaskIds, Starting
  <1>4. ASSUME NEW w \in Workers, WorkerStep(w), tasks' # tasks
        PROVE  \E t \in TaskIds, v \in Outcomes :
                  /\ tasks[t].message # "absent"
                  /\ IdsCollide \/ tasks[t] = Starting
                  /\ tasks' = [tasks EXCEPT ![t] = v]
    <2> DEFINE u == worker[w].task
    <2>1. InFlight(w) /\ (PrepareFails(w) \/ LaunchFails(w) \/ Report(w))
      BY <1>4 DEF WorkerStep, PrepareFails, PrepareDone, Launch, LaunchFails,
         Record, Report, InFlight
    <2>2. u \in TaskIds
      BY <2>1 DEF TypeOK, InFlight
    <2>3. IdsCollide \/ tasks[u] = Starting
      BY <2>1 DEF TaskInv, TasksUndecided
    <2> HIDE DEF u
    <2>4. \/ tasks' = UpdatedTasks(u, TRUE, "prepare failed")
          \/ tasks' = UpdatedTasks(u, FALSE, "start failed")
          \/ tasks' = UpdatedTasks(u, TRUE, "started")
      BY <2>1 DEF PrepareFails, LaunchFails, Report, u
    <2>5. tasks[u].message # "absent"
      BY <1>4, <2>4 DEF UpdatedTasks
    <2>6. \A d, m : UpdatedTasks(u, d, m) = [tasks EXCEPT ![u] = Task(d, m)]
      BY <2>5 DEF UpdatedTasks
    <2>7. QED
      BY <2>2, <2>3, <2>4, <2>5, <2>6 DEF Outcomes
  <1>5. ASSUME NEW c \in Calls, CallStep(c)
        PROVE  \/ UNCHANGED tasks
               \/ \E w \in Workers, t \in TaskIds :
                     SpawnWorker(w, t, call[c].launch) /\ call[c].pc = "start"
    BY <1>5 DEF CallStep, StopKill, StopDelete, RangeNext, RangeKill, RangeDone,
       RestartStart
  <1>6. \A c \in Calls : call[c].pc = "start" => call[c].launch \in Launches
    BY DEF TypeOK
  <1>7. ShimGone => tasks' = [t \in TaskIds |-> NoTask] /\ shim' = "down"
    BY DEF ShimGone
  <1>8. \/ ShimGone \/ Boot \/ UNCHANGED tasks
        \/ \E w \in Workers, t \in TaskIds, lf \in Launches :
              SpawnWorker(w, t, lf)
        \/ \E w \in Workers : WorkerStep(w)
        \/ \E c \in Calls : CallStep(c)
    BY DEF Next, vars, Register, StartService, StopRosNode, RangeBegin,
       Signal, QuitSignal, Exit, Reexec, ReexecFails, MapFault, Environment
  <1>9. QED
    BY <1>2, <1>3, <1>4, <1>5, <1>6, <1>7, <1>8

\* The values that TaskWrites speaks of, by their fields.
LEMMA TaskFields ==
    /\ NoTask.done = FALSE /\ NoTask.message = "absent"
    /\ \A d, m : Task(d, m).done = d /\ Task(d, m).message = m
  BY DEF NoTask, Task

\* The reply to CheckTaskStatus by the state of the entry, before and after a step.
LEMMA ReplyCases ==
    ASSUME NEW t
    PROVE  /\ tasks[t].message = "absent" /\ ~tasks[t].done =>
                  CheckTaskStatusReply(t) = "task not found"
           /\ tasks[t].message # "absent" /\ tasks[t].done =>
                  CheckTaskStatusReply(t) = tasks[t].message
           /\ tasks[t].message # "absent" /\ ~tasks[t].done =>
                  CheckTaskStatusReply(t) = "waiting"
           /\ tasks'[t].message # "absent" /\ tasks'[t].done =>
                  CheckTaskStatusReply(t)' = tasks'[t].message
           /\ tasks'[t].message # "absent" /\ ~tasks'[t].done =>
                  CheckTaskStatusReply(t)' = "waiting"
           /\ tasks'[t] = tasks[t] =>
                  CheckTaskStatusReply(t)' = CheckTaskStatusReply(t)
  <1> USE DEF CheckTaskStatusReply
  <1>1. tasks[t].message = "absent" /\ ~tasks[t].done =>
           CheckTaskStatusReply(t) = "task not found"
    BY Zenon
  <1>2. tasks[t].message # "absent" /\ tasks[t].done =>
           CheckTaskStatusReply(t) = tasks[t].message
    BY Zenon
  <1>3. tasks[t].message # "absent" /\ ~tasks[t].done =>
           CheckTaskStatusReply(t) = "waiting"
    BY Zenon
  <1>4. tasks'[t].message # "absent" /\ tasks'[t].done =>
           CheckTaskStatusReply(t)' = tasks'[t].message
    BY Zenon
  <1>5. tasks'[t].message # "absent" /\ ~tasks'[t].done =>
           CheckTaskStatusReply(t)' = "waiting"
    BY Zenon
  <1>6. tasks'[t] = tasks[t] =>
           CheckTaskStatusReply(t)' = CheckTaskStatusReply(t)
    BY Zenon
  <1>7. QED
    BY <1>1, <1>2, <1>3, <1>4, <1>5, <1>6

\* The board after a step that changes one entry.
LEMMA BoardUpdated ==
    ASSUME NEW t \in TaskIds, NEW r, CheckTaskStatusReply(t)' = r,
           \A u \in TaskIds \ {t} : tasks'[u] = tasks[u]
    PROVE  Board' = [Board EXCEPT ![t] = r]
  <1>1. \A u \in TaskIds \ {t} :
           CheckTaskStatusReply(u)' = CheckTaskStatusReply(u)
    BY ReplyCases
  <1>2. QED
    BY <1>1 DEF Board

\* A verdict stands as long as the process runs, whatever the controller asks for
\* and however many starts are under way, if ids do not collide.
THEOREM DoneIsFinalAlways ==
    ASSUME ~IdsCollide
    PROVE  Spec => DoneIsFinal
  <1> DEFINE Final == \A t \in TaskIds :
                         tasks[t].done => tasks'[t] = tasks[t] \/ shim' = "down"
  <1>1. ASSUME TaskInv, [Next]_vars PROVE Final
    <2>1. TypeOK
      BY <1>1 DEF TaskInv
    <2>2. ~NoTask.done /\ ~Starting.done
      BY TaskFields DEF Starting
    <2>3. QED
      BY <1>1, <2>1, <2>2, TaskWrites DEF TypeOK, Outcomes
  <1>2. TaskInv /\ [Next]_vars => TaskInv'
    BY TaskInvStep
  <1>3. QED
    BY <1>1, <1>2, TaskInvInit, PTL DEF Spec, DoneIsFinal

\* The service implements TaskBoard: its replies to CheckTaskStatus move as the
\* board does, or not at all; without reuse of ids if they do not collide, and
\* with it if they do.
THEOREM TaskBoardImplemented == Spec => ImplementsTaskBoard
  <1> DEFINE Inv == TypeOK /\ (~IdsCollide => TaskInv)
  <1>1. Init => TB!Init
    BY DEF Init, TB!Init, TB!Unknown, Board, CheckTaskStatusReply, NoTask, Task
  <1>2. ASSUME Inv, [Next]_vars PROVE [TB!Next]_Board
    <2>1. TypeOK
      BY <1>2
    <2>2. CASE UNCHANGED tasks
      BY <2>2 DEF Board, CheckTaskStatusReply
    <2>3. CASE tasks' = [t \in TaskIds |-> NoTask]
      <3>1. Board' = TB!Unknown
        BY <2>3 DEF Board, TB!Unknown, CheckTaskStatusReply, NoTask, Task
      <3>2. QED
        BY <3>1 DEF TB!Next, TB!Forget
    <2>4. ASSUME NEW t \in TaskIds, IdsCollide \/ tasks[t] = NoTask,
                 tasks' = [tasks EXCEPT ![t] = Starting]
          PROVE  TB!Next
      <3>1. IdsCollide \/ Board[t] = "task not found"
        BY <2>4, TaskFields, ReplyCases DEF Board
      <3>2. tasks'[t] = Starting /\ \A u \in TaskIds \ {t} : tasks'[u] = tasks[u]
        BY <2>1, <2>4 DEF TypeOK
      <3>3. Starting.message # "absent" /\ ~Starting.done
        BY DEF Starting, Task
      <3>4. CheckTaskStatusReply(t)' = "waiting"
        BY <3>2, <3>3, ReplyCases
      <3>6. Board' = [Board EXCEPT ![t] = "waiting"]
        BY <3>2, <3>4, BoardUpdated
      <3>7. TB!Accept(t)
        BY <3>1, <3>6 DEF TB!Accept
      <3>8. QED
        BY <3>7 DEF TB!Next
    <2>5. ASSUME NEW t \in TaskIds, NEW d \in BOOLEAN, NEW m,
                 tasks[t].message # "absent",
                 IdsCollide \/ tasks[t] = Starting,
                 tasks' = [tasks EXCEPT ![t] = Task(d, m)],
                 m # "absent", d => m \in {"prepare failed", "started"}
          PROVE  [TB!Next]_Board
      <3>0. Starting.message # "absent" /\ ~Starting.done
        BY DEF Starting, Task
      <3>1. IdsCollide \/ Board[t] = "waiting"
        BY <2>5, <3>0, ReplyCases DEF Board
      <3>2. /\ tasks'[t].done = d /\ tasks'[t].message = m
            /\ \A u \in TaskIds \ {t} : tasks'[u] = tasks[u]
        <4>1. tasks \in [TaskIds -> TaskRecords]
          BY <2>1 DEF TypeOK
        <4>2. tasks'[t] = Task(d, m) /\ \A u \in TaskIds \ {t} : tasks'[u] = tasks[u]
          BY <2>5, <4>1
        <4>3. QED
          BY <4>2, TaskFields
      <3>3. Board[t] # "task not found"
        <4>1. tasks[t] \in TaskRecords
          BY <2>1 DEF TypeOK
        <4>2. tasks[t].message \in Messages
          BY <4>1 DEF TaskRecords
        <4>3. Board[t] = CheckTaskStatusReply(t)
          BY DEF Board
        <4>4. CheckTaskStatusReply(t) \in {tasks[t].message, "waiting"}
          BY <2>5, ReplyCases
        <4>5. QED
          BY <4>2, <4>3, <4>4 DEF Messages
      <3>4. CASE d
        <4>1. CheckTaskStatusReply(t)' = m
          BY <2>5, <3>2, <3>4, ReplyCases
        <4>2. Board' = [Board EXCEPT ![t] = m]
          BY <3>2, <4>1, BoardUpdated
        <4>3. TB!Decide(t, m)
          BY <3>1, <3>3, <4>2 DEF TB!Decide
        <4>4. QED
          BY <2>5, <3>4, <4>3 DEF TB!Next
      <3>5. CASE ~d
        <4>1. CheckTaskStatusReply(t)' = "waiting"
          BY <2>5, <3>2, <3>5, ReplyCases
        <4>2. Board' = [Board EXCEPT ![t] = "waiting"]
          BY <3>2, <4>1, BoardUpdated
        <4>3. CASE IdsCollide
          <5>1. TB!Accept(t)
            BY <4>2, <4>3 DEF TB!Accept
          <5>2. QED
            BY <5>1 DEF TB!Next
        <4>4. CASE Board[t] = "waiting"
          BY <4>2, <4>4 DEF Board
        <4>5. QED
          BY <3>1, <4>3, <4>4
      <3>6. QED
        BY <3>4, <3>5
    <2>6. QED
      BY <1>2, <2>1, <2>2, <2>3, <2>4, <2>5, TaskWrites DEF Outcomes
  <1>3. Inv /\ [Next]_vars => Inv'
    BY TypeStep, TaskInvStep
  <1>4. Init => Inv
    BY TypeInit, TaskInvInit
  <1>5. QED
    BY <1>1, <1>2, <1>3, <1>4, PTL DEF Spec, ImplementsTaskBoard, TB!Spec

-----------------------------------------------------------------------------
(***************************************************************************)
(* Launch files.  At most one worker or stopping handler is concerned with *)
(* a launch file, and it knows what ChildPids says of it.                  *)
(***************************************************************************)
Stopping(c) == call[c].pc \in {"grace", "delete", "start"}

OneStart ==
    \A v, w \in Workers :
        InFlight(v) /\ InFlight(w) /\ v # w =>
            worker[v].launch # worker[w].launch

NoStartWhileStopping ==
    \A w \in Workers, c \in Calls :
        InFlight(w) /\ Stopping(c) => worker[w].launch # call[c].launch

OneStop ==
    \A c, d \in Calls :
        Stopping(c) /\ Stopping(d) /\ c # d => call[c].launch # call[d].launch

StartKnowsEntry ==
    \A w \in Workers : InFlight(w) =>
        childPids[worker[w].launch] =
            IF worker[w].pc = "report" THEN worker[w].pid ELSE None

StopKnowsEntry ==
    \A c \in Calls : Stopping(c) =>
        childPids[call[c].launch] =
            IF call[c].pc = "start" THEN None ELSE call[c].pid

DownIsDead == shim = "down" => \A p \in Pids : group[p] # "live"

LaunchInv ==
    /\ OneStart
    /\ NoStartWhileStopping
    /\ OneStop
    /\ StartKnowsEntry
    /\ StopKnowsEntry
    /\ DownIsDead
    /\ LiveNodesAreKnown

DisciplineInv == PidInv /\ TaskInv /\ LaunchInv

\* A controller that waits asks when there is nothing under way.
LEMMA PermittedIsQuiet ==
    ASSUME Discipline # "free", NEW lf \in Launches, Permitted(lf)
    PROVE  Quiet(lf)
  BY DisciplineAssumption DEF Permitted, AllQuiet, Quiet

\* What it sees as nothing under way is nothing under way: a worker in flight has
\* a task that CheckTaskStatus does not report as done.
LEMMA QuietMeans ==
    ASSUME TaskInv, NEW lf \in Launches, Quiet(lf)
    PROVE  /\ \A w \in Workers : InFlight(w) => worker[w].launch # lf
           /\ \A c \in Calls : Busy(c) => call[c].launch # lf
  <1>1. ASSUME NEW w \in Workers, InFlight(w), worker[w].launch = lf
        PROVE  FALSE
    <2>1. tasks[worker[w].task] = Starting
      BY <1>1 DEF TaskInv, TasksUndecided
    <2>2. ~Starting.done
      BY DEF Starting, Task
    <2>3. worker[w].pc \notin {"idle", "lost"}
      BY <1>1 DEF InFlight
    <2>4. Polling(lf)
      BY <1>1, <2>1, <2>2, <2>3 DEF Polling
    <2>5. QED
      BY <2>4 DEF Quiet
  <1>2. QED
    BY <1>1 DEF Quiet

\* Nobody gets concerned with a launch file, ChildPids stays, and no node appears:
\* what most steps have in common.
NoNewConcern ==
    /\ \A w \in Workers : InFlight(w)' =>
          /\ InFlight(w)
          /\ worker'[w].launch = worker[w].launch
          /\ worker'[w].pid = worker[w].pid
          /\ worker'[w].pc = "report" <=> worker[w].pc = "report"
    /\ \A w \in Workers : worker[w].pc = "record" =>
          worker'[w].pc = "record" /\ worker'[w].pid = worker[w].pid
    /\ \A c \in Calls : Stopping(c)' =>
          /\ Stopping(c)
          /\ call'[c].launch = call[c].launch
          /\ call'[c].pid = call[c].pid
          /\ call'[c].pc = "start" <=> call[c].pc = "start"
    /\ \A p \in Pids :
          group'[p] = "live" => group[p] = "live" /\ owner'[p] = owner[p]
    /\ shim' = "down" => shim = "down"
    /\ UNCHANGED childPids

\* Such a step keeps the invariant.
LEMMA NoNewConcernKeeps ==
    ASSUME LaunchInv, NoNewConcern
    PROVE  LaunchInv'
  <1>1. OneStart' /\ StartKnowsEntry'
    BY DEF LaunchInv, OneStart, StartKnowsEntry, NoNewConcern
  <1>2. OneStop' /\ StopKnowsEntry'
    BY DEF LaunchInv, OneStop, StopKnowsEntry, NoNewConcern
  <1>3. NoStartWhileStopping'
    BY DEF LaunchInv, NoStartWhileStopping, NoNewConcern
  <1>4. DownIsDead'
    BY DEF LaunchInv, DownIsDead, NoNewConcern
  <1>5. LiveNodesAreKnown'
    BY DEF LaunchInv, LiveNodesAreKnown, NoNewConcern
  <1>6. QED
    BY <1>1, <1>2, <1>3, <1>4, <1>5 DEF LaunchInv

\* A new worker for a launch file with which nobody is concerned.
LEMMA SpawnKeepsLaunch ==
    ASSUME LaunchInv, TypeOK,
           NEW w \in Workers, NEW t \in TaskIds, NEW lf \in Launches,
           SpawnWorker(w, t, lf),
           \A v \in Workers : InFlight(v) => worker[v].launch # lf,
           \A c \in Calls : Stopping(c)' =>
               Stopping(c) /\ call'[c] = call[c] /\ call[c].launch # lf,
           childPids[lf] = None,
           UNCHANGED <<shim, childPids, group, owner>>
    PROVE  LaunchInv'
  <1>1. /\ worker[w].pc = "idle"
        /\ worker'[w].pc = "prepare" /\ worker'[w].launch = lf
        /\ \A v \in Workers \ {w} : worker'[v] = worker[v]
    BY DEF SpawnWorker, NewTaskIds, TypeOK
  <1>2. \A v \in Workers : InFlight(v)' =>
           v = w \/ (InFlight(v) /\ worker'[v] = worker[v])
    BY <1>1 DEF InFlight
  <1>3. OneStart' /\ StartKnowsEntry'
    BY <1>1, <1>2 DEF LaunchInv, OneStart, StartKnowsEntry
  <1>4. OneStop' /\ StopKnowsEntry'
    BY DEF LaunchInv, OneStop, StopKnowsEntry
  <1>5. NoStartWhileStopping'
    BY <1>1, <1>2 DEF LaunchInv, NoStartWhileStopping
  <1>6. DownIsDead'
    BY DEF LaunchInv, DownIsDead
  <1>7. LiveNodesAreKnown'
    BY <1>1 DEF LaunchInv, LiveNodesAreKnown
  <1>8. QED
    BY <1>3, <1>4, <1>5, <1>6, <1>7 DEF LaunchInv

\* No goroutine is concerned with a launch file any more, and no node runs.
LEMMA NobodyLeft ==
    ASSUME \A w \in Workers : ~InFlight(w)',
           \A c \in Calls : ~Stopping(c)',
           \A p \in Pids : group'[p] # "live"
    PROVE  LaunchInv'
  BY DEF LaunchInv, OneStart, NoStartWhileStopping, OneStop, StartKnowsEntry,
     StopKnowsEntry, DownIsDead, LiveNodesAreKnown

\* Before the first start nobody is concerned with anything.
LEMMA LaunchInvInit == Init => LaunchInv
  BY DEF Init, GroupsInit, LaunchInv, OneStart, NoStartWhileStopping, OneStop,
     StartKnowsEntry, StopKnowsEntry, DownIsDead, LiveNodesAreKnown, InFlight,
     Stopping, IdleWorker, IdleCall

\* The four kinds of step of a worker: one that goes on or returns, the one that
\* starts the node, and the one that writes it down.
LEMMA LaunchInvWorker ==
    ASSUME DisciplineInv, NEW w \in Workers, WorkerStep(w)
    PROVE  LaunchInv'
  <1>0. TypeOK /\ OwnGroups /\ LaunchInv
    BY DEF DisciplineInv, PidInv
  <1>1. CASE PrepareFails(w) \/ PrepareDone(w) \/ LaunchFails(w) \/ Report(w)
    <2>1. /\ \E pc \in {"launch", "finished"} : Goto(w, pc)
          /\ InFlight(w) /\ worker[w].pc # "record"
          /\ worker[w].pc = "report" => Goto(w, "finished")
          /\ UNCHANGED <<shim, childPids, call, group, owner>>
      BY <1>1 DEF PrepareFails, PrepareDone, LaunchFails, Report, serverVars,
         InFlight
    <2>2. /\ \A v \in Workers \ {w} : worker'[v] = worker[v]
          /\ worker'[w].launch = worker[w].launch
          /\ worker'[w].pid = worker[w].pid
          /\ worker'[w].pc \in {"launch", "finished"}
          /\ worker[w].pc = "report" => worker'[w].pc = "finished"
      BY <1>0, <2>1 DEF Goto, TypeOK, WorkerRecords
    <2>3. NoNewConcern
      BY <2>1, <2>2 DEF NoNewConcern, InFlight, Stopping
    <2>4. QED
      BY <1>0, <2>3, NoNewConcernKeeps
  <1>2. ASSUME NEW p \in Pids, Launch(w, p) PROVE LaunchInv'
    <2>1. /\ worker[w].pc = "launch"
          /\ worker'[w].pc = "record" /\ worker'[w].pid = p
          /\ worker'[w].launch = worker[w].launch
          /\ \A v \in Workers \ {w} : worker'[v] = worker[v]
          /\ UNCHANGED <<shim, childPids, call>>
          /\ InFlight(w)
      BY <1>0, <1>2 DEF Launch, TypeOK, WorkerRecords, serverVars, InFlight
    <2>2. /\ \A q \in Pids \ {p} : group'[q] = group[q] /\ owner'[q] = owner[q]
      BY <1>0, <1>2 DEF Launch, Fork, TypeOK
    <2>3. \A v \in Workers : InFlight(v)' =>
             InFlight(v) /\ worker'[v].launch = worker[v].launch
      BY <2>1 DEF InFlight
    <2>4. OneStart' /\ StartKnowsEntry'
      BY <1>0, <2>1, <2>3 DEF LaunchInv, OneStart, StartKnowsEntry
    <2>5. OneStop' /\ StopKnowsEntry'
      BY <1>0, <2>1 DEF LaunchInv, OneStop, StopKnowsEntry, Stopping
    <2>6. NoStartWhileStopping'
      BY <1>0, <2>1, <2>3 DEF LaunchInv, NoStartWhileStopping, Stopping
    <2>7. DownIsDead'
      BY <1>0, <2>1 DEF DisciplineInv, TaskInv, DownIsEmpty, DownIsDead
    <2>8. LiveNodesAreKnown'
      BY <1>0, <2>1, <2>2 DEF LaunchInv, LiveNodesAreKnown
    <2>9. QED
      BY <2>4, <2>5, <2>6, <2>7, <2>8 DEF LaunchInv
  <1>3. CASE Record(w)
    <2> DEFINE lf == worker[w].launch   q == worker[w].pid
    <2>1. /\ worker[w].pc = "record" /\ worker'[w].pc = "report"
          /\ worker'[w].pid = q /\ worker'[w].launch = lf
          /\ \A v \in Workers \ {w} : worker'[v] = worker[v]
          /\ UNCHANGED <<shim, call, group, owner>>
          /\ lf \in Launches /\ q \in Pids
          /\ InFlight(w)
      BY <1>0, <1>3 DEF Record, Goto, TypeOK, WorkerRecords, serverVars, InFlight
    <2>2. /\ childPids'[lf] = q
          /\ \A k \in Launches \ {lf} : childPids'[k] = childPids[k]
      BY <1>0, <1>3, <2>1 DEF Record, TypeOK
    <2>3. \A v \in Workers : InFlight(v)' =>
             /\ InFlight(v) /\ worker'[v].launch = worker[v].launch
             /\ worker[v].launch \in Launches
      BY <1>0, <2>1 DEF InFlight, TypeOK
    <2>4. OneStart'
      BY <1>0, <2>1, <2>3 DEF LaunchInv, OneStart
    <2>5. StartKnowsEntry'
      BY <1>0, <2>1, <2>2, <2>3 DEF LaunchInv, StartKnowsEntry, OneStart
    <2>6. OneStop'
      BY <1>0, <2>1 DEF LaunchInv, OneStop, Stopping
    <2>7. \A c \in Calls : Stopping(c) => call[c].launch \in Launches \ {lf}
      BY <1>0, <2>1 DEF LaunchInv, NoStartWhileStopping, Stopping, TypeOK
    <2>8. StopKnowsEntry'
      BY <1>0, <2>1, <2>2, <2>7 DEF LaunchInv, StopKnowsEntry, Stopping
    <2>9. NoStartWhileStopping'
      BY <1>0, <2>1, <2>3 DEF LaunchInv, NoStartWhileStopping, Stopping
    <2>10. DownIsDead'
      BY <1>0, <2>1 DEF LaunchInv, DownIsDead
    <2>11. childPids[lf] = None /\ owner[q] = lf
      BY <1>0, <2>1 DEF LaunchInv, StartKnowsEntry, OwnGroups, Holds
    <2>12. LiveNodesAreKnown'
      <3> SUFFICES ASSUME NEW p \in Pids, group[p] = "live"
                   PROVE  \/ childPids'[owner[p]] = p
                          \/ \E v \in Workers : /\ worker'[v].pc = "record"
                                                /\ worker'[v].pid = p
        BY <2>1 DEF LiveNodesAreKnown
      <3>1. CASE childPids[owner[p]] = p /\ owner[p] \in Launches
        BY <2>2, <2>11, <3>1
      <3>2. CASE childPids[owner[p]] = p /\ owner[p] \notin Launches
        BY <1>0, <1>3, <3>2 DEF Record, TypeOK
      <3>3. ASSUME NEW v \in Workers, worker[v].pc = "record", worker[v].pid = p
            PROVE  \/ childPids'[owner[p]] = p
                   \/ \E u \in Workers : /\ worker'[u].pc = "record"
                                         /\ worker'[u].pid = p
        <4>1. CASE v = w
          BY <2>2, <2>11, <3>3, <4>1
        <4>2. CASE v # w
          BY <2>1, <3>3, <4>2
        <4>3. QED
          BY <4>1, <4>2
      <3>4. QED
        BY <1>0, <3>1, <3>2, <3>3 DEF LaunchInv, LiveNodesAreKnown
    <2>13. QED
      BY <2>4, <2>5, <2>6, <2>8, <2>9, <2>10, <2>12 DEF LaunchInv
  <1>4. QED
    BY <1>1, <1>2, <1>3 DEF WorkerStep

\* A stop or restart of a launch file with which nobody is concerned.
LEMMA LaunchInvStop ==
    ASSUME Discipline # "free", DisciplineInv,
           NEW c \in Calls, NEW op \in {"stop", "restart"}, NEW lf \in Launches,
           StopRosNode(c, op, lf)
    PROVE  LaunchInv'
  <1>0. TypeOK /\ TaskInv /\ LaunchInv
    BY DEF DisciplineInv, PidInv
  <1>1. /\ \A w \in Workers : InFlight(w) => worker[w].launch # lf
        /\ \A d \in Calls : Busy(d) => call[d].launch # lf
    BY <1>0, PermittedIsQuiet, QuietMeans DEF StopRosNode
  <1>2. /\ call'[c].pc = "grace" /\ call'[c].launch = lf
        /\ call'[c].pid = childPids[lf]
        /\ \A d \in Calls \ {c} : call'[d] = call[d]
        /\ UNCHANGED <<shim, childPids, worker, group, owner>>
    BY <1>0 DEF StopRosNode, IdleCall, TypeOK, serverVars
  <1>3. \A d \in Calls : Stopping(d) => call[d].launch # lf
    BY <1>1 DEF Stopping, Busy
  <1>4. OneStart' /\ StartKnowsEntry'
    BY <1>0, <1>2 DEF LaunchInv, OneStart, StartKnowsEntry, InFlight
  <1>5. OneStop' /\ StopKnowsEntry'
    BY <1>0, <1>2, <1>3 DEF LaunchInv, OneStop, StopKnowsEntry, Stopping
  <1>6. NoStartWhileStopping'
    BY <1>0, <1>1, <1>2
       DEF LaunchInv, NoStartWhileStopping, Stopping, InFlight
  <1>7. DownIsDead' /\ LiveNodesAreKnown'
    BY <1>0, <1>2 DEF LaunchInv, DownIsDead, LiveNodesAreKnown
  <1>8. QED
    BY <1>4, <1>5, <1>6, <1>7 DEF LaunchInv

\* The steps of a handler: forgetting an entry, starting again, and the rest.
LEMMA LaunchInvCall ==
    ASSUME DisciplineInv, NEW c \in Calls, CallStep(c)
    PROVE  LaunchInv'
  <1>0. TypeOK /\ TaskInv /\ LaunchInv /\ StopKillsNode
    BY DEF DisciplineInv, PidInv
  <1>1. CASE StopKill(c) \/ RangeKill(c)
    <2>1. /\ KillIfActive(call[c].pid)
          /\ UNCHANGED <<shim, childPids, worker>>
          /\ \A d \in Calls \ {c} : call'[d] = call[d]
          /\ call'[c].launch = call[c].launch /\ call'[c].pid = call[c].pid
          /\ \/ call[c].pc = "grace" /\ call'[c].pc = "delete"
             \/ call'[c].pc = "range"
      BY <1>0, <1>1 DEF StopKill, RangeKill, TypeOK, CallRecords, serverVars
    <2>2. \A p \in Pids :
             group'[p] = "live" => group[p] = "live" /\ owner'[p] = owner[p]
      BY <1>0, <2>1 DEF KillIfActive, TypeOK
    <2>3. NoNewConcern
      BY <2>1, <2>2 DEF NoNewConcern, InFlight, Stopping
    <2>4. QED
      BY <1>0, <2>3, NoNewConcernKeeps
  <1>2. CASE RangeDone(c) \/ \E k \in Launches : RangeNext(c, k)
    <2>1. /\ UNCHANGED <<shim, childPids, worker, group, owner>>
          /\ \A d \in Calls \ {c} : call'[d] = call[d]
          /\ call'[c].pc \in {"range", "rangeGrace", "idle"}
      <3>1. CASE RangeDone(c)
        BY <1>0, <3>1 DEF RangeDone, TypeOK, IdleCall
      <3>2. ASSUME NEW k \in Launches, RangeNext(c, k)
            PROVE  /\ UNCHANGED <<shim, childPids, worker, group, owner>>
                   /\ \A d \in Calls \ {c} : call'[d] = call[d]
                   /\ call'[c].pc \in {"range", "rangeGrace", "idle"}
        BY <1>0, <3>2 DEF RangeNext, TypeOK, CallRecords, serverVars
      <3>3. QED
        BY <1>2, <3>1, <3>2
    <2>2. NoNewConcern
      BY <2>1 DEF NoNewConcern, InFlight, Stopping
    <2>3. QED
      BY <1>0, <2>2, NoNewConcernKeeps
  <1>3. CASE StopDelete(c)
    <2> DEFINE lf == call[c].launch
    <2>1. /\ call[c].pc = "delete" /\ Stopping(c)
          /\ lf \in Launches
          /\ UNCHANGED <<shim, worker, group, owner>>
          /\ childPids[lf] = call[c].pid
          /\ group[call[c].pid] = "dead"
      BY <1>0, <1>3 DEF StopDelete, Stopping, LaunchInv, StopKnowsEntry,
         StopKillsNode, TypeOK, serverVars
    <2>2. /\ childPids'[lf] = None
          /\ \A k \in Launches \ {lf} : childPids'[k] = childPids[k]
      BY <1>0, <1>3, <2>1 DEF StopDelete, TypeOK
    <2>3. /\ call'[c].pc \in {"idle", "start"}
          /\ call'[c].pc = "start" => call'[c].launch = lf
          /\ \A d \in Calls \ {c} : /\ call'[d].pc = call[d].pc
                                   /\ call'[d].launch = call[d].launch
                                   /\ call'[d].pid = call[d].pid
      BY <1>0, <1>3, <2>1, StopDeleteRecords DEF StopDelete, TypeOK
    <2>4. \A d \in Calls : Stopping(d)' =>
             /\ Stopping(d) /\ call'[d].launch = call[d].launch
             /\ d # c => call[d].launch \in Launches \ {lf}
      BY <1>0, <2>1, <2>3 DEF Stopping, LaunchInv, OneStop, TypeOK
    <2>5. \A w \in Workers : InFlight(w) => worker[w].launch \in Launches \ {lf}
      BY <1>0, <2>1 DEF LaunchInv, NoStartWhileStopping, InFlight, TypeOK
    <2>6. OneStart' /\ StartKnowsEntry'
      BY <1>0, <2>1, <2>2, <2>5 DEF LaunchInv, OneStart, StartKnowsEntry, InFlight
    <2>7. OneStop'
      BY <1>0, <2>4 DEF LaunchInv, OneStop
    <2>8. StopKnowsEntry'
      <3> SUFFICES ASSUME NEW d \in Calls, Stopping(d)'
                   PROVE  childPids'[call'[d].launch] =
                             IF call'[d].pc = "start" THEN None ELSE call'[d].pid
        BY DEF StopKnowsEntry
      <3>1. CASE d = c
        BY <2>2, <2>3, <3>1 DEF Stopping
      <3>2. CASE d # c
        BY <1>0, <2>2, <2>3, <2>4, <3>2 DEF LaunchInv, StopKnowsEntry
      <3>3. QED
        BY <3>1, <3>2
    <2>9. NoStartWhileStopping'
      BY <1>0, <2>1, <2>4 DEF LaunchInv, NoStartWhileStopping, InFlight
    <2>10. DownIsDead'
      BY <1>0, <2>1 DEF LaunchInv, DownIsDead
    <2>11. LiveNodesAreKnown'
      <3> SUFFICES ASSUME NEW p \in Pids, group[p] = "live",
                          childPids[owner[p]] = p
                   PROVE  childPids'[owner[p]] = p
        BY <1>0, <2>1 DEF LaunchInv, LiveNodesAreKnown
      <3>1. owner[p] # lf
        BY <2>1
      <3>2. CASE owner[p] \in Launches
        BY <2>2, <3>1, <3>2
      <3>3. CASE owner[p] \notin Launches
        BY <1>0, <1>3, <3>3 DEF StopDelete, TypeOK
      <3>4. QED
        BY <3>2, <3>3
    <2>12. QED
      BY <2>6, <2>7, <2>8, <2>9, <2>10, <2>11 DEF LaunchInv
  <1>4. ASSUME NEW w \in Workers, NEW t \in TaskIds, RestartStart(c, w, t)
        PROVE  LaunchInv'
    <2> DEFINE lf == call[c].launch
    <2>1. /\ call[c].pc = "start" /\ Stopping(c) /\ lf \in Launches
          /\ SpawnWorker(w, t, lf)
          /\ UNCHANGED <<shim, childPids, group, owner>>
      BY <1>0, <1>4 DEF RestartStart, Stopping, TypeOK, serverVars
    <2>2. /\ \A d \in Calls \ {c} : call'[d] = call[d]
          /\ call'[c].pc = "idle"
      BY <1>0, <1>4 DEF RestartStart, IdleCall, TypeOK
    <2>3. childPids[lf] = None
      BY <1>0, <2>1 DEF LaunchInv, StopKnowsEntry
    <2>4. \A v \in Workers : InFlight(v) => worker[v].launch # lf
      BY <1>0, <2>1 DEF LaunchInv, NoStartWhileStopping
    <2>5. \A d \in Calls : Stopping(d)' =>
             Stopping(d) /\ call'[d] = call[d] /\ call[d].launch # lf
      BY <1>0, <2>1, <2>2 DEF LaunchInv, OneStop, Stopping
    <2> HIDE DEF lf
    <2>6. QED
      BY <1>0, <2>1, <2>3, <2>4, <2>5, SpawnKeepsLaunch
  <1>5. QED
    BY <1>1, <1>2, <1>3, <1>4 DEF CallStep

\* All steps together.
LEMMA DisciplineInvStep ==
    ASSUME ~IdsCollide, Discipline # "free"
    PROVE  DisciplineInv /\ [Next]_vars => DisciplineInv'
  <1> SUFFICES ASSUME DisciplineInv, [Next]_vars PROVE DisciplineInv'
    OBVIOUS
  <1>0. PidInv' /\ TaskInv'
    BY PidInvStep, TaskInvStep DEF DisciplineInv
  <1>1. TypeOK /\ TaskInv /\ LaunchInv
    BY DEF DisciplineInv, PidInv
  <1> SUFFICES LaunchInv'
    BY <1>0 DEF DisciplineInv
  <1>2. ASSUME NEW w \in Workers, NEW t \in TaskIds, NEW lf \in Launches,
               StartService(w, t, lf)
        PROVE  LaunchInv'
    <2>1. /\ \A v \in Workers : InFlight(v) => worker[v].launch # lf
          /\ \A d \in Calls : Busy(d) => call[d].launch # lf
      BY <1>1, <1>2, PermittedIsQuiet, QuietMeans DEF StartService
    <2>2. /\ SpawnWorker(w, t, lf) /\ childPids[lf] = None
          /\ UNCHANGED <<shim, childPids, call, group, owner>>
      BY <1>2 DEF StartService, serverVars
    <2>3. \A d \in Calls : Stopping(d)' =>
             Stopping(d) /\ call'[d] = call[d] /\ call[d].launch # lf
      BY <2>1, <2>2 DEF Stopping, Busy
    <2>4. QED
      BY <1>1, <2>1, <2>2, <2>3, SpawnKeepsLaunch
  <1>3. CASE ShimGone
    <2>1. \A w \in Workers : ~InFlight(w)'
      BY <1>1, <1>3 DEF ShimGone, InFlight, TypeOK, WorkerRecords
    <2>2. \A d \in Calls : ~Stopping(d)'
      BY <1>3 DEF ShimGone, Stopping, IdleCall
    <2>3. \A p \in Pids : group'[p] # "live"
      BY <1>1, <1>3 DEF ShimGone, AdoptedByInit, TypeOK, GroupStates
    <2>4. QED
      BY <2>1, <2>2, <2>3, NobodyLeft
  <1>4. CASE Boot
    <2>1. /\ \A w \in Workers : ~InFlight(w)'
          /\ \A d \in Calls : ~Stopping(d)'
          /\ \A p \in Pids : group'[p] # "live"
      BY <1>1, <1>4 DEF Boot, TaskInv, DownIsEmpty, LaunchInv, DownIsDead,
         InFlight, Stopping, Busy
    <2>2. QED
      BY <2>1, NobodyLeft
  <1>5. ASSUME NEW d \in Calls, NEW op \in {"shutdown", "reexec"},
               RangeBegin(d, op)
        PROVE  LaunchInv'
    <2>1. /\ UNCHANGED <<shim, childPids, worker, group, owner>>
          /\ \A e \in Calls \ {d} : call'[e] = call[e]
          /\ call'[d].pc = "range"
      BY <1>1, <1>5 DEF RangeBegin, IdleCall, TypeOK, serverVars
    <2>2. NoNewConcern
      BY <2>1 DEF NoNewConcern, InFlight, Stopping
    <2>3. QED
      BY <1>1, <2>2, NoNewConcernKeeps
  <1>6. CASE Environment
    <2>1. UNCHANGED <<shim, childPids, worker, call>>
      BY <1>6 DEF Environment, serverVars
    <2>2. \A p \in Pids :
             group'[p] = "live" => group[p] = "live" /\ owner'[p] = owner[p]
      BY <1>1, <1>6 DEF Environment, NodeExits, ForeignFork, OtherExits, TypeOK
    <2>3. NoNewConcern
      BY <2>1, <2>2 DEF NoNewConcern, InFlight, Stopping
    <2>4. QED
      BY <1>1, <2>3, NoNewConcernKeeps
  <1>7. CASE Register \/ Signal \/ QuitSignal \/ ReexecFails \/ UNCHANGED vars
    <2>1. /\ UNCHANGED <<childPids, worker, call, group, owner>>
          /\ shim' = "down" => shim = "down"
      BY <1>7 DEF Register, Signal, QuitSignal, ReexecFails, vars
    <2>2. NoNewConcern
      BY <2>1 DEF NoNewConcern, InFlight, Stopping
    <2>3. QED
      BY <1>1, <2>2, NoNewConcernKeeps
  <1>8. QED
    BY <1>2, <1>3, <1>4, <1>5, <1>6, <1>7, LaunchInvWorker, LaunchInvStop,
       LaunchInvCall DEF Next, Exit, Reexec, MapFault

\* Nothing is under way before the first start.
LEMMA DisciplineInvInit == Init => DisciplineInv
  BY PidInvInit, TaskInvInit, LaunchInvInit DEF DisciplineInv

-----------------------------------------------------------------------------
(***************************************************************************)
(* What follows from the invariant.                                        *)
(***************************************************************************)
\* A running node of a launch file is the one ChildPids names, or the only worker
\* concerned with the launch file has just started it.
LEMMA LiveNodeHeld ==
    ASSUME DisciplineInv, NEW lf \in Launches, NEW p \in LiveGroups(lf)
    PROVE  \/ childPids[lf] = p
           \/ \E w \in Workers : /\ worker[w].pc = "record" /\ InFlight(w)
                                 /\ worker[w].pid = p /\ worker[w].launch = lf
                                 /\ childPids[lf] = None
  <1>1. p \in Pids /\ group[p] = "live" /\ owner[p] = lf
    BY DEF LiveGroups
  <1>2. LiveNodesAreKnown /\ StartKnowsEntry /\ OwnGroups
    BY DEF DisciplineInv, LaunchInv, PidInv
  <1>3. CASE childPids[owner[p]] = p
    BY <1>1, <1>3
  <1>4. ASSUME NEW w \in Workers, worker[w].pc = "record", worker[w].pid = p
        PROVE  /\ InFlight(w) /\ worker[w].launch = lf
               /\ childPids[lf] = None
    BY <1>1, <1>2, <1>4 DEF StartKnowsEntry, OwnGroups, Holds, InFlight
  <1>5. QED
    BY <1>1, <1>2, <1>3, <1>4 DEF LiveNodesAreKnown

\* There is no second one.
LEMMA OneLiveNode ==
    ASSUME DisciplineInv, NEW lf \in Launches,
           NEW p \in LiveGroups(lf), NEW q \in LiveGroups(lf)
    PROVE  p = q
  <1>1. p \in Pids /\ q \in Pids
    BY DEF LiveGroups
  <1>2. OneStart
    BY DEF DisciplineInv, LaunchInv
  <1>3. QED
    BY <1>1, <1>2, LiveNodeHeld DEF OneStart

\* A controller that waits never makes the shim lose sight of a running node.
THEOREM LiveNodesAreKnownAlways ==
    ASSUME ~IdsCollide, Discipline # "free"
    PROVE  Spec => []LiveNodesAreKnown
  <1>1. DisciplineInv => LiveNodesAreKnown
    BY DEF DisciplineInv, LaunchInv
  <1>2. DisciplineInv /\ [Next]_vars => DisciplineInv'
    BY DisciplineInvStep
  <1>3. QED
    BY <1>1, <1>2, DisciplineInvInit, PTL DEF Spec

\* Nor does it ever get two nodes of one launch file.
THEOREM OneNodePerLaunchAlways ==
    ASSUME ~IdsCollide, Discipline # "free"
    PROVE  Spec => []OneNodePerLaunch
  <1>1. ASSUME DisciplineInv PROVE OneNodePerLaunch
    <2> SUFFICES ASSUME NEW lf \in Launches
                 PROVE  Cardinality(LiveGroups(lf)) <= 1
      BY DEF OneNodePerLaunch
    <2>1. CASE LiveGroups(lf) = {}
      BY <2>1, FS_EmptySet
    <2>2. ASSUME NEW p \in LiveGroups(lf) PROVE Cardinality(LiveGroups(lf)) = 1
      <3>1. LiveGroups(lf) = {p}
        BY <1>1, OneLiveNode
      <3>2. QED
        BY <3>1, FS_Singleton
    <2>3. QED
      BY <2>1, <2>2
  <1>2. DisciplineInv /\ [Next]_vars => DisciplineInv'
    BY DisciplineInvStep
  <1>3. QED
    BY <1>1, <1>2, DisciplineInvInit, PTL DEF Spec

\* It can trust the answer to a stop.
THEOREM StopCoversLaunchAlways ==
    ASSUME ~IdsCollide, Discipline # "free"
    PROVE  Spec => []StopCoversLaunch
  <1>1. ASSUME DisciplineInv PROVE StopCoversLaunch
    <2> SUFFICES ASSUME NEW c \in Calls, call[c].pc = "delete",
                        \A w \in Workers :
                            InFlight(w) => worker[w].launch # call[c].launch,
                        NEW p \in LiveGroups(call[c].launch)
                 PROVE  FALSE
      BY DEF StopCoversLaunch
    <2>1. /\ call[c].launch \in Launches
          /\ childPids[call[c].launch] = call[c].pid
          /\ group[call[c].pid] = "dead"
      BY <1>1 DEF DisciplineInv, PidInv, TypeOK, StopKillsNode, LaunchInv,
         StopKnowsEntry, Stopping
    <2>2. childPids[call[c].launch] = p
      BY <1>1, <2>1, LiveNodeHeld
    <2>3. QED
      BY <2>1, <2>2 DEF LiveGroups
  <1>2. DisciplineInv /\ [Next]_vars => DisciplineInv'
    BY DisciplineInvStep
  <1>3. QED
    BY <1>1, <1>2, DisciplineInvInit, PTL DEF Spec

\* And the queries about a launch file with nothing under way.
THEOREM NoFalseAlarmAlways ==
    ASSUME ~IdsCollide, Discipline # "free"
    PROVE  Spec => []NoFalseAlarm
  <1>1. ASSUME DisciplineInv PROVE NoFalseAlarm
    <2> SUFFICES ASSUME NEW lf \in Launches, Quiet(lf), NEW p \in LiveGroups(lf)
                 PROVE  /\ lf \in DOMAIN CheckHealthRosNodesReply
                        /\ CheckHealthRosNodesReply[lf] = "healthy"
                        /\ p \in GetChildPidsReply
      BY DEF NoFalseAlarm
    <2>1. \A w \in Workers : InFlight(w) => worker[w].launch # lf
      BY <1>1, QuietMeans DEF DisciplineInv
    <2>2. childPids[lf] = p
      BY <1>1, <2>1, LiveNodeHeld
    <2>3. p \in Pids /\ group[p] = "live"
      BY DEF LiveGroups
    <2>4. lf \in Tracked /\ IsProcessActive(childPids[lf])
      BY <2>2, <2>3 DEF Tracked, IsProcessActive
    <2>5. CheckHealthReply(lf) = "healthy"
      BY <2>4 DEF CheckHealthReply, Tracked
    <2>6. QED
      BY <2>2, <2>4, <2>5 DEF CheckHealthRosNodesReply, GetChildPidsReply
  <1>2. DisciplineInv /\ [Next]_vars => DisciplineInv'
    BY DisciplineInvStep
  <1>3. QED
    BY <1>1, <1>2, DisciplineInvInit, PTL DEF Spec

\* Whatever the controller does, the list of pids is as long as it claims to be: a
\* pid in ChildPids names the group of its own launch file.
THEOREM PidsListedOnceAlways ==
    ASSUME IsFiniteSet(Launches)
    PROVE  Spec => []PidsListedOnce
  <1>1. ASSUME PidInv PROVE PidsListedOnce
    <2> DEFINE pidOf == [lf \in Tracked |-> childPids[lf]]
    <2>1. \A k, l \in Tracked : childPids[k] = childPids[l] => k = l
      BY <1>1 DEF PidInv, OwnGroups, Holds
    <2>2. pidOf \in Bijection(Tracked, GetChildPidsReply)
      BY <2>1 DEF GetChildPidsReply, Bijection, Injection, Surjection, IsInjective
    <2>3. IsFiniteSet(Tracked)
      BY FS_Subset DEF Tracked
    <2>4. QED
      BY <2>2, <2>3, Fun_ExistsBij, FS_Bijection
         DEF PidsListedOnce, GetAmountOfChildsReply
  <1>2. QED
    BY <1>1, PidInvInit, PidInvStep, PTL DEF Spec

-----------------------------------------------------------------------------
(***************************************************************************)
(* The service implements NodeSupervisor.                                  *)
(***************************************************************************)
Refined == RunningNodes' = RunningNodes /\ UNCHANGED childPids

\* A step after which at most the group of one launch file has stopped running is
\* an exit, or nothing, to the supervisor.
LEMMA ExitRefined ==
    ASSUME DisciplineInv, NEW p \in Pids, UNCHANGED <<childPids, owner>>,
           group[p] = "live" => owner[p] \in Launches,
           group' = [group EXCEPT ![p] = "dead"]
    PROVE  NS!Next \/ Refined
  <1>1. \A q \in Pids : group'[q] = IF q = p THEN "dead" ELSE group[q]
    BY DEF DisciplineInv, PidInv, TypeOK
  <1>2. CASE group[p] # "live"
    <2>1. \A lf \in Launches : LiveGroups(lf)' = LiveGroups(lf)
      BY <1>1, <1>2 DEF LiveGroups
    <2>2. QED
      BY <2>1 DEF Refined, RunningNodes
  <1>3. CASE group[p] = "live"
    <2>1. owner[p] \in Launches /\ p \in LiveGroups(owner[p])
      BY <1>3 DEF LiveGroups
    <2>2. LiveGroups(owner[p]) = {p}
      BY <2>1, OneLiveNode
    <2>3. /\ LiveGroups(owner[p])' = {}
          /\ \A lf \in Launches \ {owner[p]} : LiveGroups(lf)' = LiveGroups(lf)
      BY <1>1, <2>2 DEF LiveGroups
    <2>4. NS!Exit(owner[p])
      BY <2>1, <2>3 DEF NS!Exit, RunningNodes
    <2>5. QED
      BY <2>1, <2>4 DEF NS!Next
  <1>4. QED
    BY <1>2, <1>3

\* A step of a worker starts the node, learns its pid, or is nothing.
LEMMA WorkerRefined ==
    ASSUME DisciplineInv, NEW w \in Workers, WorkerStep(w)
    PROVE  NS!Next \/ Refined
  <1> DEFINE lf == worker[w].launch
  <1>0. TypeOK /\ OwnGroups /\ OneStart /\ StartKnowsEntry
    BY DEF DisciplineInv, PidInv, LaunchInv
  <1>1. CASE PrepareFails(w) \/ PrepareDone(w) \/ LaunchFails(w) \/ Report(w)
    <2>1. UNCHANGED <<childPids, group, owner>>
      BY <1>1 DEF PrepareFails, PrepareDone, LaunchFails, Report
    <2>2. QED
      BY <2>1 DEF Refined, RunningNodes, LiveGroups
  <1>2. ASSUME NEW p \in Pids, Launch(w, p) PROVE NS!Next
    <2>0. PICK k \in Launches : k = worker[w].launch
      BY <1>0, <1>2 DEF Launch, TypeOK
    <2>1. /\ worker[w].pc = "launch" /\ InFlight(w)
          /\ Fork(p, k) /\ UNCHANGED childPids
      BY <1>2, <2>0 DEF Launch, InFlight
    <2>2. childPids[k] = None
      BY <1>0, <2>0, <2>1 DEF StartKnowsEntry
    <2>3. LiveGroups(k) = {}
      <3> SUFFICES ASSUME NEW q \in LiveGroups(k) PROVE FALSE
        OBVIOUS
      <3>1. q \in Pids
        BY DEF LiveGroups
      <3>2. PICK v \in Workers : /\ worker[v].pc = "record" /\ InFlight(v)
                                 /\ worker[v].launch = k
        BY <2>1, <2>2, <3>1, LiveNodeHeld
      <3>3. QED
        BY <1>0, <2>0, <2>1, <3>2 DEF OneStart
    <2>4. /\ group[p] = "free"
          /\ group'[p] = "live" /\ owner'[p] = k
          /\ \A q \in Pids \ {p} : group'[q] = group[q] /\ owner'[q] = owner[q]
      BY <1>0, <2>1 DEF Fork, TypeOK
    <2>5. /\ LiveGroups(k)' = {p}
          /\ \A m \in Launches \ {k} : LiveGroups(m)' = LiveGroups(m)
          /\ \A m \in Launches : p \notin LiveGroups(m)
      BY <2>3, <2>4 DEF LiveGroups
    <2>6. NS!Start(k, p)
      BY <2>1, <2>2, <2>3, <2>5 DEF NS!Start, RunningNodes
    <2>7. QED
      BY <2>1, <2>6 DEF NS!Next
  <1>3. CASE Record(w)
    <2> DEFINE q == worker[w].pid
    <2>1. /\ worker[w].pc = "record" /\ InFlight(w)
          /\ lf \in Launches /\ q \in Pids
          /\ childPids' = [childPids EXCEPT ![lf] = q]
          /\ UNCHANGED <<group, owner>>
      BY <1>0, <1>3 DEF Record, InFlight, TypeOK
    <2>2. childPids[lf] = None
      BY <1>0, <2>1 DEF StartKnowsEntry
    <2>3. ASSUME NEW p \in LiveGroups(lf) PROVE p = q
      <3>1. p \in Pids
        BY DEF LiveGroups
      <3>2. PICK v \in Workers : /\ worker[v].pid = p /\ InFlight(v)
                                 /\ worker[v].launch = lf
        BY <2>1, <2>2, <3>1, LiveNodeHeld
      <3>3. QED
        BY <1>0, <2>1, <3>2 DEF OneStart
    <2>4. RunningNodes[lf] \subseteq {q}
      BY <2>1, <2>3 DEF RunningNodes
    <2>5. RunningNodes' = RunningNodes
      BY <2>1 DEF RunningNodes, LiveGroups
    <2> HIDE DEF lf, q
    <2>6. NS!Learn(lf, q)
      BY <2>1, <2>2, <2>4, <2>5 DEF NS!Learn
    <2>7. QED
      BY <2>1, <2>6 DEF NS!Next
  <1>4. QED
    BY <1>1, <1>2, <1>3 DEF WorkerStep

\* A step of a handler makes a node exit, forgets one that has, or is nothing.
LEMMA CallRefined ==
    ASSUME DisciplineInv, NEW c \in Calls, CallStep(c)
    PROVE  NS!Next \/ Refined
  <1>0. TypeOK /\ OwnGroups /\ StopKillsNode /\ StopKnowsEntry
        /\ NoStartWhileStopping
    BY DEF DisciplineInv, PidInv, LaunchInv
  <1>1. CASE StopKill(c) \/ RangeKill(c)
    <2>1. /\ KillIfActive(call[c].pid) /\ call[c].pid \in Pids
          /\ Holds(call[c].pid, call[c].launch) /\ call[c].launch \in Launches
          /\ UNCHANGED childPids
      BY <1>0, <1>1 DEF StopKill, RangeKill, OwnGroups, TypeOK
    <2>2. /\ group' = [group EXCEPT ![call[c].pid] = "dead"]
          /\ owner' = owner /\ owner[call[c].pid] \in Launches
      BY <2>1 DEF KillIfActive, IsProcessActive, Holds
    <2>3. QED
      BY <2>1, <2>2, ExitRefined
  <1>2. CASE StopDelete(c)
    <2> DEFINE lf == call[c].launch
    <2>1. /\ call[c].pc = "delete" /\ Stopping(c) /\ lf \in Launches
          /\ childPids' = [childPids EXCEPT ![lf] = None]
          /\ UNCHANGED <<group, owner>>
          /\ childPids[lf] = call[c].pid /\ group[call[c].pid] = "dead"
      BY <1>0, <1>2 DEF StopDelete, Stopping, TypeOK, StopKnowsEntry, StopKillsNode
    <2>2. LiveGroups(lf) = {}
      <3> SUFFICES ASSUME NEW p \in LiveGroups(lf) PROVE FALSE
        OBVIOUS
      <3>1. p \in Pids /\ group[p] = "live"
        BY DEF LiveGroups
      <3>2. CASE childPids[lf] = p
        BY <2>1, <3>1, <3>2
      <3>3. ASSUME NEW w \in Workers, InFlight(w), worker[w].launch = lf
            PROVE  FALSE
        BY <1>0, <2>1, <3>3 DEF NoStartWhileStopping
      <3>4. QED
        BY <2>1, <3>2, <3>3, LiveNodeHeld
    <2>3. RunningNodes[lf] = {} /\ RunningNodes' = RunningNodes
      BY <2>1, <2>2 DEF RunningNodes, LiveGroups
    <2> HIDE DEF lf
    <2>4. NS!Forget(lf)
      BY <2>1, <2>3 DEF NS!Forget
    <2>5. QED
      BY <2>1, <2>4 DEF NS!Next
  <1>3. CASE \/ \E w \in Workers, t \in TaskIds : RestartStart(c, w, t)
             \/ \E lf \in Launches : RangeNext(c, lf)
             \/ RangeDone(c)
    <2>1. UNCHANGED <<childPids, group, owner>>
      BY <1>3 DEF RestartStart, RangeNext, RangeDone
    <2>2. QED
      BY <2>1 DEF Refined, RunningNodes, LiveGroups
  <1>4. QED
    BY <1>1, <1>2, <1>3 DEF CallStep

\* For a controller that does one thing at a time per launch file, every step of
\* the service is a step of the supervisor or none.
THEOREM SupervisorImplemented ==
    ASSUME ~IdsCollide, Discipline # "free"
    PROVE  Spec => ImplementsSupervisor
  <1>1. Init => NS!Empty
    BY DEF Init, GroupsInit, NS!Empty, RunningNodes, LiveGroups
  <1>2. ASSUME DisciplineInv, [Next]_vars
        PROVE  NS!Next \/ Refined
    <2>0. TypeOK /\ TaskInv /\ LaunchInv
      BY <1>2 DEF DisciplineInv, PidInv
    <2>1. CASE ShimGone
      <3>1. \A p \in Pids : group'[p] # "live"
        BY <2>0, <2>1 DEF ShimGone, AdoptedByInit, TypeOK, GroupStates
      <3>2. \A lf \in Launches : LiveGroups(lf)' = {}
        BY <3>1 DEF LiveGroups
      <3>3. QED
        BY <2>1, <3>2 DEF ShimGone, NS!Next, NS!Lose, NS!Empty, RunningNodes
    <2>2. CASE Boot
      <3>1. \A p \in Pids : group'[p] # "live"
        BY <2>0, <2>2 DEF Boot, LaunchInv, DownIsDead
      <3>2. \A lf \in Launches : LiveGroups(lf)' = {}
        BY <3>1 DEF LiveGroups
      <3>3. QED
        BY <2>2, <3>2 DEF Boot, NS!Next, NS!Lose, NS!Empty, RunningNodes
    <2>3. CASE UNCHANGED <<childPids, group, owner>>
      BY <2>3 DEF Refined, RunningNodes, LiveGroups
    <2>4. ASSUME NEW p \in Pids, NodeExits(p), UNCHANGED childPids
          PROVE  NS!Next \/ Refined
      <3>1. /\ group' = [group EXCEPT ![p] = "dead"] /\ owner' = owner
        BY <2>4 DEF NodeExits
      <3>2. CASE owner[p] \in Launches
        BY <1>2, <2>4, <3>1, <3>2, ExitRefined
      <3>3. CASE owner[p] \notin Launches
        <4>1. \A lf \in Launches : LiveGroups(lf)' = LiveGroups(lf)
          BY <2>0, <3>1, <3>3 DEF LiveGroups, TypeOK
        <4>2. QED
          BY <2>4, <4>1 DEF Refined, RunningNodes
      <3>4. QED
        BY <3>2, <3>3
    <2>5. ASSUME NEW p \in Pids, ForeignFork(p) \/ OtherExits(p), UNCHANGED childPids
          PROVE  Refined
      <3>1. \A lf \in Launches : LiveGroups(lf)' = LiveGroups(lf)
        BY <2>0, <2>5 DEF ForeignFork, OtherExits, LiveGroups, TypeOK
      <3>2. QED
        BY <2>5, <3>1 DEF Refined, RunningNodes
    <2>6. \/ ShimGone \/ Boot \/ Environment
          \/ UNCHANGED <<childPids, group, owner>>
          \/ \E w \in Workers : WorkerStep(w)
          \/ \E c \in Calls : CallStep(c)
      BY <1>2 DEF Next, vars, Register, StartService, StopRosNode, RangeBegin,
         Signal, QuitSignal, Exit, Reexec, ReexecFails, MapFault
    <2>7. QED
      BY <1>2, <2>1, <2>2, <2>3, <2>4, <2>5, <2>6, WorkerRefined, CallRefined
         DEF Environment
  <1>3. DisciplineInv /\ [Next]_vars => [NS!Next]_<<RunningNodes, childPids>>
    BY <1>2 DEF Refined
  <1>4. DisciplineInv /\ [Next]_vars => DisciplineInv'
    BY DisciplineInvStep
  <1>5. QED
    BY <1>1, <1>3, <1>4, DisciplineInvInit, PTL
       DEF Spec, ImplementsSupervisor, NS!Spec, NS!supervised
=============================================================================
