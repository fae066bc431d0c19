---------------------------- MODULE ShimService ----------------------------
(***************************************************************************)
(* LogServiceServer (src/connection/api.go): the gRPC server with which a  *)
(* controller starts, stops and restarts ROS nodes on the shim's host.     *)
(*                                                                         *)
(* Every RPC runs in a goroutine of its own and StartService leaves a      *)
(* worker goroutine behind; they share the maps tasks (guarded by mu) and  *)
(* ChildPids (written without mu by the worker and by StopRosNode).  One   *)
(* action below is what a goroutine does between two points at which other *)
(* goroutines can be observed: entering the handler, the three seconds     *)
(* TerminateProcess sleeps, each access to a shared map.  Handlers that    *)
(* only read are state functions (CheckTaskStatusReply, ...).              *)
(*                                                                         *)
(* The steps that prepare a project (clone, venv, build, source) touch     *)
(* nothing that is shared here; they succeed (PrepareDone), fail with a    *)
(* message (PrepareFails) or never return: git, pip and colcon are run     *)
(* without a timeout.                                                      *)
(***************************************************************************)
EXTENDS Naturals, FiniteSets, ProcessGroups

CONSTANTS
    Calls,       \* handler goroutines that can be in flight at a time
    Workers,     \* StartService goroutines over the whole behaviour (a bound)
    TaskIds,     \* ids generateNewTaskId can return
    MaxBoots,    \* bound: how often the shim's process is started
    Discipline,  \* how much the controller waits: see Permitted
    IdsCollide   \* may generateNewTaskId return an id that is in use?

ASSUME NoTaskAssumption == None \notin TaskIds
ASSUME BootsAssumption == MaxBoots \in Nat
ASSUME DisciplineAssumption == Discipline \in {"free", "perLaunch", "serial"}
ASSUME CollideAssumption == IdsCollide \in BOOLEAN

VARIABLES
    shim,        \* the process: "down", "up", "draining" (GracefulStop)
    boots,       \* number of starts so far
    registered,  \* connectiondata of the controller's address
    pending,     \* goroutines left behind by Shutdown and RestartRos2Shim
    tasks,       \* LogServiceServer.tasks
    childPids,   \* LogServiceServer.ChildPids, None where there is no entry
    worker,      \* the StartService goroutines
    call         \* the handler goroutines of Stop, Restart, Shutdown

serverVars == <<shim, boots, registered, pending>>
vars == <<shim, boots, registered, pending, tasks, childPids, worker, call,
          group, owner>>

-----------------------------------------------------------------------------
(***************************************************************************)
(* Records.                                                                *)
(***************************************************************************)
Messages == {"absent", "starting", "prepare failed", "start failed", "started"}

\* type task struct; "absent" stands for a key that is not in the map.
Task(done, message) == [done |-> done, message |-> message]
NoTask == Task(FALSE, "absent")

\* A worker slot is used once, so it also remembers what it was started for.
IdleWorker == [pc |-> "idle", launch |-> None, task |-> None, pid |-> None]
WorkerPCs == {"idle", "prepare", "launch", "record", "report", "finished",
              "lost"}

IdleCall == [pc |-> "idle", op |-> "none", launch |-> None, pid |-> None,
             seen |-> {}, owed |-> {}]
CallPCs == {"idle", "grace", "delete", "start", "range", "rangeGrace"}
Ops == {"none", "stop", "restart", "shutdown", "reexec"}

InFlight(w) == worker[w].pc \in {"prepare", "launch", "record", "report"}
Busy(c) == call[c].pc # "idle"
Tracked == {lf \in Launches : childPids[lf] # None}

Init ==
    /\ shim = "down"
    /\ boots = 0
    /\ registered = FALSE
    /\ pending = {}
    /\ tasks = [t \in TaskIds |-> NoTask]
    /\ childPids = [lf \in Launches |-> None]
    /\ worker = [w \in Workers |-> IdleWorker]
    /\ call = [c \in Calls |-> IdleCall]
    /\ GroupsInit

-----------------------------------------------------------------------------
(***************************************************************************)
(* The controller.  It is not part of this repository; what it may ask for *)
(* and when is a parameter:                                                *)
(*   "free"       anything at any time                                     *)
(*   "perLaunch"  one operation at a time per launch file: it waits for    *)
(*                the reply, polls CheckTaskStatus until the task is done, *)
(*                and starts only what CheckHealthRosNode does not know    *)
(*   "serial"     the same, over all launch files, and no status query     *)
(*                that reads ChildPids while an operation is under way     *)
(***************************************************************************)
Polling(lf) ==
    \E w \in Workers : /\ worker[w].launch = lf
                       /\ worker[w].pc \notin {"idle", "lost"}
                       /\ ~tasks[worker[w].task].done

Quiet(lf) ==
    /\ ~Polling(lf)
    /\ \A c \in Calls : Busy(c) => call[c].launch # lf

AllQuiet ==
    /\ \A lf \in Launches : ~Polling(lf)
    /\ \A c \in Calls : ~Busy(c)
    /\ pending = {}

Permitted(lf) ==
    CASE Discipline = "free"      -> TRUE
      [] Discipline = "perLaunch" -> Quiet(lf)
      [] Discipline = "serial"    -> AllQuiet

\* Bound on the number of starts: a restart under way has a slot reserved.
StartsLeft ==
    Cardinality({w \in Workers : worker[w].pc = "idle"}) >
    Cardinality({c \in Calls : Busy(c) /\ call[c].op = "restart"})

-----------------------------------------------------------------------------
(***************************************************************************)
(* Registration and the start of the server.                               *)
(***************************************************************************)
\* main after SetUpCertificate: UpdateRosNodeInfo and StartGrpcCommunication
\* make empty maps, then the server listens.
Boot ==
    /\ shim = "down"
    /\ boots < MaxBoots
    /\ shim' = "up"
    /\ boots' = boots + 1
    /\ registered' = FALSE
    /\ pending' = {}
    /\ tasks' = [t \in TaskIds |-> NoTask]
    /\ childPids' = [lf \in Launches |-> None]
    /\ UNCHANGED <<worker, call, group, owner>>

\* isConnectionValid for the address findIpFromPeerConnection finds: what start,
\* stop and the queries below ask first.
IsConnectionValid == registered

\* An accepted Register marks the controller's address; a refused one changes
\* nothing.
Register ==
    /\ shim = "up"
    /\ registered' = TRUE
    /\ UNCHANGED <<shim, boots, pending, tasks, childPids, worker, call,
                   group, owner>>

-----------------------------------------------------------------------------
(***************************************************************************)
(* StartService and its worker.                                            *)
(***************************************************************************)
\* What generateNewTaskId may return: a hash of the time and of numbers drawn at
\* random, which it does not compare with the ids in use.
NewTaskIds == {t \in TaskIds : IdsCollide \/ tasks[t] = NoTask}

\* The new entry of tasks, and "go func": task t for launch file lf in the hands
\* of goroutine w.
SpawnWorker(w, t, lf) ==
    /\ worker[w].pc = "idle"
    /\ t \in NewTaskIds
    /\ tasks' = [tasks EXCEPT ![t] = Task(FALSE, "starting")]
    /\ worker' = [worker EXCEPT ![w] = [pc |-> "prepare", launch |-> lf,
                                        task |-> t, pid |-> None]]

StartService(w, t, lf) ==
    /\ shim = "up"
    /\ IsConnectionValid
    /\ StartsLeft
    /\ Permitted(lf)
    /\ Discipline # "free" => childPids[lf] = None
    /\ SpawnWorker(w, t, lf)
    /\ UNCHANGED <<serverVars, childPids, call, group, owner>>

\* updateTaskStatus: under mu, and only if the id is in the map.
UpdatedTasks(t, isCompleted, result) ==
    IF tasks[t].message # "absent"
    THEN [tasks EXCEPT ![t] = Task(isCompleted, result)]
    ELSE tasks

Goto(w, pc) == worker' = [worker EXCEPT ![w].pc = pc]

PrepareFailsNoReturn(w) ==   \* broken variant: the status, and no return
    /\ worker[w].pc = "prepare"
    /\ tasks' = UpdatedTasks(worker[w].task, TRUE, "prepare failed")
    /\ Goto(w, "launch")
    /\ UNCHANGED <<serverVars, childPids, call, group, owner>>

\* One of the preparation steps fails: the worker says so and returns.
PrepareFails(w) ==
    /\ worker[w].pc = "prepare"
    /\ tasks' = UpdatedTasks(worker[w].task, TRUE, "prepare failed")
    /\ Goto(w, "finished")
    /\ UNCHANGED <<serverVars, childPids, call, group, owner>>

PrepareDone(w) ==
    /\ worker[w].pc = "prepare"
    /\ Goto(w, "launch")
    /\ UNCHANGED <<serverVars, tasks, childPids, call, group, owner>>

LaunchReportsFirst(w, p) ==  \* broken variant: done before it is recorded
    /\ worker[w].pc = "launch"
    /\ Fork(p, worker[w].launch)
    /\ worker' = [worker EXCEPT ![w].pc = "record", ![w].pid = p]
    /\ tasks' = UpdatedTasks(worker[w].task, TRUE, "started")
    /\ UNCHANGED <<serverVars, childPids, call>>

\* StartLaunch succeeds: a new process group exists, known to this worker.
Launch(w, p) ==
    /\ worker[w].pc = "launch"
    /\ Fork(p, worker[w].launch)
    /\ worker' = [worker EXCEPT ![w].pc = "record", ![w].pid = p]
    /\ UNCHANGED <<serverVars, tasks, childPids, call>>

\* StartLaunch fails (cmd.Start returns an error): the status is set with
\* isCompleted = false.
LaunchFails(w) ==
    /\ worker[w].pc = "launch"
    /\ tasks' = UpdatedTasks(worker[w].task, FALSE, "start failed")
    /\ Goto(w, "finished")
    /\ UNCHANGED <<serverVars, childPids, call, group, owner>>

\* s.ChildPids[launchFile] = ..., without mu: an entry that is there already
\* is overwritten.
Record(w) ==
    /\ worker[w].pc = "record"
    /\ childPids' = [childPids EXCEPT ![worker[w].launch] = worker[w].pid]
    /\ Goto(w, "report")
    /\ UNCHANGED <<serverVars, tasks, call, group, owner>>

ReportUnfinished(w) ==   \* broken variant: the flag LaunchFails passes
    /\ worker[w].pc = "report"
    /\ tasks' = UpdatedTasks(worker[w].task, FALSE, "started")
    /\ Goto(w, "finished")
    /\ UNCHANGED <<serverVars, childPids, call, group, owner>>

\* ChildPids is logged, without mu, and the task is set to done.
Report(w) ==
    /\ worker[w].pc = "report"
    /\ tasks' = UpdatedTasks(worker[w].task, TRUE, "started")
    /\ Goto(w, "finished")
    /\ UNCHANGED <<serverVars, childPids, call, group, owner>>

WorkerStep(w) ==
    \/ PrepareFails(w)
    \/ PrepareDone(w)
    \/ \E p \in Pids : Launch(w, p)
    \/ LaunchFails(w)
    \/ Record(w)
    \/ Report(w)

-----------------------------------------------------------------------------
(***************************************************************************)
(* StopRosNode and RestartService.                                         *)
(***************************************************************************)
\* Lookup in ChildPids (without mu), then the first half of TerminateProcess:
\* SIGTERM and three seconds of sleep.  SIGTERM itself has no effect here:
\* NodeExits may follow or not.  A caller that is not registered, a launch file
\* with no entry and a pid that is not in the table are answered with an error
\* and change nothing.
StopRosNode(c, op, lf) ==
    /\ shim = "up"
    /\ IsConnectionValid
    /\ call[c].pc = "idle"
    /\ op = "restart" => StartsLeft
    /\ Permitted(lf)
    /\ lf \in Tracked
    /\ IsProcessActive(childPids[lf])
    /\ call' = [call EXCEPT ![c] = [IdleCall EXCEPT !.pc = "grace",
                                                    !.op = op,
                                                    !.launch = lf,
                                                    !.pid = childPids[lf]]]
    /\ UNCHANGED <<serverVars, tasks, childPids, worker, group, owner>>

\* The second half of TerminateProcess; it returns true.  That kill(pid, 0) fails
\* after the SIGTERM, so that it returns false and StopRosNode answers with an
\* error, does not happen: the pid is that of an unreaped leader (OwnGroups).
StopKill(c) ==
    /\ call[c].pc = "grace"
    /\ KillIfActive(call[c].pid)
    /\ call' = [call EXCEPT ![c].pc = "delete"]
    /\ UNCHANGED <<serverVars, tasks, childPids, worker>>

\* A map iteration under way (Shutdown) does not produce a deleted entry.
WithoutEntry(cl, lf) == [cl EXCEPT !.seen = @ \ {lf}, !.owed = @ \ {lf}]

\* Broken variant: RestartService goes on with an empty request.
AfterStopForgetful(cl) ==
    IF cl.op = "restart" THEN [IdleCall EXCEPT !.pc = "start"] ELSE IdleCall

\* RestartService goes on where StopRosNode replies.
AfterStop(cl) == IF cl.op = "restart" THEN [cl EXCEPT !.pc = "start"] ELSE IdleCall

\* delete(s.ChildPids, launchFile), without mu and whatever pid the entry
\* holds by now.
StopDelete(c) ==
    /\ call[c].pc = "delete"
    /\ childPids' = [childPids EXCEPT ![call[c].launch] = None]
    /\ call' = [d \in Calls |-> IF d = c
                                THEN AfterStop(call[d])
                                ELSE WithoutEntry(call[d], call[c].launch)]
    /\ UNCHANGED <<serverVars, tasks, worker, group, owner>>

\* RestartService after a successful stop: StartService in the same handler.
RestartStart(c, w, t) ==
    /\ call[c].pc = "start"
    /\ SpawnWorker(w, t, call[c].launch)
    /\ call' = [call EXCEPT ![c] = IdleCall]
    /\ UNCHANGED <<serverVars, childPids, group, owner>>

-----------------------------------------------------------------------------
(***************************************************************************)
(* Shutdown and RestartRos2Shim: both range over ChildPids and terminate   *)
(* each entry.  The iteration follows the Go specification: an entry that  *)
(* is there from the start and is not deleted is produced exactly once     *)
(* (owed), one that is added meanwhile may be produced or not.             *)
(***************************************************************************)
RangeBegin(c, op) ==
    /\ shim = "up"
    /\ call[c].pc = "idle"
    /\ Discipline = "serial" => AllQuiet
    /\ call' = [call EXCEPT ![c] = [IdleCall EXCEPT !.pc = "range",
                                                    !.op = op,
                                                    !.owed = Tracked]]
    /\ UNCHANGED <<serverVars, tasks, childPids, worker, group, owner>>

RangeNext(c, lf) ==
    /\ call[c].pc = "range"
    /\ lf \in Tracked \ call[c].seen
    /\ call' = [call EXCEPT ![c].pc = IF IsProcessActive(childPids[lf])
                                      THEN "rangeGrace" ELSE "range",
                            ![c].launch = lf,
                            ![c].pid = childPids[lf],
                            ![c].seen = @ \cup {lf},
                            ![c].owed = @ \ {lf}]
    /\ UNCHANGED <<serverVars, tasks, childPids, worker, group, owner>>

RangeKill(c) ==
    /\ call[c].pc = "rangeGrace"
    /\ KillIfActive(call[c].pid)
    /\ call' = [call EXCEPT ![c].pc = "range"]
    /\ UNCHANGED <<serverVars, tasks, childPids, worker>>

RangeDoneEarly(c) ==     \* broken variant: the goroutine precedes the loop
    /\ call[c].pc = "range"
    /\ pending' = pending \cup {call[c].op}
    /\ call' = [call EXCEPT ![c] = IdleCall]
    /\ UNCHANGED <<shim, boots, registered, tasks, childPids, worker, group,
                   owner>>

RangeDoneNoSignal(c) ==  \* broken variant: nothing is left to end the process
    /\ call[c].pc = "range"
    /\ call[c].owed = {}
    /\ call' = [call EXCEPT ![c] = IdleCall]
    /\ UNCHANGED <<serverVars, tasks, childPids, worker, group, owner>>

\* The loop is over: a goroutine is left to end the process, the call replies.
RangeDone(c) ==
    /\ call[c].pc = "range"
    /\ call[c].owed = {}
    /\ pending' = pending \cup {call[c].op}
    /\ call' = [call EXCEPT ![c] = IdleCall]
    /\ UNCHANGED <<shim, boots, registered, tasks, childPids, worker, group,
                   owner>>

CallStep(c) ==
    \/ StopKill(c)
    \/ StopDelete(c)
    \/ \E w \in Workers, t \in TaskIds : RestartStart(c, w, t)
    \/ \E lf \in Launches : RangeNext(c, lf)
    \/ RangeKill(c)
    \/ RangeDone(c)

-----------------------------------------------------------------------------
(***************************************************************************)
(* The end of the process.                                                 *)
(***************************************************************************)
\* Goroutines and memory are gone; the process groups are not.
ShimGone ==
    /\ shim' = "down"
    /\ registered' = FALSE
    /\ pending' = {}
    /\ tasks' = [t \in TaskIds |-> NoTask]
    /\ childPids' = [lf \in Launches |-> None]
    /\ worker' = [w \in Workers |-> IF worker[w].pc = "idle"
                                    THEN worker[w]
                                    ELSE [worker[w] EXCEPT !.pc = "lost"]]
    /\ call' = [c \in Calls |-> IdleCall]
    /\ AdoptedByInit
    /\ UNCHANGED boots

\* <-s.quit returns: a SIGINT or SIGTERM from outside ...
Signal ==
    /\ shim = "up"
    /\ shim' = "draining"
    /\ UNCHANGED <<boots, registered, pending, tasks, childPids, worker, call,
                   group, owner>>

\* ... or the one Shutdown's goroutine puts into the channel.
QuitSignal ==
    /\ "shutdown" \in pending
    /\ shim' = "draining"
    /\ pending' = pending \ {"shutdown"}
    /\ UNCHANGED <<boots, registered, tasks, childPids, worker, call, group,
                   owner>>

\* GracefulStop waits for the handlers, and not for the workers; then
\* StartGrpcCommunication and main return.  The health service registered next to
\* this one is left out: a client that watches it keeps GracefulStop waiting.
Exit ==
    /\ shim = "draining"
    /\ \A c \in Calls : ~Busy(c)
    /\ ShimGone

\* RestartRos2Shim's goroutine starts the new binary and calls os.Exit(0) ...
Reexec ==
    /\ "reexec" \in pending
    /\ ShimGone

\* ... or fails to start it five times and gives up.
ReexecFails ==
    /\ "reexec" \in pending
    /\ pending' = pending \ {"reexec"}
    /\ UNCHANGED <<shim, boots, registered, tasks, childPids, worker, call,
                   group, owner>>

\* Two goroutines are about to access ChildPids, one of them to write it, and
\* no lock orders them.  The writers are Record and StopDelete; a worker that has
\* recorded logs the map, and read-only handlers (any idle slot) read it, with or
\* without mu.
ChildPidsRace ==
    LET recording == {w \in Workers : worker[w].pc = "record"}
        logging == {w \in Workers : worker[w].pc = "report"}
        deleting == {c \in Calls : call[c].pc = "delete"}
        ranging == {c \in Calls : call[c].pc = "range"}
        reading == IF Discipline = "serial" THEN {}
                   ELSE {c \in Calls : call[c].pc = "idle"}
    IN \/ \E w \in recording : \/ (recording \ {w}) \cup logging # {}
                               \/ deleting \cup ranging \cup reading # {}
       \/ \E c \in deleting : \/ logging # {}
                              \/ (deleting \ {c}) \cup ranging \cup reading # {}

\* The runtime detects the race and aborts the program ("concurrent map
\* writes"); that it does not is the interleaving of the other actions.
MapFault ==
    /\ ChildPidsRace
    /\ ShimGone

-----------------------------------------------------------------------------
Environment ==
    /\ \/ \E p \in Pids : NodeExits(p)
       \/ \E p \in Pids : ForeignFork(p)
       \/ \E p \in Pids : OtherExits(p)
    /\ UNCHANGED <<serverVars, tasks, childPids, worker, call>>

Next ==
    \/ Boot
    \/ Register
    \/ \E w \in Workers, t \in TaskIds, lf \in Launches : StartService(w, t, lf)
    \/ \E w \in Workers : WorkerStep(w)
    \/ \E c \in Calls, op \in {"stop", "restart"}, lf \in Launches :
          StopRosNode(c, op, lf)
    \/ \E c \in Calls, op \in {"shutdown", "reexec"} : RangeBegin(c, op)
    \/ \E c \in Calls : CallStep(c)
    \/ Signal
    \/ QuitSignal
    \/ Exit
    \/ Reexec
    \/ ReexecFails
    \/ MapFault
    \/ Environment

Spec == Init /\ [][Next]_vars

\* Go schedules every goroutine that can run, and the sleeps end.  A worker that
\* prepares waits for commands of the host (cmd.Run without a timeout), which need
\* not end.
Fairness ==
    /\ \A w \in Workers : WF_vars(worker[w].pc # "prepare" /\ WorkerStep(w))
    /\ \A c \in Calls : WF_vars(CallStep(c))
    /\ WF_vars(QuitSignal)
    /\ WF_vars(Exit)

FairSpec == Spec /\ Fairness

-----------------------------------------------------------------------------
(***************************************************************************)
(* The replies of the handlers that only read, to a caller whose address   *)
(* IsConnectionValid; any other caller is answered with nil.               *)
(***************************************************************************)
\* Broken variant: the message of a task that is not done is given away.
CheckTaskStatusReplyEager(t) ==
    IF tasks[t].message = "absent" THEN "task not found" ELSE tasks[t].message

CheckTaskStatusReply(t) ==
    CASE tasks[t].message = "absent" -> "task not found"
      [] tasks[t].done               -> tasks[t].message
      [] OTHER                       -> "waiting"

\* CheckHealthRosNode.
CheckHealthReply(lf) ==
    CASE childPids[lf] = None           -> "uptime -2"
      [] IsProcessActive(childPids[lf]) -> "healthy"
      [] OTHER                          -> "uptime -1"

\* CheckHealthRosNodes: one element per entry of ChildPids.
CheckHealthRosNodesReply == [lf \in Tracked |-> CheckHealthReply(lf)]

\* GetChildPids, and GetAmountOfChilds, which does not look at the pids.
GetChildPidsReply == {childPids[lf] : lf \in Tracked}
GetAmountOfChildsReply == Cardinality(Tracked)

-----------------------------------------------------------------------------
(***************************************************************************)
(* Properties.                                                             *)
(***************************************************************************)
LiveGroups(lf) == {p \in Pids : group[p] = "live" /\ owner[p] = lf}

TaskRecords == [done : BOOLEAN, message : Messages]

WorkerRecords == [pc : WorkerPCs, launch : Launches \cup {None},
                  task : TaskIds \cup {None}, pid : Pids \cup {None}]

CallRecords == [pc : CallPCs, op : Ops, launch : Launches \cup {None},
                pid : Pids \cup {None}, seen : SUBSET Launches,
                owed : SUBSET Launches]

\* Every variable has its type, and a goroutine that is about to use a pid, a
\* task or a launch file has one.
TypeOK ==
    /\ shim \in {"down", "up", "draining"}
    /\ boots \in 0 .. MaxBoots
    /\ registered \in BOOLEAN
    /\ pending \subseteq {"shutdown", "reexec"}
    /\ tasks \in [TaskIds -> TaskRecords]
    /\ childPids \in [Launches -> Pids \cup {None}]
    /\ worker \in [Workers -> WorkerRecords]
    /\ \A w \in Workers :
          /\ worker[w].pc # "idle" =>
                worker[w].launch \in Launches /\ worker[w].task \in TaskIds
          /\ worker[w].pc \in {"record", "report"} => worker[w].pid \in Pids
    /\ call \in [Calls -> CallRecords]
    /\ \A c \in Calls :
          /\ call[c].pc \in {"grace", "delete", "start", "rangeGrace"} =>
                call[c].launch \in Launches /\ call[c].pid \in Pids
          /\ call[c].pc \in {"range", "rangeGrace"} =>
                call[c].op \in {"shutdown", "reexec"}
    /\ group \in [Pids -> GroupStates]
    /\ owner \in [Pids -> Launches \cup {None}]

\* Pid p names the group that StartLaunch created for launch file lf, its node
\* running or not: nothing else can have p.
Holds(p, lf) == group[p] \in {"live", "dead"} /\ owner[p] = lf

\* Every pid the shim remembers or is acting on, in ChildPids, in a worker that
\* has not stored it yet, or in a handler asleep between SIGTERM and SIGKILL,
\* still names the group it was remembered for, although none of these holders
\* knows of the others (StartLaunch's Start without a Wait).
OwnGroups ==
    /\ \A lf \in Tracked : Holds(childPids[lf], lf)
    /\ \A w \in Workers :
          worker[w].pc \in {"record", "report"} =>
              Holds(worker[w].pid, worker[w].launch)
    /\ \A c \in Calls :
          call[c].pc \in {"grace", "delete", "start", "rangeGrace"} =>
              Holds(call[c].pid, call[c].launch)

\* The SIGKILL of TerminateProcess, sent three seconds after its last look at
\* the pid was decided on, only ever reaches a group this shim started.
KillsOnlyOwn ==
    [][\A p \in Pids :
          group'[p] = "dead" => group[p] \in {"live", "dead"}]_vars

\* When TerminateProcess has returned true and the handler goes on to forget the
\* pid (StopRosNode's delete, RestartService's new start), nothing runs in the
\* group any more, whatever other calls and workers did to the same launch file
\* in the meantime.
StopKillsNode ==
    \A c \in Calls :
        call[c].pc \in {"delete", "start"} => group[call[c].pid] = "dead"

\* If task ids do not collide, a task that CheckTaskStatus has once reported as
\* done keeps its verdict for as long as the shim runs: a worker reports once and
\* returns (the returns after updateTaskStatus), and no other goroutine writes
\* the entry.
DoneIsFinal ==
    [][\A t \in TaskIds :
          tasks[t].done => tasks'[t] = tasks[t] \/ shim' = "down"]_vars

\* A controller that does one thing at a time per launch file never has two
\* nodes of the same launch file running, nor one that the shim has lost sight
\* of: a running node is the one in ChildPids, or its worker is about to write
\* it there (StopRosNode's order kill, delete; the worker's order record,
\* report).
LiveNodesAreKnown ==
    \A p \in Pids : group[p] = "live" =>
        \/ childPids[owner[p]] = p
        \/ \E w \in Workers : worker[w].pc = "record" /\ worker[w].pid = p

OneNodePerLaunch ==
    \A lf \in Launches : Cardinality(LiveGroups(lf)) <= 1

\* When StopRosNode is about to answer with success, no node of the launch file
\* runs, except one that a start still under way may have brought up.
StopCoversLaunch ==
    \A c \in Calls :
        /\ call[c].pc = "delete"
        /\ \A w \in Workers : InFlight(w) => worker[w].launch # call[c].launch
        => LiveGroups(call[c].launch) = {}

\* With no operation under way for a launch file, the queries tell the truth about
\* its node if it runs: CheckHealthRosNodes has it and calls it healthy, and
\* GetChildPids lists its pid.
NoFalseAlarm ==
    \A lf \in Launches :
        Quiet(lf) /\ LiveGroups(lf) # {} =>
            /\ lf \in DOMAIN CheckHealthRosNodesReply
            /\ CheckHealthRosNodesReply[lf] = "healthy"
            /\ LiveGroups(lf) \subseteq GetChildPidsReply

\* No pid is listed for two launch files: GetChildPids has as many different pids
\* as GetAmountOfChilds counts entries, although entries outlive their nodes.
PidsListedOnce == Cardinality(GetChildPidsReply) = GetAmountOfChildsReply

\* ChildPids is accessed with mu by some functions and without it by others: a
\* controller that does one thing at a time, over all launch files, and asks
\* for no status meanwhile, never has two of them race.
ChildPidsRaceFree == ~ChildPidsRace

\* When Shutdown or RestartRos2Shim has left its goroutine behind to end the
\* process, no node runs that nobody will be able to stop.
ShutdownLeavesNothing ==
    pending # {} => \A p \in Pids : group[p] # "live"

\* Shutdown ends the process: the iteration over a map that workers still write
\* to, the handlers GracefulStop waits for, and the signal channel all let it.
ShutdownTerminates ==
    \A c \in Calls :
        call[c].pc = "range" /\ call[c].op = "shutdown" ~> shim = "down"

\* A worker that is done with the preparation does not leave the controller
\* without an answer: unless the process ends first, CheckTaskStatus gives its
\* verdict at last, with the one exception of a StartLaunch that fails (see
\* StartFailureReported).  Neither overlapping stops and restarts nor a shutdown
\* that goes through ChildPids meanwhile keep it from reporting.
StartSettles ==
    \A w \in Workers :
        worker[w].pc = "launch" ~>
            \/ worker[w].pc = "lost"
            \/ /\ worker[w].pc = "finished"
               /\ \/ CheckTaskStatusReply(worker[w].task) = "started"
                  \/ tasks[worker[w].task].message = "start failed"

-----------------------------------------------------------------------------
(***************************************************************************)
(* What the comments in api.go say and the code does not do.               *)
(***************************************************************************)
\* "If the service fails we update the task with the correct error message":
\* once the worker has given up, CheckTaskStatus does not answer "Waiting...".
StartFailureReported ==
    \A w \in Workers :
        worker[w].pc = "finished" =>
            CheckTaskStatusReply(worker[w].task) # "waiting"

\* "the bool represents that the node is healthy ... we return -1 as the process
\* is no longer active".
HealthTracksNode ==
    \A lf \in Launches :
        CheckHealthReply(lf) = "healthy" => group[childPids[lf]] = "live"

=============================================================================
