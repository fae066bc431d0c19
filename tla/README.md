# Verification of the ROS shim

TLA+ models of the ROS node shim, the program that runs on a robot's host and
lets a remote controller start, stop and watch ROS 2 nodes over gRPC. TLC checks
the models on small instances; TLAPS proves some of the results for every value
of the constants.

## 1. The system and its parts

| Part | Code | State | Operations |
|---|---|---|---|
| Start-up | `main.go`, `shimHandler.go`, `certificateInit.go`, `fileHandler.go` | the configuration slice, the retry loop | read the configuration, connect to the controller and send the token, receive a port, start the DDS bridge, listen |
| gRPC service | `connection/api.go` | maps `tasks`, `ChildPids`, `connectiondata`, the channel `quit`, the mutex `mu` | `Register`, `StartService`, `StopRosNode`, `RestartService`, `Shutdown`, `RestartRos2Shim`, the status queries |
| Process control | `utility/processHandler.go`, `service.go` (`StartLaunch`) | the operating system's process table | fork a process group, `TerminateProcess`, `IsProcessActive` |
| Preparation of a project | `service.go`, `fileHandler.go`, the goroutine in `StartService` | work directories, the field `venvPath` | verify, clone, pull, venv, build, source, launch |
| Log access | `utility/ros-log-utility.go` | the log files | find a log, read its end |
| Tokens | `utility/tokenHandler.go` | - | parse, verify, expiry |
| DDS bridge | `dds-bridge/ros2bridge.py` | - | forward messages to an HTTP endpoint |
| Generated code | `protoexport/` | - | stubs |

**Interaction.** The controller calls the shim; each RPC is a goroutine of gRPC.
`StartService` answers at once with a task id and leaves a goroutine behind (the
*worker*) that prepares the project, forks the node, writes `ChildPids` and
reports through `tasks`, which the controller polls with `CheckTaskStatus`.
`StopRosNode` looks the pid up, calls `TerminateProcess` (SIGTERM, three seconds
of sleep, SIGKILL if the pid is still in the table) and deletes the entry.
`RestartService` calls both in one handler. `Shutdown` and `RestartRos2Shim`
range over `ChildPids`, terminate every entry and leave a goroutine behind that
ends the process. `tasks` is guarded by `mu`; `ChildPids` is read under `mu` by
some functions, and written without it by the worker and by `StopRosNode`.

**What is hard.** Several handlers and workers on one launch file; a pid kept for
seconds before it is signalled; the moment between fork and `ChildPids`; the
end of the process while workers run; maps without locks; one `venvPath` for all
projects; failed builds that leave traces on disk; a log read backwards in
chunks while it grows, and before that found by the digits of a pid that the code
computes instead of knowing; a configuration read by position. `PROJECT.json`
lists each hazard at its line, with the properties that cover it.

**What makes each part correct.**

* Process control: a signal only reaches groups this shim started; when a stop
  goes on to forget a pid, nothing runs in its group.
* Service: a running node is one the shim knows and can stop; there is at most
  one node per launch file; the queries report it; a task reported done stays as
  it was reported; a task gets an outcome; a shutdown ends the process and leaves
  no node. Taken together: towards its controller the service is a board of tasks
  and a supervisor of nodes.
* Preparation: the node runs in its own venv with its requirements, from what is
  checked out if it had to be built; starts of different projects do not destroy
  each other's work. Taken together: starts that follow each other are deployments,
  each of its own project.
* Log access: the launch log is that of the launch file asked for; no byte skipped
  or read twice, lines in order, no line missing. Taken together: each file is read
  as if at one moment, although it grows.
* Start-up: every position of the slice is what `main` takes it for; the retry
  loop ends, and when.

## 2. The modules

| Module | Models | Extends |
|---|---|---|
| `ProcessGroups` | the process table: `Fork`, `KillIfActive` (second half of `TerminateProcess`), `IsProcessActive`, exits, foreign processes, adoption by init | - |
| `ShimService` | `LogServiceServer` with its workers and handlers | `ProcessGroups` |
| `TaskBoard` | abstract: what polling `CheckTaskStatus` promises | - |
| `NodeSupervisor` | abstract: what start, stop and exit of nodes promise | - |
| `ShimRefinements` | the two instances and their refinement mappings | `ShimService` |
| `MCShimService` | symmetry sets for TLC | `ShimRefinements` |
| `ShimServiceProofs` | theorems for every controller | `ShimService`, `TLAPS` |
| `ShimDisciplineProofs` | theorems for a controller that restrains itself, the refinements | `ShimRefinements`, `ShimServiceProofs` |
| `ShimSerialProofs` | theorems for a controller that does one thing at a time | `ShimDisciplineProofs` |
| `StartPipeline`, `MCStartPipeline` | what a worker does before there is a process | - |
| `Deployments` | abstract: what starts that follow each other promise; `StartPipeline` has the mapping | - |
| `StartPipelineProofs` | theorems about `StartPipeline` | `StartPipeline`, `TLAPS` |
| `TailReader` | abstract: what a call of `ReadFromLog` promises | - |
| `LogTail` | `ReadFromLog`, and the mapping to `TailReader` | - |
| `GetLogs` | the RPC `GetLogs`: from an entry of `ChildPids` to the two logs read | `LogTail` |
| `LogLinesProofs` | lemmas: sets of offsets in order, the lines of a chunk, the lines of two adjacent parts of a file | `LogTail`, `TLAPS` |
| `LogTailProofs`, `GetLogsProofs` | theorems about `LogTail` and `GetLogs` | `LogLinesProofs`; `GetLogs`, `LogTailProofs` |
| `ShimStartup` | from `main` to the listening server | - |
| `ShimStartupProofs` | theorems about `ShimStartup` | `ShimStartup`, `TLAPS` |

Two modules compose: `ShimService`, whose actions are conjunctions of a step of a
handler and a step of `ProcessGroups`, and `GetLogs`, whose handler runs
`LogTail` twice. `StartPipeline` refines a
single step of it (`PrepareDone` or `PrepareFails`) and shares no variable with
it, because the steps it describes touch neither `tasks` nor `ChildPids`.

Operators whose comment says *broken variant* are plausible mistakes in the
code. No specification uses them; replacing the operator below by one of them
must make a property fail, and does (the list is in `PROJECT.json`).

### ProcessGroups and ShimService

`StartLaunch` runs `bash -c "nohup bash -c '...' & echo $!"` with `Setpgid` and
`Start`, never `Wait`. So the pid that the shim keeps is that of a bash that
leads the group and exits at once, and remains a zombie. That is why there are
five conditions of a pid (`free`, `live`, `dead`, `orphan`, `foreign`), why
`kill(pid, 0)` succeeds on `dead`, and why a pid is not given away while the shim
lives. SIGTERM has no action of its own: a node may exit at any time
(`NodeExits`), and may ignore SIGTERM for all three seconds.

An action of `ShimService` is what a goroutine does between two points at which
others can be observed: entry of the handler, the sleep in `TerminateProcess`,
each access to a shared map.

| Code | Actions |
|---|---|
| `StartService` | `StartService` (id, new task, `go func`); the worker: `PrepareDone`/`PrepareFails`, `Launch`/`LaunchFails`, `Record` (write of `ChildPids`), `Report` |
| `StopRosNode` | `StopRosNode` (lookup, SIGTERM), `StopKill`, `StopDelete` |
| `RestartService` | the three above with `op = "restart"`, then `RestartStart` |
| `Shutdown`, `RestartRos2Shim` | `RangeBegin`, `RangeNext`, `RangeKill`, `RangeDone` |
| the goroutines they leave behind | `QuitSignal`; `Reexec`, `ReexecFails` |
| `StartGrpcCommunication` | `Boot`, `Signal`, `Exit` |
| `Register` | `Register` |
| Go's fatal error on a concurrent map access | `MapFault` |
| `generateNewTaskId` | `NewTaskIds` |
| `CheckTaskStatus`, `CheckHealthRosNode`, `CheckHealthRosNodes`, `GetChildPids`, `GetAmountOfChilds` | `CheckTaskStatusReply`, `CheckHealthReply`, `CheckHealthRosNodesReply`, `GetChildPidsReply`, `GetAmountOfChildsReply` (state functions) |

A range over a map follows the Go specification: an entry that was there at the
start and has not been deleted is produced exactly once (`owed`), one that was
added meanwhile may or may not be.

The controller is not in this repository. `Discipline` says how much it waits:
`free` (anything at any time), `perLaunch` (one operation at a time per launch
file), `serial` (one operation at a time). `IdsCollide` says whether
`generateNewTaskId`, which draws from about a thousand values per second and does
not look the id up, may return an id in use.

### TaskBoard, NodeSupervisor and ShimRefinements

`TaskBoard` is what a controller that polls may rely on: a task is unknown, then
waiting, then decided, one task at a time, and everything is forgotten at once.
The mapping (`Board`) sends the map `tasks` and the state of the process to the
replies of `CheckTaskStatus`. Where ids may collide (`Reuse`, mapped to
`IdsCollide`) a task may be begun anew or decided again, and what is left of the
promise is that an id nobody was given stays unknown, that a step changes one answer
at most, and that there are no other answers. A start whose process cannot be created leaves its
task waiting (see `ShimStartFailure`), which `TaskBoard` allows.

`NodeSupervisor` has, per launch file, the groups whose node runs and the pid that
a stop would act on. It starts a node only where none runs and none is known,
learns no pid but that of the node it started, and forgets a pid only when its
node no longer runs. The mapping is `RunningNodes` and `ChildPids` itself. The
order kill, delete in `StopRosNode` and the exits of nodes at any moment are what
makes this more than a restatement: between `Launch` and `Record` a node may come,
go and still be learnt.

Both are checked as properties of `ShimPerLaunch`, the board in `ShimFree` too, and
proved.

### StartPipeline

A work directory is a record: commits in the checkout, traces of a build, commits
in `install/`, whether there is a venv and what was installed into it. A source
tree is the number of commits it contains, and a launch file arrives with one of
them. `venvPath` is one variable for all goroutines, as in the code.
`ROS2_PATH` may be a script or a directory (`Ros2Script`), since `BuildProject`
uses it in both ways. `git clone` takes two steps: it looks at the directory
(`CloneBegins`), and later fills it (`Clone`) or breaks and removes it
(`CloneBreaks`). Two clones of one project can therefore both find it empty. The
other commands (git pull, colcon, pip) are one step each: two of them interleave,
but the inside of a command does not. `Waits` says which starts the controller lets
end before it asks for the next one: all, those of the same project, or none.

`Deployments` is what this amounts to for a controller that waits for each start:
per project, the commits fetched, the commits in the last successful build, the
requirements in its venv, and whether there are traces of a build; per start,
whether it is under way, failed or launched, and with what. There is no shared path
and no stage in it, no second attempt to source. A step is about one project, that
of the start which makes it, and `Launch` requires that the node gets the venv of
its project with the requirements in it. What it runs is what was fetched, if the
start had to build. If it found traces it is what was built last; and since a build
that fails may leave the same traces (`Fail`), this may be older than what was
fetched, and even nothing: the specification says so rather than promise more than
the code does. The mapping (`Starts`, `Checkouts`, `Installs`, `Dependencies`,
`Traces`) hides `venvPath` and the rest of a directory.

### LogTail

A file is its size and the set of offsets that hold a newline, a line is a pair
of offsets, and one iteration of the loop is one step; opening and sizing the file
come before it and may fail. A read may fail too (`ReadFails`), and then what was
collected is lost; at the end of the file, which only the first read of an empty
file meets, it returns nil as well (`ReadEOF`). The node appends a byte at any
time. `reads` is a history of the intervals read, only there to state properties;
`pc` distinguishes the two ways to return nil for the same reason. `Split` is a
sequence computed from the set of newlines (`Ascending`), not a loop, so that it
can be reasoned about.

`TailReader` is what a caller may rely on: after the file was sized, one atomic
read of the bytes from some offset to some end, no earlier than the size taken, with
enough lines or from the front of the file; or a failure. A reply is
known by the newlines that end its lines. That several reads of a growing file
amount to this is not obvious from the code: the chunks must meet, and only the
first of them may reach beyond the size that was taken.

### GetLogs

`ChildPids` has the pid of the bash that leads a group, and the hour at which the
worker noted it. The handler adds one to the pid (`SoughtPid`), looks for a
directory whose name has the hour and ends in the digits of that number
(`FindLogFile`), takes the node's pid from the log in it (`ExtractPIDFromLog`),
looks for a file with those digits in its name (`GetLogFilename`) and reads the
end of both (`ReadFromLog`). Each of the first three may fail although what it looks
for is there (`LookupFails`): the walk of `FindLogFile` goes on after a find and
returns an error if it meets one, and a log may not be readable.

Around the handler the host goes on, one fork at a time: leaders, their
`ros2 launch`, nodes, one `ros2 launch` of somebody else that logs to the same place
(`ForkOtherLaunch`), other processes; the clock may pass the hour between any two
of them; a launch makes its directory, its log, starts the node and has it write.
`dirs` is in the order in which the code walks the directories. An earlier boot of
the host may have left a directory and a log with a pid that comes again
(`Leftovers`); its hour is one before that of this boot or, after a reboot within
the hour, the same (names carry the date as well, so no other hour of this boot's).

Digits are arithmetic: the digits of q end in those of p if q is p modulo a power
of the base greater than p. `Powers` is a constant, so that TLC can use a small
base.

Once both files are found, what is read depends on their bytes only. The model
then forgets host and lookup, which keeps the state space of the reads apart from
that of the lookup. A behaviour has one call, and a launch file is started once.

### ShimStartup

The configuration file is the set of keys that have a usable line, the value of
the flag and whether the path of ROS 2 is empty. Every step of `main`,
`ReadConfigFile` and `SetUpCertificate` that can end the process is an action.
`main` ignores the error of `ReadConfigFile` and indexes the slice, so that a nil
slice, or one without the two last positions, ends in a panic (`IndexPanic`,
`StartBridge`). Time is counted with the constants of the code. A dial may succeed or fail:
`DialContext` is called without `WithBlock`, and what it makes of the context of
ten seconds that all attempts share depends on the library.

## 3. What is checked

With two workers the longest runs (`ShimLive`, `PipelineSerial`,
`PipelineConcurrent`) take TLC one to two and a half minutes, the others a
minute or less.

| Run | Properties | Instance | Shows |
|---|---|---|---|
| `ShimFree` | `TypeOK`, `OwnGroups`, `StopKillsNode`, `KillsOnlyOwn`, `ImplementsTaskBoard` | any controller, ids may collide; 1 launch file, 2 handlers, 2 workers, 3 pids | however handlers and workers interleave, pids held by anyone name the group they were kept for, kills reach only own groups, and a stop has stopped; what polling shows is a board of tasks, begun anew where ids repeat |
| `ShimPerLaunch` | `LiveNodesAreKnown`, `OneNodePerLaunch`, `StopCoversLaunch`, `NoFalseAlarm`, `PidsListedOnce`, `DoneIsFinal`, `ImplementsTaskBoard`, `ImplementsSupervisor` | one operation per launch file, ids do not collide; 2 launch files | a controller that waits per launch file gets what it expects, also while it works on another launch file and across shutdowns; the service implements both abstract specifications |
| `ShimSerial` | `ChildPidsRaceFree`, `ShutdownLeavesNothing` | one operation at a time; 2 launch files, 2 starts of the shim | a worker records before it reports, so that such a controller never makes two goroutines meet in `ChildPids`; and a shutdown then leaves no node |
| `ShimLive` | `ShutdownTerminates`, `StartSettles` | one operation per launch file, fairness | a shutdown ends the process; a worker that is past the preparation gives its task a verdict, unless `StartLaunch` fails |
| `PipelineSerial` | `TypeOK`, `LaunchesInOwnVenv`, `DependenciesInstalled`, `FreshBuildIsCurrent`, `ImplementsDeployments` | 3 starts one after the other; 2 projects, 2 launch files, 2 commits, `ROS2_PATH` a script | the shared `venvPath` does no harm then, no start touches another project, and a start that had to build runs what was fetched |
| `PipelineConcurrent` | `WorkIsKept` | 3 starts, those of different projects in parallel, all with a venv; `ROS2_PATH` a directory | nothing that is checked out or built is thrown away, although clones break and remove the directory |
| `LogTail` (module `GetLogs`) | `TypeOK`, `ChunksTile`, `LinesInOrder`, `CutOnlyAtChunks`, `ReadsBounded`, `OwnLaunchLog`, `ReadEnds`, `ImplementsReader` | 2 launch files and somebody else's launch, 4 pids written in base 3, 2 hours, an earlier boot in the hour before or in the same; chunks of 3, 2 lines wanted, files up to 10 bytes; fairness | whose log `GetLogs` finds, with the exceptions listed below; and that the reads of each file tile its end, number no more than its chunks, lose no line, end, and are to the caller one read |
| `ShimStartup` | `TypeOK`, `PositionsAgree`, `PanicsOnlyOnNil`, `GivesUpOnTime`, `DialingEnds` | up to 3 of 16 keys missing | each position of the slice is what `main` takes it for, and only those of the nil slice panic; the loop ends, after exactly eight minutes |

Four runs expect a violation, each of something a comment says of the code:

| Run | Property | Disagreement |
|---|---|---|
| `ShimStartFailure` | `StartFailureReported` | `StartLaunch` fails, the task is set with `isCompleted = false`, and `CheckTaskStatus` answers "Waiting..." for ever (`api.go:398` against `api.go:320`) |
| `ShimHealth` | `HealthTracksNode` | a node that has exited is healthy as long as the shim lives, because of its leader's zombie (`api.go:573` against `api.go:552`) |
| `PipelineVenvRace` | `DependenciesInstalled` | a second start overwrites `venvPath` between two uses of it by the first, whose requirements go into the other project's venv (`service.go:81` against `service.go:77`) |
| `LogTailWhole` | `WholeLines` | a line that straddles two chunks is cut (`ros-log-utility.go:164` against `:119`) |

Other places where reading the code and its comments side by side leaves a question,
for which there is no run: "generates a new task Id" does not look whether the id is
in use, so that two starts may share one (`api.go:55`); a build that failed may
leave what "checks if the ros project is already build" looks for, so that the next
start launches what was never built (`fileHandler.go:197`); a second start of a
launch file overwrites the entry of the first (`api.go:402`), so that with a
controller that does not wait `StopCoversLaunch` is false; of two clones of one
project at a time the one that breaks removes the checkout of the other
(`service.go:157`), so that `WorkIsKept` is false for a controller that waits for
nothing (`Waits = "none"`); code that `git pull` brings is not built if a build
exists (`api.go:365`); a launch file that is new upstream leads to a clone into the
existing directory (`fileHandler.go:194`); without a venv `ROS2_PATH` itself is
sourced, which the README's example value does not allow (`service.go:63`); more
than ten lines may be returned (`ros-log-utility.go:176`); `DDS_BRIDGE = false`
still asks for `TOPIC` and `ENDPOINT` (`shimHandler.go:144`); the error of
`ReadConfigFile` is ignored and `config[0]` panics (`main.go:24`); a log that was
found is not returned if the walk meets an error afterwards
(`ros-log-utility.go:56`); `Register` is called without a deadline, so that a
controller that takes the call and never answers keeps the shim from starting
(`certificateInit.go:167`).

**What `OwnLaunchLog` leaves out.** The pid after the leader's is that of its `ros2
launch` only if nothing forks in between. If another process does, the log is
normally not found. But if the pid went to the `ros2 launch` of a start that was
begun earlier, or to one that somebody else runs, its log is taken for this one's;
so is one of an earlier boot with that pid, if the host was booted again within the
hour and the entry was noted in that hour. And pids of different length may end in
the same digits. These four exceptions are written into the property, each as narrow
as it can be, and without any of them TLC finds a violation within the bounds of the
run. Starts that do not overlap, a `LogPath` of its own and a host whose pids have
the same number of digits avoid all but the third.

That a log which is there *is* found is not claimed: if the hour passes between the
worker's note and the directory, or if anything in `LogPath` cannot be read, the code
does not find it. For `GetLogFilename`, which compares digits anywhere in a name and
no hour, no property claims anything.

**Bounds.** Two handlers and two workers are the least that let every pair of
operations meet; a third pid lets a pid be free or foreign while both workers have
one. Two launch files let operations on different launch files overlap. A worker
slot is used once, so that `Workers` also bounds the starts of a behaviour;
`MaxBoots` bounds the starts of the shim. Three starts one after the other are
needed for a project built without a venv to meet another project's venv and then
its own; in parallel, two that meet through the shared path and a third that comes
after one of them. Two commits are the least that make a checkout older than its
repository. Files of 10 bytes with chunks of 3 have up to four chunks, the last one
shorter than the others in some cases and not in others. Base 3 with 4 pids has pids
of one and of two digits, and room for two leaders and their launches or for one of
each with a node and a stranger; an earlier boot's pid is one that this boot gives
to a `ros2 launch`, or one that ends in the same digit; two hours let a launch cross
from one to the other. Three missing keys cover every way to lose a required key
together with both optional ones.

**Symmetry** is used in safety runs only; no definition chooses among model
values.

**Deadlock** is not checked where the system does stop: all starts of the
pipeline are over, the log is read and full, the server listens or has exited.

**Fairness.** `ShimService` assumes weak fairness for every worker that is past the
preparation, every handler and the goroutines `QuitSignal` and `Exit`: Go schedules
runnable goroutines, sleeps end, and a full channel is emptied by the receiver in
`StartGrpcCommunication`. Nothing is assumed of the environment: neither that nodes
exit, nor that a controller calls, nor that git, pip or colcon end, which the code
runs without a timeout (`service.go:69`, `:95`, `:104`, `:129`, `:160`, `:206`). A
start may therefore hang in its preparation for ever, and its task with it;
`StartSettles` begins where the preparation is over. A worker need not succeed, it
may fail at each step. Nothing is assumed of `Reexec` either, so
`ShutdownTerminates` speaks of `Shutdown` only. `GetLogs` assumes that the handler
goes on (`HandlerSteps`), not that the host does anything, nor that the node stops
writing or goes on to write, nor that a read or the lookup fails (`FileEvents`).
`ShimStartup` assumes that the shim's own steps go on, not that the controller
answers `Register`.

## 4. What is proved

Everything in this section holds for every value of the constants, under the
assumptions that the modules name and TLC evaluates (`None` is no pid, launch file
or task id; bounds are natural numbers; some power of the base is greater than
every pid; ...), and those written here.

**For every controller** (`ShimServiceProofs`): any sets of pids, launch files,
handlers, workers and task ids, any number of starts of the shim, every
`Discipline`, colliding ids or not:

| Theorem | States |
|---|---|
| `TypeCorrect` | `Spec => []TypeOK` |
| `OwnGroupsAlways` | `Spec => []OwnGroups` |
| `StopKillsNodeAlways` | `Spec => []StopKillsNode` |
| `KillsOnlyOwnAlways` | `Spec => KillsOnlyOwn` |

`TypeOK` is inductive because it contains, next to the types, that a goroutine at
a control point where it uses a pid, a task or a launch file has one.
`OwnGroups` alone is not inductive: a handler that goes on from its delete to
its start keeps a pid, and a group that was killed must not be taken for one
that still has to be. `PidInv` is `TypeOK /\ OwnGroups /\ StopKillsNode`. The
argument: a step moves the process table in one of few ways (`GroupStep`), none
of which gives away a pid that is live or dead or brings a dead group back
(`GroupStepKeeps`); most steps acquire no pid (`NoNewHolderKeeps`); the steps
that do (`Launch`, `Record`, `StopRosNode`, `RangeNext`) take it from somebody
who holds it, or from the fork; and the end of the process leaves no holder
(`PidInvShimGone`). `KillsOnlyOwn` follows because every kill is of a held pid.

**For a controller that restrains itself** (`ShimDisciplineProofs`):

| Theorem | Assumes | States |
|---|---|---|
| `DoneIsFinalAlways` | ids do not collide | `Spec => DoneIsFinal` |
| `TaskBoardImplemented` | - | `Spec => ImplementsTaskBoard` |
| `PidsListedOnceAlways` | finitely many launch files | `Spec => []PidsListedOnce` |
| `LiveNodesAreKnownAlways`, `OneNodePerLaunchAlways`, `StopCoversLaunchAlways`, `NoFalseAlarmAlways` | ids do not collide, `Discipline` is not `free` | the invariant of that name |
| `SupervisorImplemented` | the same | `Spec => ImplementsSupervisor` |

Tasks: `TaskInv` says that a worker that has not reported is the only one to hold
its task, that this task is in its first state, and that a shim that is down has
nothing under way. That is why a write of `updateTaskStatus` never meets a verdict
(`DoneIsFinal`), and why each step moves one place of the board. Where ids collide
`TypeOK` is enough: whatever the entry of an id was, the board with `Reuse` lets it
be begun anew or decided again.

Nodes: `DisciplineInv` is `PidInv /\ TaskInv /\ LaunchInv`. `LaunchInv` says of
each launch file that at most one worker or handler is under way for it, that an
entry of `ChildPids` is there only when no worker is about to write one, and where
a node that runs is known. The two refinements are proved step by step: each
action of `ShimService` is shown to be one of the abstract ones for one launch file
or task, or a stutter.

**One operation at a time** (`ShimSerialProofs`; assumes that ids do not collide
and `Discipline = "serial"`): `ChildPidsRaceFreeAlways` and
`ShutdownLeavesNothingAlways`. `SerialInv` adds to `DisciplineInv` that at most one
goroutine is under way, the one that `Shutdown` leaves behind included, and that a
range over `ChildPids` still has every node that runs ahead of it or in hand
(`RangeCovers`).

**Preparation** (`StartPipelineProofs`), for any number of goroutines, projects,
launch files and commits:

| Theorem | Assumes | States |
|---|---|---|
| `PipelineTypes` | - | `Spec => []TypeOK` |
| `WorkIsKeptAlways` | `Waits` is not `"none"` | `Spec => WorkIsKept` |
| `LaunchesInOwnVenvAlways`, `DependenciesInstalledAlways`, `FreshBuildIsCurrentAlways` | `Waits` is `"all"` | the property of that name |
| `DeploymentsImplemented` | the same | `Spec => ImplementsDeployments` |

`TypeOK` contains that no more is installed than is checked out and no more is
checked out than was pushed. Each step of a goroutine keeps that of the directory
it writes, which may be another project's: `PipInstall` goes through the shared path
(`DiskSound`). Every step but one only adds commits (`DiskAdds`). The one is
`CloneBreaks`, which empties a directory. `KeepInv` says that it was empty: for a
controller that waits per project at most one goroutine works on a project
(`Exclusive`), and while it clones there is nothing in the directory
(`ClonesAreAlone`). The second part needs that the goroutines of *other* projects
leave an empty directory alone although the shared path may name it, which they do
because there is no venv in it to install into (`StaysEmpty`).

For starts that follow each other, `SerialInv` says of the one goroutine that is
active what it has achieved so far (`Progress`): the shared path is its own, its
requirements are in its venv, and after a build of its own what is installed is what
is checked out; and that it has a checkout once it is past the clone (`Fetched`).

For the refinement this is not enough. That a venv has what its project asks for
and nothing else (`OwnDependencies`) depends on every earlier start, and needs
that a directory without a checkout has no requirements installed; and a goroutine
must not have noted an earlier build before it looked, must want a venv when it
prepares one, and must leave the traces of a build when it launches (`Orderly`).
`DeployInv` is `SerialInv` and `KeepInv` with these. Each action is then a `Fetch`,
`Install`, `Find`, `Build`, `Fail` or `Launch` of its own project, or a stutter
(`Deploys`); a venv that is created does not show, and of a build that fails only
the traces do (`HiddenWrite`).

**Logs** (`LogTailProofs`, `GetLogsProofs`):

| Theorem | States |
|---|---|
| `TailTypes`, `ChunksTileAlways`, `LinesInOrderAlways`, `CutOnlyAtChunksAlways`, `ReadsBoundedAlways` | `Spec => []` of the property of that name, for `LogTail` |
| `ReaderImplemented` | `Spec => ImplementsReader` |
| `RepliesTypes`, `RepliesTile`, `RepliesInOrder` | the same properties of `SpecGetLogs`: for both reads of a call |
| `RepliesAreReads` | `SpecGetLogs => ImplementsReader` |
| `OwnLaunchLogAlways` | `SpecGetLogs => []OwnLaunchLog` |

The inductive invariant is `TailInv`, which is `TypeOK /\ ChunksTile /\ LoopInv /\
ReadInv /\ ReadsBounded`. `LoopInv` is about offsets: while the loop runs, the next
chunk ends where the last one began, and only full chunks have been read, counted
from the size taken at the beginning; that the shrunken buffer in front of the
file fits is what the step of `MoveBack` has to establish. `ReadInv` is about
lines: they are exactly those that end between the first and the last byte read
(`Covers`), and begin after a newline or with a chunk (`Begins`). The step puts the
lines of one more chunk in front, and rests on `SplitCovers` (the lines of a chunk
are those that end in it) and `CoversJoin` (lines of adjacent parts make up
the lines of both), which in turn need that a finite set of offsets can be put in
order (`SortsExist`, by a least counterexample, since the library's rule for
induction cannot be instantiated by the installed provers). A byte that the node appends lies behind all that was read, so
it disturbs neither.

For `ReaderImplemented`, the last `ReadChunk` is the one `Return` of `TailReader`
and the earlier ones are stutters. The reply consists of the newlines between the
first and the last byte read as they are *then*; that `Return` may use the file of
that moment follows since nothing is written into a part that is there.

For the lookup, `LookupInv` says that pids come in the order of the forks
(`PidOrder`) and stay below `MaxPid`, that a directory is an earlier boot's or has its launch's pid in its
name, and that what the handler has found fits the entry it has read. A number
that ends in the digits of another one of the same width is that number
(`SameWidthSame`), so the directory found is that of the launch with the pid after
the leader's; whose launch that can be, if it is not the leader's own, is what the
exceptions of `OwnLaunchLog` state: one of the shim's, whose leader came earlier and
which came later, somebody else's, or an earlier boot's, whose hour is that of the
entry and so the first one.

**Start-up** (`ShimStartupProofs`), for any number of missing keys: `TypeCorrect`,
`PositionsAgreeAlways`, `PanicsOnlyOnNilAlways`, `GivesUpOnTimeAlways`. The slice is nil
or what `ReadConfigFile` made of the file, which does not change (`StartInv`);
`ResultFits` looks at it position by position, and says that it is nil, or has
fourteen positions and no bridge is wanted, or has sixteen. The count of failures is at most
eight because a dial is made before the end of the eight minutes and the clock is
a minute per failure, so the branch with the long pause is never taken.

**Only model-checked.** The liveness properties (`ShutdownTerminates`,
`StartSettles`, `ReadEnds`, `DialingEnds`), which are beyond the prover. Of
`ReadEnds` the part that is not about fairness is proved: `ReadsBounded`. Every
safety property and every refinement that a passing run checks is a theorem. The
four runs that expect a violation show counterexamples, of which there is nothing
to prove.

## 5. What is not modelled

* Tokens and TLS: a token or a certificate is accepted or not. The validity
  check of `connectiondata` is one flag, since one controller is modelled.
* The computation of task ids (a sum of random numbers, then a hash): only that
  it looks no id up, so that ids may collide.
* The health service of gRPC (registered in `api.go:744`). `GracefulStop`
  (`api.go:758`) waits for its streams too, so a caller that keeps a `Watch` open
  keeps the process from ending; `ShutdownTerminates` says nothing of that.
* The branch in which `TerminateProcess` returns false because a signal could not
  be sent (`processHandler.go:49`), and with it the error "shutdown did not succeed"
  (`api.go:293`): the leader is a zombie that nobody reaps, so that SIGKILL finds
  its group.
* The inside of commands: a checkout that is half there while `git clone` runs, two
  `colcon build` in one directory.
* Which error ends a lookup (`ros-log-utility.go:41`, `:91`-`:111`): all are one
  failing step (`LookupFails`), or a launch log that names no node.
* Utilisation queries: reads of operating system counters that change nothing.
  Their unlocked read of `ChildPids` is part of `ChildPidsRace`.
* `CheckHealth`, which answers that the server answers; `CheckPids`, which
  implements no declared RPC; `UpdateChildPid`, `CleanProject`, `RemoveFile` and
  `CheckRequirementsExists`, which have no caller; `DeRegister`, a stub.
* `LaunchFiles` is read only to decide whether to append to it, so an append that
  two goroutines lose has no effect to state.
* The pause of half a second after each entry and before the signal in
  `Shutdown`: time is not modelled there, any delay is possible.
* The bridge's callback, which posts each message and keeps nothing, and the
  generated code.

The generated code is almost half of the lines of the implementation, and next to
it stand reads of operating system counters, token parsing and log messages. What
is left without a module has no state of its own that a step could get wrong.

## 6. Plan

Done: the core (`ProcessGroups`, `ShimService`), its abstract specifications and
the refinements; the pipeline and `Deployments`; `GetLogs` with the log tail and
`TailReader`; the start-up; and the proofs of all safety properties and of the four
refinements.

Left: the proofs could say more of concurrent starts (which steps of two starts on
different projects commute, and that the path is all they share), and of
`ShutdownTerminates` a measure that every step of the ending process decreases. Of
the models, two controllers, if the shim is to serve more than one, in which
`connectiondata` is a map and not a flag.
