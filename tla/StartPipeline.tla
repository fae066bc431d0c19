--------------------------- MODULE StartPipeline ---------------------------
(***************************************************************************)
(* What the goroutine of StartService does before there is a process: find *)
(* or clone the project, pull, prepare a virtual environment, build,       *)
(* source, launch (src/connection/api.go, service.go and                   *)
(* src/utility/fileHandler.go).  ShimService sees all of this as           *)
(* PrepareDone or PrepareFails; here the tasks, ids and pids are left out. *)
(*                                                                         *)
(* Goroutines share two things without any lock: the work directory of a   *)
(* project, and the one field venvPath of the server's RosNodeInfo, which  *)
(* InitVenvAndRequirements writes and later steps of every goroutine read. *)
(*                                                                         *)
(* Commands (git, colcon, pip) are the environment: each may succeed or    *)
(* fail.  git clone takes two steps, because what it decides at its first  *)
(* look at the directory it acts on at its end; the other commands take    *)
(* one.  A source tree is the number of commits it contains; launch file   *)
(* lf is in it from commit Since[lf] on.                                   *)
(***************************************************************************)
EXTENDS Naturals, FiniteSets

CONSTANTS
    Workers,       \* goroutines
    Projects,      \* work packages, each with its own repository
    Launches,      \* launch files
    Since,         \* [Launches -> commit that brings the launch file]
    MaxCommits,    \* bound: commits in a repository
    Requirements,  \* projects with a requirements.txt
    Venvs,         \* the values of VenvRequired the controller uses
    Ros2Script,    \* is ROS2_PATH a script (or the directory README.md gives)?
    Waits,         \* which starts the controller lets end before it asks for
                   \* the next: "all", those of the same "project", or "none"
    None           \* "no path yet"

ASSUME PipelineAssumption ==
    /\ MaxCommits \in Nat \ {0}
    /\ Since \in [Launches -> 1 .. MaxCommits]
    /\ Requirements \subseteq Projects
    /\ Venvs \subseteq BOOLEAN
    /\ Ros2Script \in BOOLEAN
    /\ Waits \in {"all", "project", "none"}
    /\ None \notin Projects

VARIABLES
    upstream,      \* [Projects -> commits in the remote repository]
    disk,          \* [Projects -> the work directory]
    venvPath,      \* RosNodeinfo.venvPath: the project whose venv it names
    launchFiles,   \* RosNodeinfo.LaunchFiles
    worker         \* the goroutines

vars == <<upstream, disk, venvPath, launchFiles, worker>>

\* checkout   commits in the clone, 0 if there is none
\* build      build/ exists and is not empty
\* install    commits contained in install/ by the last successful build
\* setup      install/setup.bash exists
\* activate   venv/bin/activate exists
\* installed  projects whose requirements were installed into this venv
NoDirectory == [checkout |-> 0, build |-> FALSE, install |-> 0, setup |-> FALSE,
                activate |-> FALSE, installed |-> {}]

\* A slot is used once.  "used" is what StartLaunch was called with.
Idle == [pc |-> "idle", project |-> None, launch |-> None, venv |-> FALSE,
         wasBuilt |-> FALSE,
         used |-> [venv |-> None, install |-> 0]]

Stages == {"verify", "clone", "cloning", "pull", "venvPath", "venvCreate", "pip",
           "checkBuild", "build", "source", "rebuild", "sourceAgain", "launch"}

Init ==
    /\ upstream = [pr \in Projects |-> 1]
    /\ disk = [pr \in Projects |-> NoDirectory]
    /\ venvPath = None
    /\ launchFiles = {}
    /\ worker = [w \in Workers |-> Idle]

-----------------------------------------------------------------------------
Active(w) == worker[w].pc \in Stages

At(w, pc) == worker[w].pc = pc

Here(w) == disk[worker[w].project]

Goto(w, pc) == worker' = [worker EXCEPT ![w].pc = pc]

\* updateTaskStatus(taskId, true, "Failed to ...") and return.
Fail(w) == Goto(w, "failed")

OnDisk(w, dir) == disk' = [disk EXCEPT ![worker[w].project] = dir]

\* source <venvPath>: whatever directory the shared field names by now.
VenvSources == venvPath # None /\ disk[venvPath].activate

\* requirements.txt is in the checkout.
HasRequirements(w) == worker[w].project \in Requirements /\ Here(w).checkout > 0

\* source <Ros2Path>/install/setup.bash, or source <Ros2Path>.
Ros2Sources(venv) == IF venv THEN ~Ros2Script ELSE Ros2Script

-----------------------------------------------------------------------------
\* Somebody pushes to a repository.
Push(pr) ==
    /\ upstream[pr] < MaxCommits
    /\ upstream' = [upstream EXCEPT ![pr] = @ + 1]
    /\ UNCHANGED <<disk, venvPath, launchFiles, worker>>

\* What the controller waits for before it asks for a start of project pr.
MayBegin(pr) ==
    \A v \in Workers :
        Active(v) => \/ Waits = "none"
                     \/ Waits = "project" /\ worker[v].project # pr

Begin(w, pr, lf, venv) ==
    /\ At(w, "idle")
    /\ MayBegin(pr)
    /\ worker' = [worker EXCEPT ![w] = [Idle EXCEPT !.pc = "verify",
                                                    !.project = pr,
                                                    !.launch = lf,
                                                    !.venv = venv]]
    /\ UNCHANGED <<upstream, disk, venvPath, launchFiles>>

\* Exists and IsFolderNotEmpty on the work directory.
HasFiles(w) == Here(w) # NoDirectory

\* CheckLaunchDir: some launch directory in the checkout has the file.
HasLaunchFile(w) == Since[worker[w].launch] <= Here(w).checkout

\* VerifyProjectExistence
ProjectExists(w) == HasFiles(w) /\ HasLaunchFile(w)

Verify(w) ==
    /\ At(w, "verify")
    /\ Goto(w, IF ProjectExists(w) THEN "pull" ELSE "clone")
    /\ UNCHANGED <<upstream, disk, venvPath, launchFiles>>

AfterFetch(w) == Goto(w, IF worker[w].venv THEN "venvPath" ELSE "checkBuild")

\* Broken variant: the directory is not looked at.
CloneBeginsAnyhow(w) ==
    /\ At(w, "clone")
    /\ Goto(w, "cloning")
    /\ UNCHANGED <<upstream, disk, venvPath, launchFiles>>

\* git clone goes on only in a directory that does not exist or is empty.
CloneBegins(w) ==
    /\ At(w, "clone")
    /\ ~HasFiles(w)
    /\ Goto(w, "cloning")
    /\ UNCHANGED <<upstream, disk, venvPath, launchFiles>>

\* The clone, into which no other clone has come.
Clone(w) ==
    /\ At(w, "cloning")
    /\ ~HasFiles(w)
    /\ OnDisk(w, [NoDirectory EXCEPT !.checkout = upstream[worker[w].project]])
    /\ AfterFetch(w)
    /\ UNCHANGED <<upstream, venvPath, launchFiles>>

\* git clone refuses the directory, or the repository cannot be reached.
CloneFails(w) ==
    /\ At(w, "clone")
    /\ Fail(w)
    /\ UNCHANGED <<upstream, disk, venvPath, launchFiles>>

\* A clone that has begun fails, and git removes the directory that it took to be
\* its own.
CloneBreaks(w) ==
    /\ At(w, "cloning")
    /\ OnDisk(w, NoDirectory)
    /\ Fail(w)
    /\ UNCHANGED <<upstream, venvPath, launchFiles>>

\* Broken variant: the clone is set back to where it started.
PullResets(w) ==
    /\ At(w, "pull")
    /\ OnDisk(w, [Here(w) EXCEPT !.checkout = 1])
    /\ AfterFetch(w)
    /\ UNCHANGED <<upstream, venvPath, launchFiles>>

\* git pull --rebase: its result is logged and otherwise ignored.
Pull(w) ==
    /\ At(w, "pull")
    /\ \/ /\ Here(w).checkout > 0
          /\ OnDisk(w, [Here(w) EXCEPT !.checkout = upstream[worker[w].project]])
       \/ UNCHANGED disk
    /\ AfterFetch(w)
    /\ UNCHANGED <<upstream, venvPath, launchFiles>>

-----------------------------------------------------------------------------
(***************************************************************************)
(* InitVenvAndRequirements, called only if a venv is required.  The path   *)
(* is written first and read again by each of the two steps that follow.   *)
(***************************************************************************)
AddVenvPathOnce(w) ==        \* broken variant: a path once set is kept
    /\ At(w, "venvPath")
    /\ venvPath' = IF venvPath = None THEN worker[w].project ELSE venvPath
    /\ Goto(w, IF HasRequirements(w) THEN "venvCreate" ELSE "checkBuild")
    /\ UNCHANGED <<upstream, disk, launchFiles>>

AddVenvPathNoRequirements(w) ==  \* broken variant: pip is never reached
    /\ At(w, "venvPath")
    /\ venvPath' = worker[w].project
    /\ Goto(w, "checkBuild")
    /\ UNCHANGED <<upstream, disk, launchFiles>>

AddVenvPath(w) ==
    /\ At(w, "venvPath")
    /\ venvPath' = worker[w].project
    /\ Goto(w, IF HasRequirements(w) THEN "venvCreate" ELSE "checkBuild")
    /\ UNCHANGED <<upstream, disk, launchFiles>>

\* Stat(venvPath), and python3 -m venv <directory>/venv if it is not there.
VenvCreate(w) ==
    /\ At(w, "venvCreate")
    /\ \/ /\ VenvSources
          /\ UNCHANGED disk
          /\ Goto(w, "pip")
       \/ /\ ~VenvSources
          /\ OnDisk(w, [Here(w) EXCEPT !.activate = TRUE])
          /\ Goto(w, "pip")
       \/ /\ ~VenvSources
          /\ UNCHANGED disk
          /\ Fail(w)
    /\ UNCHANGED <<upstream, venvPath, launchFiles>>

\* cd <directory> && source <venvPath> && pip install -r requirements.txt
PipInstall(w) ==
    /\ At(w, "pip")
    /\ HasRequirements(w)
    /\ VenvSources
    /\ disk' = [disk EXCEPT ![venvPath].installed = @ \cup {worker[w].project}]
    /\ Goto(w, "checkBuild")
    /\ UNCHANGED <<upstream, venvPath, launchFiles>>

PipFails(w) ==
    /\ At(w, "pip")
    /\ Fail(w)
    /\ UNCHANGED <<upstream, disk, venvPath, launchFiles>>

-----------------------------------------------------------------------------
(***************************************************************************)
(* IsProjectBuilt, BuildProject, SourceProject.                            *)
(***************************************************************************)
LooksBuilt(dir) == dir.build /\ dir.setup

IsProjectBuilt(w) == LooksBuilt(Here(w))

CheckBuild(w) ==
    /\ At(w, "checkBuild")
    /\ worker' = [worker EXCEPT ![w].wasBuilt = IsProjectBuilt(w),
                                ![w].pc = IF IsProjectBuilt(w) THEN "source"
                                                               ELSE "build"]
    /\ UNCHANGED <<upstream, disk, venvPath, launchFiles>>

\* The part of the command line in front of colcon build.
BuildSources(w) ==
    /\ HasFiles(w)
    /\ Ros2Sources(worker[w].venv)
    /\ worker[w].venv => VenvSources

\* colcon build, called for the first time or because sourcing failed.
Build(w) ==
    /\ At(w, "build") \/ At(w, "rebuild")
    /\ BuildSources(w)
    /\ OnDisk(w, [Here(w) EXCEPT !.build = TRUE, !.setup = TRUE,
                                 !.install = Here(w).checkout])
    /\ Goto(w, IF At(w, "build") THEN "source" ELSE "sourceAgain")
    /\ UNCHANGED <<upstream, venvPath, launchFiles>>

\* Broken variant of BuildFails: the result of the build is not looked at.
BuildFailsIgnored(w) ==
    /\ At(w, "build") \/ At(w, "rebuild")
    /\ OnDisk(w, [Here(w) EXCEPT !.build = TRUE, !.setup = TRUE])
    /\ Goto(w, "source")
    /\ UNCHANGED <<upstream, venvPath, launchFiles>>

\* A failed colcon build leaves build/ behind, and setup.bash or not.
BuildFails(w) ==
    /\ At(w, "build") \/ At(w, "rebuild")
    /\ IF BuildSources(w)
       THEN \E setup \in {Here(w).setup, TRUE} :
               OnDisk(w, [Here(w) EXCEPT !.build = TRUE, !.setup = setup])
       ELSE UNCHANGED disk
    /\ Fail(w)
    /\ UNCHANGED <<upstream, venvPath, launchFiles>>

\* source <venvPath> && source <directory>/install/setup.bash
Sources(w) == Here(w).setup /\ (worker[w].venv => VenvSources)

\* The first attempt: a failure leads to a build if there was none yet, and to
\* a second attempt.
Source(w) ==
    /\ At(w, "source")
    /\ Goto(w, CASE Sources(w)                        -> "launch"
                 [] ~Sources(w) /\ worker[w].wasBuilt -> "rebuild"
                 [] OTHER                             -> "sourceAgain")
    /\ UNCHANGED <<upstream, disk, venvPath, launchFiles>>

SourceAgain(w) ==
    /\ At(w, "sourceAgain")
    /\ IF Sources(w) THEN Goto(w, "launch") ELSE Fail(w)
    /\ UNCHANGED <<upstream, disk, venvPath, launchFiles>>

-----------------------------------------------------------------------------
\* The launch file is listed and StartLaunch runs the node with the venv the
\* shared field names and with what is in install/.
StartLaunch(w) ==
    /\ At(w, "launch")
    /\ launchFiles' = launchFiles \cup {worker[w].launch}
    /\ worker' = [worker EXCEPT
                    ![w].pc = "launched",
                    ![w].used = [venv |-> IF worker[w].venv THEN venvPath ELSE None,
                                 install |-> Here(w).install]]
    /\ UNCHANGED <<upstream, disk, venvPath>>

WorkerStep(w) ==
    \/ Verify(w)
    \/ CloneBegins(w) \/ Clone(w) \/ CloneFails(w) \/ CloneBreaks(w)
    \/ Pull(w)
    \/ AddVenvPath(w) \/ VenvCreate(w)
    \/ PipInstall(w) \/ PipFails(w)
    \/ CheckBuild(w)
    \/ Build(w) \/ BuildFails(w)
    \/ Source(w) \/ SourceAgain(w)
    \/ StartLaunch(w)

Next ==
    \/ \E pr \in Projects : Push(pr)
    \/ \E w \in Workers, pr \in Projects, lf \in Launches, venv \in Venvs :
          Begin(w, pr, lf, venv)
    \/ \E w \in Workers : WorkerStep(w)

Spec == Init /\ [][Next]_vars

-----------------------------------------------------------------------------
(***************************************************************************)
(* Properties.                                                             *)
(***************************************************************************)
\* Types, and nothing is checked out or built that was never pushed.
TypeOK ==
    /\ upstream \in [Projects -> 1 .. MaxCommits]
    /\ disk \in [Projects -> [checkout : 0 .. MaxCommits, build : BOOLEAN,
                              install : 0 .. MaxCommits, setup : BOOLEAN,
                              activate : BOOLEAN, installed : SUBSET Projects]]
    /\ \A pr \in Projects : /\ disk[pr].install <= disk[pr].checkout
                            /\ disk[pr].checkout <= upstream[pr]
    /\ venvPath \in Projects \cup {None}
    /\ launchFiles \subseteq Launches
    /\ \A w \in Workers :
          /\ worker[w].pc \in Stages \cup {"idle", "failed", "launched"}
          /\ ~At(w, "idle") => /\ worker[w].project \in Projects
                              /\ worker[w].launch \in Launches
                              /\ worker[w].venv \in Venvs

\* If the controller waits for a start before it asks for another of the same
\* project, nothing that is checked out or built is thrown away, however the
\* goroutines interleave: what git removes after a clone that broke is still as
\* empty as it was when that clone began, although other goroutines prepare venvs
\* and install into whichever project's the shared path names.
WorkIsKept ==
    [][\A pr \in Projects : /\ disk'[pr].checkout >= disk[pr].checkout
                            /\ disk'[pr].install >= disk[pr].install]_vars

\* A goroutine that had to build launches exactly the commits that are checked
\* out: nothing it did since (venv, two builds, two attempts to source) lets an
\* older install directory through.
FreshBuildIsCurrent ==
    [][\A w \in Workers :
          At(w, "launch") /\ At(w, "launched")' /\ ~worker[w].wasBuilt =>
              worker'[w].used.install = Here(w).checkout]_vars

\* A node that wants a venv is launched in its own, although the path to it is
\* one field for all projects.
LaunchesInOwnVenv ==
    \A w \in Workers :
        At(w, "launched") /\ worker[w].venv =>
            worker[w].used.venv = worker[w].project

\* "initializes the venv and install all the dependencies" (service.go): after
\* InitVenvAndRequirements returned true, the venv of the project has what its
\* requirements.txt asks for.
DependenciesInstalled ==
    \A w \in Workers :
        /\ worker[w].pc \in {"checkBuild", "build", "source", "launch"}
        /\ worker[w].venv
        /\ worker[w].project \in Requirements
        => worker[w].project \in Here(w).installed

-----------------------------------------------------------------------------
(***************************************************************************)
(* The preparation of projects as its controller sees it.                  *)
(***************************************************************************)
\* A start is being prepared as long as its goroutine is active.
Starts ==
    [w \in Workers |->
       [is |-> IF Active(w) THEN "preparing" ELSE worker[w].pc,
        of |-> worker[w].project,
        venv |-> worker[w].venv,
        found |-> worker[w].wasBuilt,
        used |-> worker[w].used]]

Checkouts == [pr \in Projects |-> disk[pr].checkout]

Installs == [pr \in Projects |-> disk[pr].install]

Dependencies == [pr \in Projects |-> disk[pr].installed]

Traces == [pr \in Projects |-> LooksBuilt(disk[pr])]

D == INSTANCE Deployments WITH
        commits <- upstream,
        have <- Checkouts,
        built <- Installs,
        deps <- Dependencies,
        traces <- Traces,
        start <- Starts

\* If the controller waits for each start to end, a start touches no project but
\* its own, although all share one path, and a start that has to build runs what it
\* fetched.  A start that finds traces runs what was installed last: those of a
\* build that failed pass for a build, and then this may be nothing at all.
ImplementsDeployments == D!Spec
=============================================================================
