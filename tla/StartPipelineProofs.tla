------------------------ MODULE StartPipelineProofs ------------------------
(***************************************************************************)
(* What StartPipeline says of the goroutines that prepare projects, for    *)
(* any number of them, of projects, of launch files and of commits: if no  *)
(* two prepare the same project, nothing that is checked out or built is   *)
(* thrown away; and if they come one at a time, each of them launches in   *)
(* its own venv, with its requirements, and what it has just built.        *)
(***************************************************************************)
EXTENDS StartPipeline, TLAPS

Directory == [checkout : 0 .. MaxCommits, build : BOOLEAN,
              install : 0 .. MaxCommits, setup : BOOLEAN,
              activate : BOOLEAN, installed : SUBSET Projects]

Points == Stages \cup {"idle", "failed", "launched"}

Goroutine == [pc : Points, project : Projects \cup {None},
              launch : Launches \cup {None}, venv : BOOLEAN, wasBuilt : BOOLEAN,
              used : [venv : Projects \cup {None}, install : 0 .. MaxCommits]]

\* A goroutine that has begun has what StartService was called with.
Called(w) ==
    /\ worker[w].project \in Projects
    /\ worker[w].launch \in Launches
    /\ worker[w].venv \in Venvs

TypeInv == TypeOK /\ worker \in [Workers -> Goroutine]

-----------------------------------------------------------------------------
\* The control point of w changes, and nothing else about goroutines.
Moved(w) ==
    /\ worker' \in [Workers -> Goroutine]
    /\ \A v \in Workers \ {w} : worker'[v] = worker[v]
    /\ worker'[w].project = worker[w].project
    /\ worker'[w].launch = worker[w].launch
    /\ worker'[w].venv = worker[w].venv

\* A jump does this and keeps what is known of the build.
LEMMA GotoMoves ==
    ASSUME TypeInv, NEW w \in Workers, NEW pc \in Points, Goto(w, pc)
    PROVE  /\ Moved(w)
           /\ worker'[w].pc = pc
           /\ worker'[w].wasBuilt = worker[w].wasBuilt
           /\ worker'[w].used = worker[w].used
  <1>1. worker' = [worker EXCEPT ![w] = [worker[w] EXCEPT !.pc = pc]]
    BY DEF Goto
  <1>2. worker[w] \in Goroutine
    BY DEF TypeInv
  <1>3. [worker[w] EXCEPT !.pc = pc] \in Goroutine
    BY <1>2 DEF Goroutine
  <1>4. worker'[w] = [worker[w] EXCEPT !.pc = pc]
    BY <1>1 DEF TypeInv
  <1>5. /\ worker'[w].pc = pc /\ worker'[w].project = worker[w].project
        /\ worker'[w].launch = worker[w].launch /\ worker'[w].venv = worker[w].venv
        /\ worker'[w].wasBuilt = worker[w].wasBuilt
        /\ worker'[w].used = worker[w].used
    BY <1>2, <1>4 DEF Goroutine
  <1>6. worker' \in [Workers -> Goroutine]
    BY <1>1, <1>3 DEF TypeInv
  <1>7. \A v \in Workers \ {w} : worker'[v] = worker[v]
    BY <1>1 DEF TypeInv
  <1>8. QED
    BY <1>5, <1>6, <1>7 DEF Moved

\* What is never wrong with a directory.
Sound(dir, pr) ==
    /\ dir \in Directory
    /\ dir.install <= dir.checkout
    /\ dir.checkout <= upstream[pr]

Adds(old, dir) == dir.checkout >= old.checkout /\ dir.install >= old.install

DiskSound ==
    /\ disk' \in [Projects -> Directory]
    /\ \A pr \in Projects : Sound(disk'[pr], pr)

\* Commits are only added, to the directory of the goroutine's own project or,
\* through the shared path, to that of another one.
DiskAdds == \A pr \in Projects : Adds(disk[pr], disk'[pr])

\* Every directory is sound and has the commits it has.
LEMMA SoundDisk ==
    ASSUME TypeInv, NEW pr \in Projects
    PROVE  Sound(disk[pr], pr) /\ Adds(disk[pr], disk[pr])
  <1>1. disk[pr] \in Directory
    BY DEF TypeInv, TypeOK, Directory
  <1>2. QED
    BY <1>1 DEF TypeInv, TypeOK, Sound, Adds, Directory

\* A directory that is replaced by a sound one.
LEMMA DirectoryReplaced ==
    ASSUME TypeInv, NEW pr \in Projects, NEW dir, Sound(dir, pr),
           disk' = [disk EXCEPT ![pr] = dir]
    PROVE  /\ DiskSound
           /\ Adds(disk[pr], dir) => DiskAdds
           /\ disk'[pr] = dir
  <1>1. disk \in [Projects -> Directory]
    BY DEF TypeInv, TypeOK, Directory
  <1>2. disk' \in [Projects -> Directory] /\ disk'[pr] = dir
    BY <1>1 DEF Sound
  <1>3. \A q \in Projects \ {pr} : disk'[q] = disk[q]
    BY <1>1
  <1>4. \A q \in Projects : Sound(disk'[q], q)
    BY <1>2, <1>3, SoundDisk
  <1>5. Adds(disk[pr], dir) => \A q \in Projects : Adds(disk[q], disk'[q])
    BY <1>2, <1>3, SoundDisk
  <1>6. QED
    BY <1>2, <1>4, <1>5 DEF DiskSound, DiskAdds

\* Directories that nobody touches lose nothing.
LEMMA DiskStays ==
    ASSUME TypeInv, UNCHANGED disk
    PROVE  DiskSound /\ DiskAdds
  <1>1. disk \in [Projects -> Directory]
    BY DEF TypeInv, TypeOK, Directory
  <1>2. QED
    BY <1>1, SoundDisk DEF DiskSound, DiskAdds

-----------------------------------------------------------------------------
\* A goroutine that has begun has a project with a sound directory.
LEMMA HereIs ==
    ASSUME TypeInv, NEW w \in Workers, ~At(w, "idle")
    PROVE  /\ Called(w)
           /\ Here(w) \in Directory
           /\ Sound(Here(w), worker[w].project)
           /\ worker[w] \in Goroutine
           /\ upstream[worker[w].project] \in 1 .. MaxCommits
  <1>1. Called(w) /\ worker[w] \in Goroutine
    BY DEF TypeInv, TypeOK, Called
  <1>2. upstream[worker[w].project] \in 1 .. MaxCommits
    BY <1>1 DEF Called, TypeInv, TypeOK
  <1>3. QED
    BY <1>1, <1>2, SoundDisk DEF Called, Here, Sound

\* What every step of a goroutine does.  Only what git does after a clone that
\* broke can lose commits.
Works(w) ==
    /\ Moved(w)
    /\ worker'[w].pc # "idle"
    /\ DiskSound
    /\ CloneBreaks(w) \/ DiskAdds
    /\ UNCHANGED upstream
    /\ venvPath' \in Projects \cup {None}
    /\ launchFiles' \subseteq Launches

\* The two fields of RosNodeinfo have their types.
LEMMA TypePaths ==
    ASSUME TypeInv
    PROVE  venvPath \in Projects \cup {None} /\ launchFiles \subseteq Launches
  BY DEF TypeInv, TypeOK

\* The steps that only go on.
LEMMA JumpWorks ==
    ASSUME TypeInv, NEW w \in Workers, NEW pc \in Points \ {"idle"}, Goto(w, pc),
           UNCHANGED <<upstream, disk, launchFiles>>,
           venvPath' \in Projects \cup {None}
    PROVE  Works(w)
  <1>1. Moved(w) /\ worker'[w].pc = pc
    BY GotoMoves
  <1>2. DiskSound /\ DiskAdds
    BY DiskStays
  <1>3. QED
    BY <1>1, <1>2, TypePaths DEF Works

\* The steps that go on and change a directory.
LEMMA WriteWorks ==
    ASSUME TypeInv, NEW w \in Workers, NEW pc \in Points \ {"idle"}, Goto(w, pc),
           NEW pr \in Projects, NEW dir, Sound(dir, pr), Adds(disk[pr], dir),
           disk' = [disk EXCEPT ![pr] = dir],
           UNCHANGED <<upstream, venvPath, launchFiles>>
    PROVE  Works(w)
  <1>1. Moved(w) /\ worker'[w].pc = pc
    BY GotoMoves
  <1>2. DiskSound /\ DiskAdds
    BY DirectoryReplaced
  <1>3. QED
    BY <1>1, <1>2, TypePaths DEF Works

-----------------------------------------------------------------------------
\* Every step of a goroutine is of one of the two kinds, writes only into its own
\* record, or is the end of a clone that broke.
LEMMA BreakWorks ==
    ASSUME TypeInv, NEW w \in Workers, CloneBreaks(w)
    PROVE  Works(w)
  <1> DEFINE pr == worker[w].project
  <1>1. ~At(w, "idle") /\ Goto(w, "failed") /\ UNCHANGED <<upstream, venvPath, launchFiles>>
    BY DEF CloneBreaks, Fail, At
  <1>2. "failed" \in Points
    BY DEF Points
  <1>3. Moved(w) /\ worker'[w].pc = "failed"
    BY <1>1, <1>2, GotoMoves
  <1>4. pr \in Projects /\ upstream[pr] \in 1 .. MaxCommits
    BY <1>1, HereIs DEF Called
  <1>5. disk' = [disk EXCEPT ![pr] = NoDirectory]
    BY DEF CloneBreaks, OnDisk
  <1>6. Sound(NoDirectory, pr)
    <2>1. 0 \in 0 .. MaxCommits
      BY PipelineAssumption
    <2>2. /\ NoDirectory \in Directory /\ NoDirectory.install = 0
          /\ NoDirectory.checkout = 0
      BY <2>1 DEF NoDirectory, Directory
    <2>3. QED
      BY <1>4, <2>2 DEF Sound
  <1>7. DiskSound
    BY <1>4, <1>5, <1>6, DirectoryReplaced
  <1>8. QED
    BY <1>1, <1>3, <1>7, TypePaths DEF Works

LEMMA FetchWorks ==
    ASSUME TypeInv, NEW w \in Workers, Clone(w) \/ Pull(w)
    PROVE  Works(w)
  <1> DEFINE pr == worker[w].project
             next == IF worker[w].venv THEN "venvPath" ELSE "checkBuild"
  <1>1. ~At(w, "idle") /\ Goto(w, next) /\ UNCHANGED <<upstream, venvPath, launchFiles>>
    BY DEF Clone, Pull, AfterFetch, At
  <1>2. next \in Points \ {"idle"}
    BY DEF Points, Stages
  <1>3. /\ pr \in Projects /\ Here(w) = disk[pr] /\ Here(w) \in Directory
        /\ Sound(Here(w), pr) /\ upstream[pr] \in 1 .. MaxCommits
    BY <1>1, HereIs DEF Called, Here
  <1> HIDE DEF next
  <1>4. CASE Clone(w)
    <2> DEFINE dir == [NoDirectory EXCEPT !.checkout = upstream[pr]]
    <2>1. Here(w) = NoDirectory /\ disk' = [disk EXCEPT ![pr] = dir]
      BY <1>4 DEF Clone, HasFiles, OnDisk
    <2>2. /\ dir \in Directory /\ dir.checkout = upstream[pr] /\ dir.install = 0
      <3>1. 0 \in 0 .. MaxCommits /\ upstream[pr] \in 0 .. MaxCommits
        BY <1>3, PipelineAssumption
      <3>2. NoDirectory \in Directory /\ NoDirectory.install = 0
        BY <3>1 DEF NoDirectory, Directory
      <3>3. QED
        BY <3>1, <3>2 DEF Directory
    <2>3. Sound(dir, pr) /\ Adds(disk[pr], dir)
      <3>1. disk[pr].checkout = 0 /\ disk[pr].install = 0
        BY <1>3, <2>1 DEF NoDirectory
      <3>2. QED
        BY <1>3, <2>2, <3>1 DEF Sound, Adds, Directory
    <2> HIDE DEF dir
    <2>4. QED
      BY <1>1, <1>2, <1>3, <2>1, <2>3, WriteWorks
  <1>5. CASE Pull(w) /\ UNCHANGED disk
    BY <1>1, <1>2, <1>5, TypePaths, JumpWorks
  <1>6. CASE Pull(w) /\ ~UNCHANGED disk
    <2> DEFINE dir == [Here(w) EXCEPT !.checkout = upstream[pr]]
    <2>1. disk' = [disk EXCEPT ![pr] = dir]
      BY <1>6 DEF Pull, OnDisk
    <2>2. /\ dir \in Directory /\ dir.checkout = upstream[pr]
          /\ dir.install = Here(w).install
      BY <1>3 DEF Directory
    <2>3. Sound(dir, pr) /\ Adds(disk[pr], dir)
      BY <1>3, <2>2 DEF Sound, Adds, Directory
    <2> HIDE DEF dir
    <2>4. QED
      BY <1>1, <1>2, <1>3, <2>1, <2>3, WriteWorks
  <1>7. QED
    BY <1>4, <1>5, <1>6

\* Preparing the venv adds to a directory or touches none.
LEMMA VenvWorks ==
    ASSUME TypeInv, NEW w \in Workers,
           AddVenvPath(w) \/ VenvCreate(w) \/ PipInstall(w) \/ PipFails(w)
    PROVE  Works(w)
  <1> DEFINE pr == worker[w].project
  <1>1. ~At(w, "idle")
    BY DEF AddVenvPath, VenvCreate, PipInstall, PipFails, At
  <1>2. /\ pr \in Projects /\ Here(w) = disk[pr] /\ Here(w) \in Directory
        /\ Sound(Here(w), pr)
    BY <1>1, HereIs DEF Called, Here
  <1>3. {"venvCreate", "checkBuild", "pip", "failed"} \subseteq Points \ {"idle"}
    BY DEF Points, Stages
  <1>4. CASE AddVenvPath(w)
    <2>1. PICK pc \in {"venvCreate", "checkBuild"} : Goto(w, pc)
      BY <1>4 DEF AddVenvPath
    <2>2. UNCHANGED <<upstream, disk, launchFiles>> /\ venvPath' = pr
      BY <1>4 DEF AddVenvPath
    <2>3. QED
      BY <1>2, <1>3, <2>1, <2>2, JumpWorks
  <1>5. CASE VenvCreate(w)
    <2>1. PICK pc \in {"pip", "failed"} :
             /\ Goto(w, pc)
             /\ \/ UNCHANGED disk
                \/ OnDisk(w, [Here(w) EXCEPT !.activate = TRUE])
      BY <1>5 DEF VenvCreate, Fail
    <2>2. UNCHANGED <<upstream, venvPath, launchFiles>>
      BY <1>5 DEF VenvCreate
    <2>3. CASE UNCHANGED disk
      BY <1>3, <2>1, <2>2, <2>3, TypePaths, JumpWorks
    <2> DEFINE dir == [Here(w) EXCEPT !.activate = TRUE]
    <2>4. CASE disk' = [disk EXCEPT ![pr] = dir]
      <3>1. /\ dir \in Directory /\ dir.checkout = Here(w).checkout
            /\ dir.install = Here(w).install
        BY <1>2 DEF Directory
      <3>2. Sound(dir, pr) /\ Adds(disk[pr], dir)
        BY <1>2, <3>1 DEF Sound, Adds, Directory
      <3> HIDE DEF dir
      <3>3. QED
        BY <1>2, <1>3, <2>1, <2>2, <2>4, <3>2, WriteWorks
    <2>5. QED
      BY <2>1, <2>3, <2>4 DEF OnDisk
  <1>6. CASE PipInstall(w)
    <2> DEFINE dir == [disk[venvPath] EXCEPT !.installed = @ \cup {pr}]
    <2>1. venvPath \in Projects
      BY <1>6, TypePaths DEF PipInstall, VenvSources
    <2>2. disk[venvPath] \in Directory /\ Sound(disk[venvPath], venvPath)
      BY <2>1, SoundDisk DEF Sound
    <2>3. disk' = [disk EXCEPT ![venvPath] = dir]
      BY <1>6 DEF PipInstall
    <2>4. /\ dir \in Directory /\ dir.checkout = disk[venvPath].checkout
          /\ dir.install = disk[venvPath].install
      BY <1>2, <2>2 DEF Directory
    <2>5. Sound(dir, venvPath) /\ Adds(disk[venvPath], dir)
      BY <2>2, <2>4 DEF Sound, Adds, Directory
    <2>6. Goto(w, "checkBuild") /\ UNCHANGED <<upstream, venvPath, launchFiles>>
      BY <1>6 DEF PipInstall
    <2> HIDE DEF dir
    <2>7. QED
      BY <1>3, <2>1, <2>3, <2>5, <2>6, WriteWorks
  <1>7. CASE PipFails(w)
    <2>1. Goto(w, "failed") /\ UNCHANGED <<upstream, disk, venvPath, launchFiles>>
      BY <1>7 DEF PipFails, Fail
    <2>2. QED
      BY <1>3, <2>1, TypePaths, JumpWorks
  <1>8. QED
    BY <1>4, <1>5, <1>6, <1>7

\* A build, successful or not, only adds to what is installed.
LEMMA BuildWorks ==
    ASSUME TypeInv, NEW w \in Workers, Build(w) \/ BuildFails(w)
    PROVE  Works(w)
  <1> DEFINE pr == worker[w].project
  <1>1. ~At(w, "idle")
    BY DEF Build, BuildFails, At
  <1>2. /\ pr \in Projects /\ Here(w) = disk[pr] /\ Here(w) \in Directory
        /\ Sound(Here(w), pr)
    BY <1>1, HereIs DEF Called, Here
  <1>3. {"source", "sourceAgain", "failed"} \subseteq Points \ {"idle"}
    BY DEF Points, Stages
  <1>4. CASE Build(w)
    <2> DEFINE dir == [Here(w) EXCEPT !.build = TRUE, !.setup = TRUE,
                                      !.install = Here(w).checkout]
    <2>1. PICK pc \in {"source", "sourceAgain"} : Goto(w, pc)
      BY <1>4 DEF Build
    <2>2. disk' = [disk EXCEPT ![pr] = dir] /\ UNCHANGED <<upstream, venvPath, launchFiles>>
      BY <1>4 DEF Build, OnDisk
    <2>3. /\ dir \in Directory /\ dir.checkout = Here(w).checkout
          /\ dir.install = Here(w).checkout
      BY <1>2 DEF Directory
    <2>4. Sound(dir, pr) /\ Adds(disk[pr], dir)
      BY <1>2, <2>3 DEF Sound, Adds, Directory
    <2> HIDE DEF dir
    <2>5. QED
      BY <1>2, <1>3, <2>1, <2>2, <2>4, WriteWorks
  <1>5. CASE BuildFails(w)
    <2>1. Goto(w, "failed") /\ UNCHANGED <<upstream, venvPath, launchFiles>>
      BY <1>5 DEF BuildFails, Fail
    <2>2. CASE UNCHANGED disk
      BY <1>3, <2>1, <2>2, TypePaths, JumpWorks
    <2>3. ASSUME NEW setup \in {Here(w).setup, TRUE},
                 OnDisk(w, [Here(w) EXCEPT !.build = TRUE, !.setup = setup])
          PROVE  Works(w)
      <3> DEFINE dir == [Here(w) EXCEPT !.build = TRUE, !.setup = setup]
      <3>1. /\ dir \in Directory /\ dir.checkout = Here(w).checkout
            /\ dir.install = Here(w).install
        BY <1>2 DEF Directory
      <3>2. Sound(dir, pr) /\ Adds(disk[pr], dir)
        BY <1>2, <3>1 DEF Sound, Adds, Directory
      <3>3. disk' = [disk EXCEPT ![pr] = dir]
        BY <2>3 DEF OnDisk
      <3> HIDE DEF dir
      <3>4. QED
        BY <1>2, <1>3, <2>1, <3>2, <3>3, WriteWorks
    <2>4. QED
      BY <1>5, <2>2, <2>3 DEF BuildFails
  <1>6. QED
    BY <1>4, <1>5

\* The decisions touch no directory.
LEMMA JumpsWork ==
    ASSUME TypeInv, NEW w \in Workers,
           Verify(w) \/ CloneBegins(w) \/ CloneFails(w) \/ Source(w) \/ SourceAgain(w)
    PROVE  Works(w)
  <1>1. PICK pc \in {"pull", "clone", "cloning", "failed", "launch", "rebuild",
                    "sourceAgain"} : Goto(w, pc)
    BY DEF Verify, CloneBegins, CloneFails, Source, SourceAgain, Fail
  <1>2. UNCHANGED <<upstream, disk, venvPath, launchFiles>>
    BY DEF Verify, CloneBegins, CloneFails, Source, SourceAgain
  <1>3. pc \in Points \ {"idle"}
    BY DEF Points, Stages
  <1>4. QED
    BY <1>1, <1>2, <1>3, TypePaths, JumpWorks

\* The two steps that write more of their record.
LEMMA CheckWorks ==
    ASSUME TypeInv, NEW w \in Workers, CheckBuild(w)
    PROVE  /\ Works(w)
           /\ worker'[w].wasBuilt = IsProjectBuilt(w)
           /\ worker'[w].pc = IF IsProjectBuilt(w) THEN "source" ELSE "build"
           /\ worker'[w].used = worker[w].used
  <1>1. ~At(w, "idle") /\ UNCHANGED <<upstream, disk, venvPath, launchFiles>>
    BY DEF CheckBuild, At
  <1>2. Here(w) \in Directory /\ worker[w] \in Goroutine
    BY <1>1, HereIs
  <1> DEFINE b == IsProjectBuilt(w)
             next == IF b THEN "source" ELSE "build"
             rec == [worker[w] EXCEPT !.wasBuilt = b, !.pc = next]
  <1>3. b \in BOOLEAN
    BY <1>2 DEF IsProjectBuilt, LooksBuilt, Directory
  <1>4. next \in Points \ {"idle"}
    BY DEF Points, Stages
  <1>5. worker' = [worker EXCEPT ![w] = rec]
    BY DEF CheckBuild
  <1> HIDE DEF b, next
  <1>6. /\ rec \in Goroutine /\ rec.pc = next /\ rec.wasBuilt = b
        /\ rec.used = worker[w].used
        /\ rec.project = worker[w].project /\ rec.launch = worker[w].launch
        /\ rec.venv = worker[w].venv
    BY <1>2, <1>3, <1>4 DEF Goroutine
  <1> HIDE DEF rec
  <1>7. Moved(w) /\ worker'[w] = rec
    BY <1>5, <1>6 DEF Moved, TypeInv
  <1>8. Works(w)
    BY <1>1, <1>4, <1>6, <1>7, DiskStays, TypePaths DEF Works
  <1>9. QED
    BY <1>6, <1>7, <1>8 DEF b, next

\* The launch notes which venv and which commits it used.
LEMMA LaunchWorks ==
    ASSUME TypeInv, NEW w \in Workers, StartLaunch(w)
    PROVE  /\ Works(w)
           /\ worker'[w].pc = "launched"
           /\ worker'[w].wasBuilt = worker[w].wasBuilt
           /\ worker'[w].used.install = Here(w).install
           /\ worker[w].venv => worker'[w].used.venv = venvPath
  <1>1. /\ ~At(w, "idle") /\ UNCHANGED <<upstream, disk, venvPath>>
        /\ launchFiles' = launchFiles \cup {worker[w].launch}
    BY DEF StartLaunch, At
  <1>2. Here(w) \in Directory /\ worker[w] \in Goroutine /\ worker[w].launch \in Launches
    BY <1>1, HereIs DEF Called
  <1> DEFINE venv == IF worker[w].venv THEN venvPath ELSE None
             used == [venv |-> venv, install |-> Here(w).install]
             rec == [worker[w] EXCEPT !.pc = "launched", !.used = used]
  <1>3. venv \in Projects \cup {None}
    BY TypePaths
  <1>4. used \in [venv : Projects \cup {None}, install : 0 .. MaxCommits]
    BY <1>2, <1>3 DEF Directory
  <1>5. "launched" \in Points
    BY DEF Points
  <1>6. worker' = [worker EXCEPT ![w] = rec]
    BY DEF StartLaunch
  <1>7. used.venv = venv /\ used.install = Here(w).install
    OBVIOUS
  <1> HIDE DEF used, venv
  <1>8. /\ rec \in Goroutine /\ rec.pc = "launched" /\ rec.used = used
        /\ rec.wasBuilt = worker[w].wasBuilt
        /\ rec.project = worker[w].project /\ rec.launch = worker[w].launch
        /\ rec.venv = worker[w].venv
    BY <1>2, <1>4, <1>5 DEF Goroutine
  <1> HIDE DEF rec
  <1>9. Moved(w) /\ worker'[w] = rec
    BY <1>6, <1>8 DEF Moved, TypeInv
  <1>10. Works(w)
    BY <1>1, <1>2, <1>8, <1>9, DiskStays, TypePaths DEF Works
  <1>11. QED
    BY <1>7, <1>8, <1>9, <1>10 DEF venv

\* All steps of a goroutine together.
LEMMA WorkerWorks ==
    ASSUME TypeInv, NEW w \in Workers, WorkerStep(w)
    PROVE  Works(w)
  BY FetchWorks, BreakWorks, VenvWorks, BuildWorks, JumpsWork, CheckWorks, LaunchWorks
     DEF WorkerStep

\* Only a goroutine that is active makes a step.
LEMMA StepIsActive ==
    ASSUME NEW w \in Workers, WorkerStep(w)
    PROVE  Active(w) /\ ~At(w, "idle")
  BY DEF WorkerStep, Verify, CloneBegins, Clone, CloneFails, CloneBreaks, Pull,
         AddVenvPath, VenvCreate, PipInstall, PipFails, CheckBuild, Build,
         BuildFails, Source, SourceAgain, StartLaunch, At, Active, Stages
-----------------------------------------------------------------------------
\* A push adds a commit to a repository.
LEMMA PushGrows ==
    ASSUME TypeInv, NEW pr \in Projects, Push(pr)
    PROVE  TypeInv' /\ UNCHANGED <<disk, venvPath, worker>>
  <1>1. UNCHANGED <<disk, venvPath, launchFiles, worker>>
    BY DEF Push
  <1>2. upstream \in [Projects -> 1 .. MaxCommits]
    BY DEF TypeInv, TypeOK
  <1>3. upstream[pr] + 1 \in 1 .. MaxCommits
    BY <1>2, PipelineAssumption DEF Push
  <1>4. upstream' = [upstream EXCEPT ![pr] = upstream[pr] + 1]
    BY DEF Push
  <1>5. upstream' \in [Projects -> 1 .. MaxCommits]
    BY <1>2, <1>3, <1>4
  <1>6. \A q \in Projects : upstream'[q] >= upstream[q] /\ upstream'[q] \in 1 .. MaxCommits
    BY <1>2, <1>4, <1>5
  <1>7. disk \in [Projects -> Directory]
    BY DEF TypeInv, TypeOK, Directory
  <1>8. ASSUME NEW q \in Projects
        PROVE  disk[q].install <= disk[q].checkout /\ disk[q].checkout <= upstream'[q]
    <2>1. Sound(disk[q], q)
      BY SoundDisk
    <2>2. QED
      BY <1>2, <1>6, <1>7, <2>1 DEF Sound, Directory
  <1>9. \A w \in Workers : At(w, "idle")' <=> At(w, "idle")
    BY <1>1 DEF At
  <1>10. QED
    BY <1>1, <1>5, <1>8, <1>9 DEF TypeInv, TypeOK

\* A goroutine starts where nothing is known of a build.
LEMMA BeginMoves ==
    ASSUME TypeInv, NEW w \in Workers, NEW pr \in Projects, NEW lf \in Launches,
           NEW venv \in Venvs, Begin(w, pr, lf, venv)
    PROVE  /\ UNCHANGED <<upstream, disk, venvPath, launchFiles>>
           /\ worker' \in [Workers -> Goroutine]
           /\ worker'[w].pc = "verify"
           /\ Called(w)'
           /\ \A v \in Workers \ {w} : worker'[v] = worker[v]
  <1> DEFINE rec == [Idle EXCEPT !.pc = "verify", !.project = pr, !.launch = lf,
                                 !.venv = venv]
  <1>1. worker' = [worker EXCEPT ![w] = rec]
        /\ UNCHANGED <<upstream, disk, venvPath, launchFiles>>
    BY DEF Begin
  <1>2. venv \in BOOLEAN /\ 0 \in 0 .. MaxCommits
    BY PipelineAssumption
  <1>3. "verify" \in Points /\ "idle" \in Points
    BY DEF Points, Stages
  <1>4. Idle \in Goroutine
    BY <1>2, <1>3 DEF Idle, Goroutine
  <1>5. /\ rec \in Goroutine /\ rec.pc = "verify"
        /\ rec.project = pr /\ rec.launch = lf /\ rec.venv = venv
    BY <1>2, <1>3, <1>4 DEF Goroutine
  <1> HIDE DEF rec
  <1>6. worker'[w] = rec /\ worker' \in [Workers -> Goroutine]
        /\ \A v \in Workers \ {w} : worker'[v] = worker[v]
    BY <1>1, <1>5 DEF TypeInv
  <1>7. QED
    BY <1>1, <1>5, <1>6 DEF Called

\* Types hold when one goroutine has moved and the directories are sound.
LEMMA TypesAfter ==
    ASSUME TypeInv, NEW w \in Workers,
           DiskSound, UNCHANGED upstream,
           venvPath' \in Projects \cup {None}, launchFiles' \subseteq Launches,
           worker' \in [Workers -> Goroutine],
           \A v \in Workers \ {w} : worker'[v] = worker[v],
           Called(w)'
    PROVE  TypeInv'
  <1>1. disk' \in [Projects -> Directory]
    BY DEF DiskSound
  <1>2. \A pr \in Projects : disk'[pr].install <= disk'[pr].checkout
                             /\ disk'[pr].checkout <= upstream'[pr]
    BY DEF DiskSound, Sound
  <1>3. ASSUME NEW v \in Workers
        PROVE  /\ worker'[v].pc \in Stages \cup {"idle", "failed", "launched"}
               /\ ~At(v, "idle")' => Called(v)'
    <2>1. worker'[v].pc \in Points
      BY DEF Goroutine
    <2>2. CASE v = w
      BY <2>1, <2>2 DEF Points
    <2>3. CASE v # w
      <3>1. worker'[v] = worker[v]
        BY <2>3
      <3>2. ~At(v, "idle") => Called(v)
        BY DEF TypeInv, TypeOK, Called
      <3>3. QED
        BY <2>1, <3>1, <3>2 DEF Points, At, Called
    <2>4. QED
      BY <2>2, <2>3
  <1>4. upstream' \in [Projects -> 1 .. MaxCommits]
    BY DEF TypeInv, TypeOK
  <1>5. QED
    BY <1>1, <1>2, <1>3, <1>4 DEF TypeInv, TypeOK, Directory, Called

\* Types in one step, and that commits are only added unless a clone breaks.
LEMMA TypeStep ==
    ASSUME TypeInv, [Next]_vars
    PROVE  TypeInv' /\ (DiskAdds \/ \E w \in Workers : CloneBreaks(w))
  <1>1. ASSUME NEW pr \in Projects, Push(pr) PROVE TypeInv' /\ DiskAdds
    BY <1>1, PushGrows, DiskStays
  <1>2. ASSUME NEW w \in Workers, NEW pr \in Projects, NEW lf \in Launches,
               NEW venv \in Venvs, Begin(w, pr, lf, venv)
        PROVE  TypeInv' /\ DiskAdds
    <2>1. /\ DiskSound /\ DiskAdds
          /\ venvPath' \in Projects \cup {None} /\ launchFiles' \subseteq Launches
      BY <1>2, BeginMoves, DiskStays, TypePaths
    <2>2. QED
      BY <1>2, <2>1, BeginMoves, TypesAfter
  <1>3. ASSUME NEW w \in Workers, WorkerStep(w)
        PROVE  TypeInv' /\ (DiskAdds \/ CloneBreaks(w))
    <2>1. Works(w)
      BY <1>3, WorkerWorks
    <2>2. ~At(w, "idle")
      BY <1>3, StepIsActive
    <2>3. Called(w)'
      BY <2>1, <2>2, HereIs DEF Works, Moved, Called
    <2>4. QED
      BY <2>1, <2>3, TypesAfter DEF Works, Moved
  <1>4. CASE UNCHANGED vars
    <2>1. DiskAdds
      BY <1>4, DiskStays DEF vars
    <2>2. TypeInv'
      BY <1>4 DEF vars, TypeInv, TypeOK, At
    <2>3. QED
      BY <2>1, <2>2
  <1>5. QED
    BY <1>1, <1>2, <1>3, <1>4 DEF Next

\* The initial states have the types.
LEMMA TypeInit == ASSUME Init PROVE TypeInv
  <1>1. 1 \in 1 .. MaxCommits /\ 0 \in 0 .. MaxCommits
    BY PipelineAssumption
  <1>2. NoDirectory \in Directory /\ NoDirectory.install = 0 /\ NoDirectory.checkout = 0
    BY <1>1 DEF NoDirectory, Directory
  <1>3. Idle \in Goroutine /\ Idle.pc = "idle"
    BY <1>1 DEF Idle, Goroutine, Points
  <1>4. disk \in [Projects -> Directory]
    BY <1>2 DEF Init
  <1>5. worker \in [Workers -> Goroutine] /\ \A w \in Workers : At(w, "idle")
    BY <1>3 DEF Init, At
  <1>6. \A pr \in Projects : /\ disk[pr].install <= disk[pr].checkout
                             /\ disk[pr].checkout <= upstream[pr]
    BY <1>2 DEF Init
  <1>7. QED
    BY <1>1, <1>4, <1>5, <1>6 DEF Init, TypeInv, TypeOK, Directory, At

\* Types, and nothing is checked out or built that was never pushed.
THEOREM PipelineTypes == Spec => []TypeOK
  <1>1. Init => TypeInv
    BY TypeInit
  <1>2. TypeInv /\ [Next]_vars => TypeInv'
    BY TypeStep
  <1>3. TypeInv => TypeOK
    BY DEF TypeInv
  <1>4. QED
    BY <1>1, <1>2, <1>3, PTL DEF Spec

-----------------------------------------------------------------------------
(***************************************************************************)
(* No two goroutines on the same project.                                  *)
(***************************************************************************)
Exclusive ==
    \A v, w \in Workers :
        Active(v) /\ Active(w) /\ worker[v].project = worker[w].project => v = w

\* A clone works in a directory in which there is nothing.
ClonesAreAlone == \A w \in Workers : At(w, "cloning") => ~HasFiles(w)

KeepInv == TypeInv /\ Exclusive /\ ClonesAreAlone

\* Where there is nothing, only the goroutine of that project puts anything: the
\* shared path may name the project, but there is no venv to install into.
LEMMA StaysEmpty ==
    ASSUME TypeInv, NEW v \in Workers, WorkerStep(v), NEW pr \in Projects,
           pr # worker[v].project, disk[pr] = NoDirectory
    PROVE  disk'[pr] = NoDirectory
  <1>1. ASSUME NEW dir, OnDisk(v, dir) PROVE disk'[pr] = disk[pr]
    BY <1>1 DEF OnDisk, TypeInv, TypeOK
  <1>2. CASE UNCHANGED disk
    BY <1>2
  <1>3. CASE PipInstall(v)
    <2>1. disk[venvPath].activate = TRUE
      BY <1>3, TypePaths DEF PipInstall, VenvSources, TypeInv, TypeOK
    <2>2. NoDirectory.activate = FALSE
      BY DEF NoDirectory
    <2>3. venvPath # pr
      BY <2>1, <2>2
    <2>4. disk' = [disk EXCEPT ![venvPath].installed = @ \cup {worker[v].project}]
      BY <1>3 DEF PipInstall
    <2>5. QED
      BY <2>3, <2>4 DEF TypeInv, TypeOK
  <1>4. \/ UNCHANGED disk \/ PipInstall(v) \/ \E dir : OnDisk(v, dir)
    BY DEF WorkerStep, Verify, CloneBegins, Clone, CloneFails, CloneBreaks, Pull,
           AddVenvPath, VenvCreate, PipFails, CheckBuild, Build, BuildFails, Source,
           SourceAgain, StartLaunch
  <1>5. QED
    BY <1>1, <1>2, <1>3, <1>4

\* A clone begins where there is nothing.
LEMMA OnlyCloneBegins ==
    ASSUME TypeInv, NEW w \in Workers, WorkerStep(w), At(w, "cloning")'
    PROVE  ~HasFiles(w) /\ UNCHANGED disk
  <1>1. ASSUME NEW pc \in Points, Goto(w, pc) PROVE pc = "cloning"
    BY <1>1, GotoMoves DEF At
  <1>2. CASE \/ Verify(w) \/ Clone(w) \/ CloneFails(w) \/ CloneBreaks(w) \/ Pull(w)
    <2>1. \E pc \in {"pull", "clone", "venvPath", "checkBuild", "failed"} : Goto(w, pc)
      BY <1>2 DEF Verify, Clone, CloneFails, CloneBreaks, Pull, AfterFetch, Fail
    <2>2. QED
      BY <1>1, <2>1 DEF Points, Stages
  <1>3. CASE AddVenvPath(w) \/ VenvCreate(w) \/ PipInstall(w) \/ PipFails(w)
    <2>1. \E pc \in {"venvCreate", "checkBuild", "pip", "failed"} : Goto(w, pc)
      BY <1>3 DEF AddVenvPath, VenvCreate, PipInstall, PipFails, Fail
    <2>2. QED
      BY <1>1, <2>1 DEF Points, Stages
  <1>4. CASE Build(w) \/ BuildFails(w) \/ Source(w) \/ SourceAgain(w)
    <2>1. \E pc \in {"source", "sourceAgain", "rebuild", "launch", "failed"} : Goto(w, pc)
      BY <1>4 DEF Build, BuildFails, Source, SourceAgain, Fail
    <2>2. QED
      BY <1>1, <2>1 DEF Points, Stages
  <1>5. CASE CheckBuild(w) \/ StartLaunch(w)
    BY <1>5, CheckWorks, LaunchWorks DEF At
  <1>6. CASE CloneBegins(w)
    BY <1>6 DEF CloneBegins
  <1>7. QED
    BY <1>2, <1>3, <1>4, <1>5, <1>6 DEF WorkerStep

\* Every step keeps this and only adds commits.
LEMMA KeepStep ==
    ASSUME Waits # "none", KeepInv, [Next]_vars
    PROVE  KeepInv' /\ DiskAdds
  <1>1. TypeInv /\ TypeInv'
    BY TypeStep DEF KeepInv
  <1>2. DiskAdds
    <2>1. ASSUME NEW w \in Workers, CloneBreaks(w) PROVE DiskAdds
      <3>1. Here(w) = NoDirectory /\ ~At(w, "idle")
        BY <2>1 DEF CloneBreaks, KeepInv, ClonesAreAlone, HasFiles, At
      <3>2. worker[w].project \in Projects
        BY <1>1, <3>1, HereIs DEF Called
      <3>3. UNCHANGED disk
        BY <1>1, <2>1, <3>1, <3>2 DEF CloneBreaks, OnDisk, Here, TypeInv, TypeOK
      <3>4. QED
        BY <1>1, <3>3, DiskStays
    <2>2. QED
      BY <1>1, <2>1, TypeStep
  <1>3. CASE UNCHANGED vars \/ \E pr \in Projects : Push(pr)
    <2>1. UNCHANGED <<disk, worker>>
      BY <1>3 DEF vars, Push
    <2>2. QED
      BY <1>1, <1>2, <2>1 DEF KeepInv, Exclusive, ClonesAreAlone, Active, At, HasFiles, Here
  <1>4. ASSUME NEW w \in Workers, NEW pr \in Projects, NEW lf \in Launches,
               NEW venv \in Venvs, Begin(w, pr, lf, venv)
        PROVE  Exclusive' /\ ClonesAreAlone'
    <2>1. /\ worker'[w].pc = "verify" /\ worker'[w].project = pr
          /\ \A v \in Workers \ {w} : worker'[v] = worker[v]
          /\ UNCHANGED disk
      <3>1. worker' = [worker EXCEPT ![w] = [Idle EXCEPT !.pc = "verify",
                            !.project = pr, !.launch = lf, !.venv = venv]]
        BY <1>4 DEF Begin
      <3>2. worker'[w].project = pr
        BY <1>1, <3>1 DEF TypeInv, Idle
      <3>3. QED
        BY <1>1, <1>4, <3>2, BeginMoves
    <2>2. \A v \in Workers : Active(v) => worker[v].project # pr
      BY <1>4 DEF Begin, MayBegin
    <2>3. Exclusive'
      BY <2>1, <2>2 DEF KeepInv, Exclusive, Active
    <2>4. ClonesAreAlone'
      BY <2>1 DEF KeepInv, ClonesAreAlone, At, HasFiles, Here
    <2>5. QED
      BY <2>3, <2>4
  <1>5. ASSUME NEW v \in Workers, WorkerStep(v) PROVE Exclusive' /\ ClonesAreAlone'
    <2>1. /\ Active(v) /\ worker'[v].project = worker[v].project
          /\ \A w \in Workers \ {v} : worker'[w] = worker[w]
      BY <1>1, <1>5, WorkerWorks, StepIsActive DEF Works, Moved
    <2>2. Exclusive'
      BY <2>1 DEF KeepInv, Exclusive, Active
    <2>3. ASSUME NEW w \in Workers, At(w, "cloning")' PROVE Here(w)' = NoDirectory
      <3>1. CASE w = v
        <4>1. ~HasFiles(w) /\ UNCHANGED disk
          BY <1>1, <1>5, <2>3, <3>1, OnlyCloneBegins
        <4>2. QED
          BY <2>1, <3>1, <4>1 DEF HasFiles, Here
      <3>2. CASE w # v
        <4>1. worker'[w] = worker[w] /\ At(w, "cloning")
          BY <2>1, <2>3, <3>2 DEF At
        <4>2. /\ disk[worker[w].project] = NoDirectory /\ Active(w)
              /\ worker[w].project \in Projects
          BY <1>1, <4>1, HereIs DEF KeepInv, ClonesAreAlone, HasFiles, Here, Active,
                                    Stages, At, Called
        <4>3. worker[w].project # worker[v].project
          BY <2>1, <3>2, <4>2 DEF KeepInv, Exclusive
        <4>4. disk'[worker[w].project] = NoDirectory
          BY <1>1, <1>5, <4>2, <4>3, StaysEmpty
        <4>5. QED
          BY <4>1, <4>4 DEF Here
      <3>3. QED
        BY <3>1, <3>2
    <2>4. QED
      BY <2>2, <2>3 DEF ClonesAreAlone, HasFiles
  <1>6. QED
    BY <1>1, <1>2, <1>3, <1>4, <1>5 DEF Next, KeepInv

\* The initial states have it.
LEMMA KeepInit == ASSUME Init PROVE KeepInv
  <1>1. TypeInv
    BY TypeInit
  <1>2. \A w \in Workers : worker[w].pc = "idle"
    BY DEF Init, Idle
  <1>3. QED
    BY <1>1, <1>2 DEF KeepInv, Exclusive, ClonesAreAlone, Active, Stages, At

\* If no two goroutines prepare the same project, no step loses commits that are
\* checked out or built: not even what git removes after a clone that broke.
THEOREM WorkIsKeptAlways ==
    ASSUME Waits # "none" PROVE Spec => WorkIsKept
  <1>1. Init => KeepInv
    BY KeepInit
  <1>2. KeepInv /\ [Next]_vars => KeepInv'
    BY KeepStep
  <1>3. KeepInv /\ [Next]_vars =>
           [\A pr \in Projects : /\ disk'[pr].checkout >= disk[pr].checkout
                                 /\ disk'[pr].install >= disk[pr].install]_vars
    BY KeepStep DEF DiskAdds, Adds
  <1>4. QED
    BY <1>1, <1>2, <1>3, PTL DEF Spec, WorkIsKept

-----------------------------------------------------------------------------
(***************************************************************************)
(* One goroutine at a time.                                                *)
(***************************************************************************)
AfterPath == {"venvCreate", "pip", "checkBuild", "build", "source", "rebuild",
              "sourceAgain", "launch"}
AfterPip == {"checkBuild", "build", "source", "rebuild", "sourceAgain", "launch"}
AfterBuild == {"source", "sourceAgain", "launch"}

\* The path is that of the one goroutine that needs it, its requirements are in
\* its venv, and if it had to build, what is installed is what is checked out.
Progress(w) ==
    /\ worker[w].pc \in AfterPath /\ worker[w].venv => venvPath = worker[w].project
    /\ worker[w].pc \in AfterPip /\ worker[w].venv
          /\ worker[w].project \in Requirements
          => worker[w].project \in Here(w).installed
    /\ worker[w].pc \in AfterBuild /\ ~worker[w].wasBuilt
          => Here(w).install = Here(w).checkout
    /\ worker[w].pc = "rebuild" => worker[w].wasBuilt
    /\ worker[w].pc = "launched" /\ worker[w].venv
          => worker[w].used.venv = worker[w].project

\* A goroutine past the clone has a checkout.
Fetched(w) ==
    worker[w].pc \in Stages \ {"verify", "clone", "cloning"} => Here(w).checkout > 0

Alone == \A v, w \in Workers : Active(v) /\ Active(w) => v = w

SerialInv == TypeInv /\ Alone /\ \A w \in Workers : Progress(w) /\ Fetched(w)

\* A goroutine that is not active is as it was left.
LEMMA InactiveProgress ==
    ASSUME NEW w \in Workers, ~Active(w), Progress(w), worker'[w] = worker[w]
    PROVE  Progress(w)' /\ Fetched(w)'
  BY DEF Active, Stages, Progress, AfterPath, AfterPip, AfterBuild, Fetched

\* What is checked out stays, and comes with the clone.
LEMMA FetchedStep ==
    ASSUME TypeInv, NEW w \in Workers, Fetched(w), WorkerStep(w)
    PROVE  Fetched(w)'
  <1> DEFINE pr == worker[w].project
  <1>1. Works(w)
    BY WorkerWorks
  <1>2. worker'[w].project = pr /\ pr \in Projects
    BY <1>1, StepIsActive, HereIs DEF Works, Moved, Called
  <1>3. disk[pr] \in Directory /\ upstream[pr] \in 1 .. MaxCommits
    BY <1>2 DEF TypeInv, TypeOK, Directory
  <1>4. CASE Verify(w)
    <2>1. /\ Goto(w, IF ProjectExists(w) THEN "pull" ELSE "clone")
          /\ UNCHANGED disk
      BY <1>4 DEF Verify
    <2>2. worker'[w].pc = IF ProjectExists(w) THEN "pull" ELSE "clone"
      BY <2>1, GotoMoves DEF Points, Stages
    <2>3. worker[w].launch \in Launches
      BY StepIsActive, HereIs DEF Called
    <2>4. ProjectExists(w) => disk[pr].checkout > 0
      BY <1>3, <2>3, PipelineAssumption DEF ProjectExists, HasLaunchFile, Here, Directory
    <2>5. QED
      BY <1>2, <2>1, <2>2, <2>4 DEF Fetched, Here
  <1>5. CASE CloneBegins(w) \/ CloneFails(w) \/ CloneBreaks(w)
    <2>1. PICK pc \in {"cloning", "failed"} : Goto(w, pc)
      BY <1>5 DEF CloneBegins, CloneFails, CloneBreaks, Fail
    <2>2. worker'[w].pc = pc
      BY <2>1, GotoMoves DEF Points, Stages
    <2>3. QED
      BY <2>2 DEF Fetched, Stages
  <1>6. CASE Clone(w)
    <2> DEFINE dir == [NoDirectory EXCEPT !.checkout = upstream[pr]]
    <2>1. disk' = [disk EXCEPT ![pr] = dir]
      BY <1>6 DEF Clone, OnDisk
    <2>2. dir.checkout = upstream[pr]
      BY DEF NoDirectory
    <2> HIDE DEF dir
    <2>3. disk'[pr] = dir
      BY <1>2, <2>1 DEF TypeInv, TypeOK
    <2>4. QED
      BY <1>2, <1>3, <2>2, <2>3 DEF Fetched, Here
  <1>7. CASE worker[w].pc \in Stages \ {"verify", "clone", "cloning"} /\ ~CloneBreaks(w)
    <2>1. disk[pr].checkout > 0
      BY <1>7 DEF Fetched, Here
    <2>2. disk'[pr].checkout >= disk[pr].checkout /\ disk'[pr] \in Directory
      BY <1>1, <1>2, <1>7 DEF Works, DiskSound, DiskAdds, Adds
    <2>3. disk'[pr].checkout > 0
      BY <1>3, <2>1, <2>2 DEF Directory
    <2>4. QED
      BY <1>2, <2>3 DEF Fetched, Here
  <1>8. \/ Verify(w) \/ CloneBegins(w) \/ CloneFails(w) \/ CloneBreaks(w) \/ Clone(w)
        \/ worker[w].pc \in Stages \ {"verify", "clone", "cloning"}
    BY DEF WorkerStep, Pull, AddVenvPath, VenvCreate, PipInstall, PipFails, CheckBuild,
           Build, BuildFails, Source, SourceAgain, StartLaunch, At, Stages
  <1>9. QED
    BY <1>4, <1>5, <1>6, <1>7, <1>8

\* The step of one goroutine.
LEMMA FetchProgress ==
    ASSUME TypeInv, NEW w \in Workers,
           \/ Verify(w) \/ CloneBegins(w) \/ Clone(w) \/ CloneFails(w)
           \/ CloneBreaks(w) \/ Pull(w)
    PROVE  Progress(w)'
  <1>1. CASE Verify(w) \/ CloneBegins(w) \/ CloneFails(w) \/ CloneBreaks(w)
    <2>1. PICK pc \in {"pull", "clone", "cloning", "failed"} : Goto(w, pc)
      BY <1>1 DEF Verify, CloneBegins, CloneFails, CloneBreaks, Fail
    <2>2. worker'[w].pc = pc
      BY <2>1, GotoMoves DEF Points, Stages
    <2>3. QED
      BY <2>2 DEF Progress, AfterPath, AfterPip, AfterBuild
  <1>2. CASE Clone(w) \/ Pull(w)
    <2>1. Goto(w, IF worker[w].venv THEN "venvPath" ELSE "checkBuild")
      BY <1>2 DEF Clone, Pull, AfterFetch
    <2>2. /\ worker'[w].pc = IF worker[w].venv THEN "venvPath" ELSE "checkBuild"
          /\ worker'[w].venv = worker[w].venv
      BY <2>1, GotoMoves DEF Points, Stages, Moved
    <2>3. QED
      BY <2>2 DEF Progress, AfterPath, AfterPip, AfterBuild
  <1>3. QED
    BY <1>1, <1>2

\* The path, then the venv, then the requirements in it.
LEMMA VenvProgress ==
    ASSUME TypeInv, NEW w \in Workers, Progress(w), Fetched(w),
           AddVenvPath(w) \/ VenvCreate(w) \/ PipInstall(w) \/ PipFails(w)
    PROVE  Progress(w)'
  <1>1. CASE AddVenvPath(w)
    <2>1. /\ Goto(w, IF HasRequirements(w) THEN "venvCreate" ELSE "checkBuild")
          /\ venvPath' = worker[w].project /\ worker[w].pc = "venvPath"
      BY <1>1 DEF AddVenvPath, At
    <2>2. /\ worker'[w].pc = IF HasRequirements(w) THEN "venvCreate" ELSE "checkBuild"
          /\ worker'[w].project = worker[w].project
      BY <2>1, GotoMoves DEF Points, Stages, Moved
    <2>3. worker[w].project \in Requirements => HasRequirements(w)
      BY <2>1 DEF Fetched, Stages, HasRequirements
    <2>4. QED
      BY <2>1, <2>2, <2>3 DEF Progress, AfterPath, AfterPip, AfterBuild
  <1>2. CASE VenvCreate(w) \/ PipFails(w)
    <2>1. PICK pc \in {"pip", "failed"} : Goto(w, pc)
      BY <1>2 DEF VenvCreate, PipFails, Fail
    <2>2. /\ worker[w].pc \in {"venvCreate", "pip"}
          /\ venvPath' = venvPath
      BY <1>2 DEF VenvCreate, PipFails, At
    <2>3. /\ worker'[w].pc = pc
          /\ worker'[w].project = worker[w].project
          /\ worker'[w].venv = worker[w].venv
      BY <2>1, GotoMoves DEF Points, Stages, Moved
    <2>4. QED
      BY <2>2, <2>3 DEF Progress, AfterPath, AfterPip, AfterBuild
  <1>3. CASE PipInstall(w)
    <2> DEFINE pr == worker[w].project
               dir == [disk[venvPath] EXCEPT !.installed = @ \cup {pr}]
    <2>1. /\ worker[w].pc = "pip" /\ Goto(w, "checkBuild") /\ venvPath' = venvPath
          /\ venvPath # None /\ disk' = [disk EXCEPT ![venvPath] = dir]
      BY <1>3 DEF PipInstall, VenvSources, At
    <2>2. /\ worker'[w].pc = "checkBuild" /\ worker'[w].project = pr
          /\ worker'[w].venv = worker[w].venv
      BY <2>1, GotoMoves DEF Points, Stages, Moved
    <2>3. venvPath \in Projects
      BY <2>1, TypePaths
    <2>4. disk \in [Projects -> Directory] /\ disk[venvPath] \in Directory
      BY <2>3 DEF TypeInv, TypeOK, Directory
    <2>5. pr \in dir.installed
      BY <2>4 DEF Directory
    <2>6. disk'[venvPath] = dir
      BY <2>1, <2>3, <2>4
    <2> HIDE DEF dir
    <2>7. worker[w].venv => venvPath = pr
      BY <2>1 DEF Progress, AfterPath
    <2>8. worker[w].venv => pr \in disk'[pr].installed
      BY <2>5, <2>6, <2>7
    <2>9. QED
      BY <2>1, <2>2, <2>7, <2>8 DEF Progress, AfterPath, AfterPip, AfterBuild, Here
  <1>4. QED
    BY <1>1, <1>2, <1>3

\* A build installs what is checked out.
LEMMA BuildProgress ==
    ASSUME TypeInv, NEW w \in Workers, Progress(w),
           CheckBuild(w) \/ Build(w) \/ BuildFails(w)
    PROVE  Progress(w)'
  <1> DEFINE pr == worker[w].project
  <1>1. CASE CheckBuild(w)
    <2>1. /\ worker'[w].wasBuilt = IsProjectBuilt(w)
          /\ worker'[w].pc = IF IsProjectBuilt(w) THEN "source" ELSE "build"
          /\ worker'[w].project = pr /\ worker'[w].venv = worker[w].venv
      BY <1>1, CheckWorks DEF Works, Moved
    <2>2. worker[w].pc = "checkBuild" /\ UNCHANGED <<disk, venvPath>>
      BY <1>1 DEF CheckBuild, At
    <2>3. Here(w)' = Here(w)
      BY <2>1, <2>2 DEF Here
    <2>4. QED
      BY <2>1, <2>2, <2>3 DEF Progress, AfterPath, AfterPip, AfterBuild
  <1>2. CASE Build(w)
    <2> DEFINE dir == [Here(w) EXCEPT !.build = TRUE, !.setup = TRUE,
                                      !.install = Here(w).checkout]
    <2>1. /\ worker[w].pc \in {"build", "rebuild"} /\ UNCHANGED venvPath
          /\ disk' = [disk EXCEPT ![pr] = dir]
          /\ Goto(w, IF At(w, "build") THEN "source" ELSE "sourceAgain")
      BY <1>2 DEF Build, OnDisk, At
    <2>2. /\ worker'[w].pc \in {"source", "sourceAgain"}
          /\ worker'[w].project = pr /\ worker'[w].venv = worker[w].venv
          /\ worker'[w].wasBuilt = worker[w].wasBuilt
      BY <2>1, GotoMoves DEF Points, Stages, Moved
    <2>3. pr \in Projects /\ Here(w) \in Directory
      BY <2>1, HereIs DEF Called, At
    <2>4. /\ dir.install = dir.checkout
          /\ dir.installed = Here(w).installed
      BY <2>3 DEF Directory
    <2>5. disk'[pr] = dir
      BY <2>1, <2>3 DEF TypeInv, TypeOK
    <2>6. Here(w)' = dir
      BY <2>2, <2>5 DEF Here
    <2> HIDE DEF dir
    <2>7. QED
      BY <2>1, <2>2, <2>4, <2>6 DEF Progress, AfterPath, AfterPip, AfterBuild
  <1>3. CASE BuildFails(w)
    <2>1. worker'[w].pc = "failed"
      BY <1>3, GotoMoves DEF BuildFails, Fail, Points
    <2>2. QED
      BY <2>1 DEF Progress, AfterPath, AfterPip, AfterBuild
  <1>4. QED
    BY <1>1, <1>2, <1>3

\* Sourcing and launching change no directory.
LEMMA SourceProgress ==
    ASSUME TypeInv, NEW w \in Workers, Progress(w),
           Source(w) \/ SourceAgain(w) \/ StartLaunch(w)
    PROVE  Progress(w)'
  <1>1. CASE Source(w) \/ SourceAgain(w)
    <2>1. PICK pc \in {"launch", "rebuild", "sourceAgain", "failed"} :
             Goto(w, pc) /\ (pc = "rebuild" => worker[w].wasBuilt)
      BY <1>1 DEF Source, SourceAgain, Fail
    <2>2. worker[w].pc \in {"source", "sourceAgain"} /\ UNCHANGED <<disk, venvPath>>
      BY <1>1 DEF Source, SourceAgain, At
    <2>3. /\ worker'[w].pc = pc
          /\ worker'[w].project = worker[w].project /\ worker'[w].venv = worker[w].venv
          /\ worker'[w].wasBuilt = worker[w].wasBuilt
      BY <2>1, GotoMoves DEF Points, Stages, Moved
    <2>4. Here(w)' = Here(w)
      BY <2>2, <2>3 DEF Here
    <2>5. QED
      BY <2>1, <2>2, <2>3, <2>4 DEF Progress, AfterPath, AfterPip, AfterBuild
  <1>2. CASE StartLaunch(w)
    <2>1. /\ worker'[w].pc = "launched"
          /\ worker'[w].project = worker[w].project /\ worker'[w].venv = worker[w].venv
          /\ worker[w].venv => worker'[w].used.venv = venvPath
      BY <1>2, LaunchWorks DEF Works, Moved
    <2>2. worker[w].pc = "launch"
      BY <1>2 DEF StartLaunch, At
    <2>3. QED
      BY <2>1, <2>2 DEF Progress, AfterPath, AfterPip, AfterBuild
  <1>3. QED
    BY <1>1, <1>2

\* The goroutine that goes on is the one that is active.
LEMMA AloneStays ==
    ASSUME TypeInv, Alone, NEW w \in Workers, Active(w),
           \A v \in Workers \ {w} : worker'[v] = worker[v]
    PROVE  Alone' /\ \A v \in Workers \ {w} : ~Active(v)
  BY DEF Alone, Active

\* Every step keeps the invariant of starts that follow each other.
LEMMA SerialStep ==
    ASSUME Waits = "all", SerialInv, [Next]_vars
    PROVE  SerialInv'
  <1>1. TypeInv /\ TypeInv'
    BY TypeStep DEF SerialInv
  <1>2. CASE UNCHANGED vars \/ \E pr \in Projects : Push(pr)
    <2>1. UNCHANGED <<disk, venvPath, worker>>
      BY <1>2 DEF vars, Push
    <2>2. QED
      BY <1>1, <2>1 DEF SerialInv, Alone, Active, Progress, Fetched, Here
  <1>3. ASSUME NEW w \in Workers, NEW pr \in Projects, NEW lf \in Launches,
               NEW venv \in Venvs, Begin(w, pr, lf, venv)
        PROVE  SerialInv'
    <2>1. \A v \in Workers : ~Active(v)
      BY <1>3 DEF Begin, MayBegin
    <2>2. worker'[w].pc = "verify" /\ \A v \in Workers \ {w} : worker'[v] = worker[v]
      BY <1>1, <1>3, BeginMoves
    <2>3. Alone'
      BY <2>1, <2>2 DEF Alone, Active
    <2>4. Progress(w)' /\ Fetched(w)'
      BY <2>2 DEF Progress, AfterPath, AfterPip, AfterBuild, Fetched
    <2>5. \A v \in Workers \ {w} : Progress(v)' /\ Fetched(v)'
      BY <2>1, <2>2, InactiveProgress DEF SerialInv
    <2>6. QED
      BY <1>1, <2>3, <2>4, <2>5 DEF SerialInv
  <1>4. ASSUME NEW w \in Workers, WorkerStep(w) PROVE SerialInv'
    <2>1. Moved(w)
      BY <1>1, <1>4, WorkerWorks DEF Works
    <2>2. Active(w)
      BY <1>4, StepIsActive
    <2>3. Alone' /\ \A v \in Workers \ {w} : ~Active(v)
      BY <1>1, <2>1, <2>2, AloneStays DEF SerialInv, Moved
    <2>4. Progress(w)' /\ Fetched(w)'
      BY <1>1, <1>4, FetchedStep, FetchProgress, VenvProgress, BuildProgress,
         SourceProgress DEF SerialInv, WorkerStep
    <2>5. \A v \in Workers \ {w} : Progress(v)' /\ Fetched(v)'
      BY <2>1, <2>3, InactiveProgress DEF SerialInv, Moved
    <2>6. QED
      BY <1>1, <2>3, <2>4, <2>5 DEF SerialInv
  <1>5. QED
    BY <1>2, <1>3, <1>4 DEF Next

\* The initial states have it.
LEMMA SerialInit == ASSUME Init PROVE SerialInv
  <1>1. TypeInv
    BY TypeInit
  <1>2. \A w \in Workers : worker[w].pc = "idle"
    BY DEF Init, Idle
  <1>3. QED
    BY <1>1, <1>2 DEF SerialInv, Alone, Active, Stages, Progress, AfterPath, AfterPip,
                      AfterBuild, Fetched

\* The invariant of the starts that follow each other.
LEMMA SerialAlways == ASSUME Waits = "all" PROVE Spec => []SerialInv
  <1>1. Init => SerialInv
    BY SerialInit
  <1>2. SerialInv /\ [Next]_vars => SerialInv'
    BY SerialStep
  <1>3. QED
    BY <1>1, <1>2, PTL DEF Spec

\* Starts that follow each other launch in their own venv, although the path is
\* shared by all projects and is not reset.
THEOREM LaunchesInOwnVenvAlways ==
    ASSUME Waits = "all" PROVE Spec => []LaunchesInOwnVenv
  <1>1. SerialInv => LaunchesInOwnVenv
    BY DEF SerialInv, Progress, LaunchesInOwnVenv, At
  <1>2. QED
    BY <1>1, SerialAlways, PTL

\* Starts that follow each other have what their requirements ask for, in the
\* venv that they will use.
THEOREM DependenciesInstalledAlways ==
    ASSUME Waits = "all" PROVE Spec => []DependenciesInstalled
  <1>1. SerialInv => DependenciesInstalled
    BY DEF SerialInv, Progress, DependenciesInstalled, AfterPip
  <1>2. QED
    BY <1>1, SerialAlways, PTL

\* A goroutine leaves its last stage by the launch, and nobody else takes it from
\* there.
LEMMA OnlyStartLaunch ==
    ASSUME TypeInv, Alone, Next, NEW w \in Workers, At(w, "launch"),
           At(w, "launched")'
    PROVE  StartLaunch(w)
  <1>1. Active(w)
    BY DEF Active, Stages, At
  <1>2. ASSUME NEW pr \in Projects, Push(pr) PROVE FALSE
    BY <1>2 DEF Push, At
  <1>3. ASSUME NEW v \in Workers, NEW pr \in Projects, NEW lf \in Launches,
               NEW venv \in Venvs, Begin(v, pr, lf, venv)
        PROVE  FALSE
    <2>1. v # w
      BY <1>3 DEF Begin, At
    <2>2. worker'[w] = worker[w]
      BY <1>3, <2>1, BeginMoves
    <2>3. QED
      BY <2>2 DEF At
  <1>4. ASSUME NEW v \in Workers, WorkerStep(v) PROVE StartLaunch(w)
    <2>1. Active(v)
      BY <1>4, StepIsActive
    <2>2. v = w
      BY <1>1, <2>1 DEF Alone
    <2>3. QED
      BY <1>4, <2>2 DEF WorkerStep, Verify, CloneBegins, Clone, CloneFails, CloneBreaks,
                        Pull, AddVenvPath,
                  VenvCreate, PipInstall, PipFails, CheckBuild, Build, BuildFails,
                  Source, SourceAgain, At
  <1>5. QED
    BY <1>2, <1>3, <1>4 DEF Next

\* A goroutine that had to build launches what is checked out.
THEOREM FreshBuildIsCurrentAlways ==
    ASSUME Waits = "all" PROVE Spec => FreshBuildIsCurrent
  <1>1. Init => SerialInv
    BY SerialInit
  <1>2. SerialInv /\ [Next]_vars => SerialInv'
    BY SerialStep
  <1>3. SerialInv /\ [Next]_vars =>
           [\A w \in Workers :
               At(w, "launch") /\ At(w, "launched")' /\ ~worker[w].wasBuilt =>
                   worker'[w].used.install = Here(w).checkout]_vars
    <2>1. ASSUME SerialInv, Next, NEW w \in Workers, At(w, "launch"),
                 At(w, "launched")', ~worker[w].wasBuilt
          PROVE  worker'[w].used.install = Here(w).checkout
      <3>1. TypeInv /\ Here(w).install = Here(w).checkout
        BY <2>1 DEF SerialInv, Progress, AfterBuild, At
      <3>2. StartLaunch(w)
        BY <2>1, OnlyStartLaunch DEF SerialInv
      <3>3. QED
        BY <3>1, <3>2, LaunchWorks
    <2>2. QED
      BY <2>1
  <1>4. QED
    BY <1>1, <1>2, <1>3, PTL DEF Spec, FreshBuildIsCurrent

-----------------------------------------------------------------------------
(***************************************************************************)
(* Starts that follow each other are deployments.                          *)
(***************************************************************************)
Early == {"verify", "clone", "cloning", "pull", "venvPath", "venvCreate", "pip",
          "checkBuild"}
Late == {"source", "rebuild", "sourceAgain", "launch"}

\* A goroutine that prepares a venv wants one, none knows of an earlier build
\* before it has looked, and what is sourced or launched looks built.
Orderly(w) ==
    /\ worker[w].pc \in Late => Here(w).build
    /\ worker[w].pc = "launch" => Here(w).setup
    /\ worker[w].pc \in {"venvPath", "venvCreate", "pip"} => worker[w].venv
    /\ worker[w].pc \in Early => worker[w].wasBuilt = FALSE

\* No venv has what another project asks for, and there is none without a checkout.
OwnDependencies ==
    \A pr \in Projects :
        /\ disk[pr].installed \subseteq {pr}
        /\ disk[pr].checkout = 0 => disk[pr].installed = {}

DeployInv ==
    /\ SerialInv /\ KeepInv /\ OwnDependencies
    /\ \A w \in Workers : Orderly(w)

\* What the step of one goroutine is to the controller, and what it keeps.
Deploys(w) ==
    /\ OwnDependencies'
    /\ Orderly(w)'
    /\ D!Next \/ UNCHANGED D!vars

\* What the controller sees of a directory that is replaced.
LEMMA DirectoryShown ==
    ASSUME TypeInv, NEW pr \in Projects, NEW dir, disk' = [disk EXCEPT ![pr] = dir]
    PROVE  /\ Checkouts' = [Checkouts EXCEPT ![pr] = dir.checkout]
           /\ Installs' = [Installs EXCEPT ![pr] = dir.install]
           /\ Dependencies' = [Dependencies EXCEPT ![pr] = dir.installed]
           /\ Traces' = [Traces EXCEPT ![pr] = LooksBuilt(dir)]
           /\ dir.checkout = disk[pr].checkout => UNCHANGED Checkouts
           /\ dir.install = disk[pr].install => UNCHANGED Installs
           /\ dir.installed = disk[pr].installed => UNCHANGED Dependencies
           /\ LooksBuilt(dir) = LooksBuilt(disk[pr]) => UNCHANGED Traces
           /\ disk'[pr] = dir /\ \A q \in Projects \ {pr} : disk'[q] = disk[q]
  <1>1. disk \in [Projects -> Directory]
    BY DEF TypeInv, TypeOK, Directory
  <1>2. disk'[pr] = dir /\ \A q \in Projects \ {pr} : disk'[q] = disk[q]
    BY <1>1
  <1>3. QED
    BY <1>1, <1>2 DEF Checkouts, Installs, Dependencies, Traces

\* What it sees of the start that moves.
LEMMA StartShown ==
    ASSUME NEW w \in Workers, \A v \in Workers \ {w} : worker'[v] = worker[v]
    PROVE  /\ Starts' = [Starts EXCEPT ![w] = Starts'[w]]
           /\ Starts'[w] = Starts[w] => UNCHANGED Starts
  BY DEF Starts, Active

\* A record of which only the state changes.
LEMMA Ended ==
    ASSUME TypeInv, NEW w \in Workers, Active(w), Goto(w, "failed")
    PROVE  /\ Starts' = [Starts EXCEPT ![w].is = "failed"]
           /\ D!Prepares(w, worker[w].project)
           /\ worker'[w].pc = "failed" /\ worker[w].project \in Projects
  <1>1. /\ Moved(w) /\ worker'[w].pc = "failed"
        /\ worker'[w].wasBuilt = worker[w].wasBuilt /\ worker'[w].used = worker[w].used
    BY GotoMoves DEF Points
  <1>2. Starts[w] = [is |-> "preparing", of |-> worker[w].project,
                     venv |-> worker[w].venv, found |-> worker[w].wasBuilt,
                     used |-> worker[w].used]
    BY DEF Starts
  <1>3. Starts'[w] = [is |-> "failed", of |-> worker[w].project,
                      venv |-> worker[w].venv, found |-> worker[w].wasBuilt,
                      used |-> worker[w].used]
    BY <1>1 DEF Starts, Active, Stages, Moved
  <1>4. Starts'[w] = [Starts[w] EXCEPT !.is = "failed"]
    BY <1>2, <1>3
  <1>5. Starts' = [Starts EXCEPT ![w] = Starts'[w]]
    BY <1>1, StartShown DEF Moved
  <1>6. worker[w].project \in Projects
    BY HereIs DEF Active, Stages, At, Called
  <1>7. D!Prepares(w, worker[w].project)
    BY <1>2 DEF D!Prepares
  <1>8. QED
    BY <1>1, <1>4, <1>5, <1>6, <1>7

\* A step after which the start is still being prepared.
LEMMA GoesOn ==
    ASSUME TypeInv, NEW w \in Workers, Active(w), NEW pc \in Stages, Goto(w, pc)
    PROVE  /\ UNCHANGED Starts
           /\ D!Prepares(w, worker[w].project)
           /\ Moved(w) /\ worker'[w].pc = pc
           /\ worker'[w].wasBuilt = worker[w].wasBuilt
           /\ worker[w].project \in Projects
  <1>1. /\ Moved(w) /\ worker'[w].pc = pc
        /\ worker'[w].wasBuilt = worker[w].wasBuilt /\ worker'[w].used = worker[w].used
    BY GotoMoves DEF Points
  <1>2. Starts'[w] = Starts[w] /\ Starts[w].is = "preparing"
        /\ Starts[w].of = worker[w].project
    BY <1>1 DEF Starts, Active, Moved
  <1>3. UNCHANGED Starts
    BY <1>1, <1>2, StartShown DEF Moved
  <1>4. worker[w].project \in Projects
    BY HereIs DEF Active, Stages, At, Called
  <1>5. QED
    BY <1>1, <1>2, <1>3, <1>4 DEF D!Prepares


\* What a goroutine is known to be when it makes a step.
Ready(w) ==
    /\ TypeInv /\ OwnDependencies /\ ClonesAreAlone
    /\ Active(w) /\ Orderly(w) /\ Progress(w) /\ Fetched(w)

\* Directories that nobody touches look the same.
LEMMA DisksSame ==
    ASSUME UNCHANGED disk
    PROVE  /\ UNCHANGED <<Checkouts, Installs, Dependencies, Traces>>
           /\ OwnDependencies => OwnDependencies'
  BY DEF Checkouts, Installs, Dependencies, Traces, OwnDependencies

\* The decisions and the path: the controller sees nothing, or a failure.
LEMMA JumpDeploys ==
    ASSUME NEW w \in Workers, Ready(w),
           \/ Verify(w) \/ CloneBegins(w) \/ CloneFails(w) \/ CloneBreaks(w)
           \/ AddVenvPath(w) \/ PipFails(w) \/ Source(w) \/ SourceAgain(w)
    PROVE  Deploys(w)
  <1>1. UNCHANGED <<upstream, disk>>
    <2>1. CASE CloneBreaks(w)
      <3>1. Here(w) = NoDirectory
        BY <2>1 DEF CloneBreaks, Ready, ClonesAreAlone, HasFiles
      <3>2. worker[w].project \in Projects
        BY HereIs DEF Ready, Active, Stages, At, Called
      <3>3. QED
        BY <2>1, <3>1, <3>2 DEF CloneBreaks, OnDisk, Here, Ready, TypeInv, TypeOK
    <2>2. QED
      BY <2>1 DEF Verify, CloneBegins, CloneFails, AddVenvPath, PipFails, Source,
                  SourceAgain
  <1>2. UNCHANGED <<upstream, Checkouts, Installs, Dependencies, Traces>> /\ OwnDependencies'
    BY <1>1, DisksSame DEF Ready
  <1>3. CASE Goto(w, "failed")
    <2>1. /\ Starts' = [Starts EXCEPT ![w].is = "failed"]
          /\ D!Prepares(w, worker[w].project)
          /\ worker'[w].pc = "failed" /\ worker[w].project \in Projects
      BY <1>3, Ended DEF Ready
    <2>2. D!Fail(w, worker[w].project)
      BY <1>2, <2>1 DEF D!Fail
    <2>3. Orderly(w)'
      BY <2>1 DEF Orderly, Early, Late
    <2>4. QED
      BY <1>2, <2>1, <2>2, <2>3 DEF Deploys, D!Next
  <1>4. ASSUME NEW pc \in Stages, Goto(w, pc),
               pc \in Late => Here(w).build,
               pc = "launch" => Here(w).setup,
               pc \in {"venvPath", "venvCreate", "pip"} => worker[w].venv,
               pc \in Early => worker[w].wasBuilt = FALSE
        PROVE  Deploys(w)
    <2>1. UNCHANGED Starts /\ Moved(w) /\ worker'[w].pc = pc
          /\ worker'[w].wasBuilt = worker[w].wasBuilt
      BY <1>4, GoesOn DEF Ready
    <2>2. Here(w)' = Here(w) /\ worker'[w].venv = worker[w].venv
      BY <1>1, <2>1 DEF Here, Moved
    <2>3. Orderly(w)'
      BY <1>4, <2>1, <2>2 DEF Orderly
    <2>4. UNCHANGED D!vars
      BY <1>2, <2>1 DEF D!vars
    <2>5. QED
      BY <1>2, <2>3, <2>4 DEF Deploys
  <1>5. CASE Verify(w) \/ CloneBegins(w)
    <2>1. PICK pc \in {"pull", "clone", "cloning"} : Goto(w, pc)
      BY <1>5 DEF Verify, CloneBegins
    <2>2. worker[w].wasBuilt = FALSE
      BY <1>5 DEF Verify, CloneBegins, At, Ready, Orderly, Early
    <2>3. QED
      BY <1>4, <2>1, <2>2 DEF Stages, Late
  <1>6. CASE CloneFails(w) \/ CloneBreaks(w) \/ PipFails(w)
    BY <1>3, <1>6 DEF CloneFails, CloneBreaks, PipFails, Fail
  <1>7. CASE AddVenvPath(w)
    <2>1. worker[w].wasBuilt = FALSE /\ worker[w].venv
      BY <1>7 DEF AddVenvPath, At, Ready, Orderly, Early
    <2>2. PICK pc \in {"venvCreate", "checkBuild"} : Goto(w, pc)
      BY <1>7 DEF AddVenvPath
    <2>3. QED
      BY <1>4, <2>1, <2>2 DEF Stages, Late
  <1>8. CASE Source(w) \/ SourceAgain(w)
    <2>1. Here(w).build
      BY <1>8 DEF Source, SourceAgain, At, Ready, Orderly, Late
    <2>2. PICK pc \in {"launch", "rebuild", "sourceAgain", "failed"} :
             Goto(w, pc) /\ (pc = "launch" => Here(w).setup)
      BY <1>8 DEF Source, SourceAgain, Fail, Sources
    <2>3. CASE pc = "failed"
      BY <1>3, <2>2, <2>3
    <2>4. CASE pc # "failed"
      BY <1>4, <2>1, <2>2, <2>4 DEF Stages, Early
    <2>5. QED
      BY <2>3, <2>4
  <1>9. QED
    BY <1>5, <1>6, <1>7, <1>8

\* A directory of the start's own project is replaced by one with the same venv,
\* in which only its own requirements are.
LEMMA OwnDependenciesKept ==
    ASSUME TypeInv, OwnDependencies, NEW pr \in Projects, NEW dir,
           disk' = [disk EXCEPT ![pr] = dir],
           dir.installed \subseteq {pr}, dir.checkout = 0 => dir.installed = {}
    PROVE  OwnDependencies'
  BY DirectoryShown DEF OwnDependencies

\* Clone and pull are the fetch, a pull that fails is nothing.
LEMMA FetchDeploys ==
    ASSUME NEW w \in Workers, Ready(w), Clone(w) \/ Pull(w)
    PROVE  Deploys(w)
  <1> DEFINE pr == worker[w].project
             next == IF worker[w].venv THEN "venvPath" ELSE "checkBuild"
  <1>1. /\ worker[w].pc \in {"cloning", "pull"} /\ worker[w].wasBuilt = FALSE
        /\ Goto(w, next) /\ UNCHANGED upstream
    BY DEF Clone, Pull, AfterFetch, At, Ready, Orderly, Early
  <1>2. /\ UNCHANGED Starts /\ D!Prepares(w, pr) /\ Moved(w) /\ worker'[w].pc = next
        /\ worker'[w].wasBuilt = FALSE /\ pr \in Projects
    BY <1>1, GoesOn DEF Ready, Stages
  <1>3. /\ Here(w) = disk[pr] /\ Here(w) \in Directory /\ Sound(Here(w), pr)
        /\ upstream[pr] \in 1 .. MaxCommits
    BY <1>1, HereIs DEF Ready, Here, At
  <1>4. Orderly(w)'
    BY <1>2 DEF Orderly, Early, Late, Moved
  <1>5. CASE UNCHANGED disk
    <2>1. UNCHANGED <<Checkouts, Installs, Dependencies, Traces>> /\ OwnDependencies'
      BY <1>5, DisksSame DEF Ready
    <2>2. UNCHANGED D!vars
      BY <1>1, <1>2, <2>1 DEF D!vars
    <2>3. QED
      BY <1>4, <2>1, <2>2 DEF Deploys
  <1>6. ASSUME NEW dir, disk' = [disk EXCEPT ![pr] = dir], dir.checkout = upstream[pr],
               dir.install = disk[pr].install, dir.installed = disk[pr].installed,
               dir.build = disk[pr].build, dir.setup = disk[pr].setup
        PROVE  Deploys(w)
    <2> HIDE DEF pr
    <2>0. /\ Checkouts' = [Checkouts EXCEPT ![pr] = dir.checkout]
          /\ dir.install = disk[pr].install => UNCHANGED Installs
          /\ dir.installed = disk[pr].installed => UNCHANGED Dependencies
          /\ LooksBuilt(dir) = LooksBuilt(disk[pr]) => UNCHANGED Traces
          /\ disk'[pr] = dir
      BY <1>2, <1>6, DirectoryShown DEF Ready
    <2>1. /\ Checkouts' = [Checkouts EXCEPT ![pr] = upstream[pr]]
          /\ UNCHANGED <<Installs, Dependencies, Traces>> /\ disk'[pr] = dir
      BY <1>6, <2>0 DEF LooksBuilt
    <2> USE DEF pr
    <2>3. OwnDependencies'
      BY <1>2, <1>3, <1>6, OwnDependenciesKept DEF Ready, OwnDependencies
    <2>4. D!Fetch(w, pr)
      BY <1>1, <1>2, <2>1 DEF D!Fetch
    <2>5. QED
      BY <1>2, <1>4, <2>3, <2>4 DEF Deploys, D!Next
  <1>7. CASE Clone(w)
    <2> DEFINE dir == [NoDirectory EXCEPT !.checkout = upstream[pr]]
    <2>1. disk[pr] = NoDirectory /\ disk' = [disk EXCEPT ![pr] = dir]
      BY <1>3, <1>7 DEF Clone, HasFiles, OnDisk
    <2>2. /\ dir.checkout = upstream[pr] /\ dir.install = NoDirectory.install
          /\ dir.installed = NoDirectory.installed /\ dir.build = NoDirectory.build
          /\ dir.setup = NoDirectory.setup
      BY DEF NoDirectory
    <2> HIDE DEF dir
    <2>3. QED
      BY <1>6, <2>1, <2>2
  <1>8. CASE Pull(w) /\ ~UNCHANGED disk
    <2> DEFINE dir == [Here(w) EXCEPT !.checkout = upstream[pr]]
    <2>1. disk' = [disk EXCEPT ![pr] = dir]
      BY <1>8 DEF Pull, OnDisk
    <2>2. /\ dir.checkout = upstream[pr] /\ dir.install = disk[pr].install
          /\ dir.installed = disk[pr].installed
          /\ dir.build = disk[pr].build /\ dir.setup = disk[pr].setup
      BY <1>3 DEF Directory
    <2> HIDE DEF dir
    <2>3. QED
      BY <1>6, <2>1, <2>2
  <1>9. QED
    BY <1>5, <1>7, <1>8


\* What a step writes into a directory and the controller does not see: the venv,
\* and what a build that failed leaves, but for its traces.
LEMMA HiddenWrite ==
    ASSUME NEW w \in Workers, Ready(w), NEW pc \in {"pip", "failed"}, Goto(w, pc),
           worker[w].pc \in Stages \ {"verify", "clone", "cloning"},
           pc = "pip" => worker[w].venv /\ worker[w].wasBuilt = FALSE,
           NEW dir, disk' = [disk EXCEPT ![worker[w].project] = dir],
           dir.checkout = Here(w).checkout, dir.install = Here(w).install,
           dir.installed = Here(w).installed,
           \/ LooksBuilt(dir) = LooksBuilt(Here(w))
           \/ pc = "failed" /\ LooksBuilt(dir) = TRUE,
           UNCHANGED upstream
    PROVE  Deploys(w)
  <1> DEFINE pr == worker[w].project
  <1>1. /\ pr \in Projects /\ Here(w) = disk[pr] /\ Here(w).checkout > 0
        /\ D!Prepares(w, pr)
    <2>1. Called(w) /\ Starts[w].is = "preparing" /\ Starts[w].of = pr
      BY HereIs DEF Ready, Active, Stages, At, Starts
    <2>2. Here(w).checkout > 0
      BY DEF Ready, Fetched
    <2>3. QED
      BY <2>1, <2>2 DEF Called, Here, D!Prepares
  <1>2. disk' = [disk EXCEPT ![pr] = dir]
    OBVIOUS
  <1> HIDE DEF pr
  <1>3. /\ UNCHANGED <<Checkouts, Installs, Dependencies>> /\ OwnDependencies'
        /\ Traces' = [Traces EXCEPT ![pr] = LooksBuilt(dir)]
        /\ LooksBuilt(dir) = LooksBuilt(disk[pr]) => UNCHANGED Traces
    <2>1. TypeInv /\ OwnDependencies
      BY DEF Ready
    <2>2. /\ dir.checkout = disk[pr].checkout /\ dir.install = disk[pr].install
          /\ dir.installed = disk[pr].installed
      BY <1>1
    <2>3. dir.installed \subseteq {pr} /\ (dir.checkout = 0 => dir.installed = {})
      BY <1>1, <2>1, <2>2 DEF OwnDependencies
    <2>4. OwnDependencies'
      BY <1>1, <1>2, <2>1, <2>3, OwnDependenciesKept
    <2>5. /\ dir.checkout = disk[pr].checkout => UNCHANGED Checkouts
          /\ dir.install = disk[pr].install => UNCHANGED Installs
          /\ dir.installed = disk[pr].installed => UNCHANGED Dependencies
          /\ Traces' = [Traces EXCEPT ![pr] = LooksBuilt(dir)]
          /\ LooksBuilt(dir) = LooksBuilt(disk[pr]) => UNCHANGED Traces
      BY <1>1, <1>2, <2>1, DirectoryShown
    <2>6. QED
      BY <2>2, <2>4, <2>5
  <1>4. CASE pc = "failed"
    <2>1. Starts' = [Starts EXCEPT ![w].is = "failed"] /\ worker'[w].pc = "failed"
      BY <1>4, Ended DEF Ready
    <2>2. Orderly(w)'
      BY <2>1 DEF Orderly, Early, Late
    <2>3. Traces' \in {Traces, [Traces EXCEPT ![pr] = TRUE]}
      BY <1>1, <1>3
    <2>4. D!Fail(w, pr)
      BY <1>1, <1>3, <2>1, <2>3 DEF D!Fail
    <2>5. QED
      BY <1>1, <1>3, <2>2, <2>4 DEF Deploys, D!Next
  <1>5. CASE pc = "pip"
    <2>1. /\ UNCHANGED Starts /\ Moved(w) /\ worker'[w].pc = pc
          /\ worker'[w].wasBuilt = worker[w].wasBuilt
      BY <1>5, GoesOn DEF Ready, Stages
    <2>2. Orderly(w)'
      BY <1>5, <2>1 DEF Orderly, Late, Moved
    <2>3. UNCHANGED Traces
      BY <1>1, <1>3, <1>5
    <2>4. UNCHANGED D!vars
      BY <1>3, <2>1, <2>3 DEF D!vars
    <2>5. QED
      BY <1>3, <2>2, <2>4 DEF Deploys
  <1>6. QED
    BY <1>4, <1>5

\* The same, when nothing is written at all.
LEMMA NoWrite ==
    ASSUME NEW w \in Workers, Ready(w), NEW pc \in {"pip", "failed"}, Goto(w, pc),
           worker[w].pc \in Stages \ {"verify", "clone", "cloning"},
           pc = "pip" => worker[w].venv /\ worker[w].wasBuilt = FALSE,
           UNCHANGED <<upstream, disk>>
    PROVE  Deploys(w)
  <1>1. worker[w].project \in Projects /\ disk \in [Projects -> Directory]
    BY HereIs DEF Ready, Active, Stages, At, Called, TypeInv, TypeOK, Directory
  <1>2. disk' = [disk EXCEPT ![worker[w].project] = Here(w)]
    BY <1>1 DEF Here
  <1>3. QED
    BY <1>2, HiddenWrite

\* The venv is not seen until the requirements are in it.
LEMMA VenvDeploys ==
    ASSUME NEW w \in Workers, Ready(w), VenvCreate(w) \/ PipInstall(w)
    PROVE  Deploys(w)
  <1> DEFINE pr == worker[w].project
  <1>1. /\ worker[w].pc \in {"venvCreate", "pip"} /\ worker[w].wasBuilt = FALSE
        /\ worker[w].venv /\ venvPath = pr /\ UNCHANGED upstream
    BY DEF VenvCreate, PipInstall, At, Ready, Orderly, Progress, Early, AfterPath
  <1>2. pr \in Projects /\ Here(w) = disk[pr] /\ Here(w) \in Directory
        /\ Here(w).checkout > 0
    BY <1>1, HereIs DEF Ready, Here, At, Called, Fetched, Stages
  <1>3. CASE VenvCreate(w)
    <2>1. PICK pc \in {"pip", "failed"} :
             /\ Goto(w, pc)
             /\ \/ UNCHANGED disk
                \/ OnDisk(w, [Here(w) EXCEPT !.activate = TRUE])
      BY <1>3 DEF VenvCreate, Fail
    <2>2. worker[w].pc \in Stages \ {"verify", "clone", "cloning"}
      BY <1>1 DEF Stages
    <2>3. CASE UNCHANGED disk
      BY <1>1, <2>1, <2>2, <2>3, NoWrite
    <2> DEFINE dir == [Here(w) EXCEPT !.activate = TRUE]
    <2>4. CASE disk' = [disk EXCEPT ![worker[w].project] = dir]
      <3>1. /\ dir.checkout = Here(w).checkout /\ dir.install = Here(w).install
            /\ dir.installed = Here(w).installed
            /\ dir.build = Here(w).build /\ dir.setup = Here(w).setup
        BY <1>2 DEF Directory
      <3> HIDE DEF dir
      <3>2. LooksBuilt(dir) = LooksBuilt(Here(w))
        BY <3>1 DEF LooksBuilt
      <3>3. QED
        BY <1>1, <2>1, <2>2, <2>4, <3>1, <3>2, HiddenWrite
    <2>5. QED
      BY <2>1, <2>3, <2>4 DEF OnDisk
  <1>4. CASE PipInstall(w)
    <2> DEFINE dir == [disk[pr] EXCEPT !.installed = disk[pr].installed \cup {pr}]
    <2>1. Goto(w, "checkBuild") /\ disk' = [disk EXCEPT ![pr] = dir]
      BY <1>1, <1>4 DEF PipInstall
    <2>2. /\ UNCHANGED Starts /\ D!Prepares(w, pr) /\ Moved(w)
          /\ worker'[w].pc = "checkBuild" /\ worker'[w].wasBuilt = FALSE
      BY <1>1, <2>1, GoesOn DEF Ready, Stages
    <2>3. /\ dir.checkout = disk[pr].checkout /\ dir.install = disk[pr].install
          /\ dir.installed = {pr}
          /\ dir.build = disk[pr].build /\ dir.setup = disk[pr].setup
      BY <1>2 DEF Directory, Ready, OwnDependencies
    <2>4. worker'[w].project = pr
      BY <2>2 DEF Moved
    <2> HIDE DEF dir, pr
    <2>5. /\ UNCHANGED <<Checkouts, Installs, Traces>> /\ disk'[pr] = dir
          /\ Dependencies' = [Dependencies EXCEPT ![pr] = dir.installed]
      <3>1. TypeInv /\ LooksBuilt(dir) = LooksBuilt(disk[pr])
        BY <2>3 DEF LooksBuilt, Ready
      <3>2. /\ Dependencies' = [Dependencies EXCEPT ![pr] = dir.installed]
            /\ dir.checkout = disk[pr].checkout => UNCHANGED Checkouts
            /\ dir.install = disk[pr].install => UNCHANGED Installs
            /\ LooksBuilt(dir) = LooksBuilt(disk[pr]) => UNCHANGED Traces
            /\ disk'[pr] = dir
        BY <1>2, <2>1, <3>1, DirectoryShown
      <3>3. QED
        BY <2>3, <3>1, <3>2
    <2>6. OwnDependencies'
      <3>1. TypeInv /\ OwnDependencies
        BY DEF Ready
      <3>2. dir.installed \subseteq {pr} /\ (dir.checkout = 0 => dir.installed = {})
        BY <1>2, <2>3
      <3>3. QED
        BY <1>2, <2>1, <3>1, <3>2, OwnDependenciesKept
    <2>7. Orderly(w)'
      BY <2>2 DEF Orderly, Late
    <2>8. D!Install(w, pr)
      BY <1>1, <2>2, <2>3, <2>5 DEF D!Install
    <2>9. QED
      BY <1>2, <2>6, <2>7, <2>8 DEF Deploys, D!Next
  <1>5. QED
    BY <1>3, <1>4

\* A start as a record.
StartIs(is, of, venv, found, used) ==
    [is |-> is, of |-> of, venv |-> venv, found |-> found, used |-> used]

\* Traces of an earlier build are found, or nothing is.
LEMMA CheckDeploys ==
    ASSUME NEW w \in Workers, Ready(w), CheckBuild(w)
    PROVE  Deploys(w)
  <1> DEFINE pr == worker[w].project
             next == IF IsProjectBuilt(w) THEN "source" ELSE "build"
  <1>1. TypeInv /\ OwnDependencies
    BY DEF Ready
  <1>2. /\ worker[w].pc = "checkBuild" /\ worker[w].wasBuilt = FALSE
        /\ UNCHANGED <<upstream, disk>>
    BY DEF CheckBuild, At, Ready, Orderly, Early
  <1>3. /\ Moved(w) /\ worker'[w].pc = next /\ worker'[w].used = worker[w].used
        /\ worker'[w].wasBuilt = IsProjectBuilt(w)
    BY <1>1, CheckWorks DEF Works
  <1>4. pr \in Projects /\ Here(w)' = Here(w) /\ IsProjectBuilt(w) \in BOOLEAN
    BY <1>1, <1>2, <1>3, HereIs DEF At, Called, Here, Moved, Directory, IsProjectBuilt,
                          LooksBuilt
  <1>5. Orderly(w)'
    <2>1. IsProjectBuilt(w) => Here(w).build
      BY DEF IsProjectBuilt, LooksBuilt
    <2>2. QED
      BY <1>3, <1>4, <2>1 DEF Orderly, Early, Late
  <1>6. UNCHANGED <<Checkouts, Installs, Dependencies, Traces>> /\ OwnDependencies'
    BY <1>1, <1>2, DisksSame
  <1>7. Starts[w] = StartIs("preparing", pr, worker[w].venv, FALSE, worker[w].used)
        /\ D!Prepares(w, pr)
    BY <1>2 DEF Starts, Active, Stages, StartIs, D!Prepares
  <1>8. Starts'[w] = StartIs("preparing", pr, worker[w].venv, IsProjectBuilt(w),
                             worker[w].used)
    BY <1>3 DEF Starts, Active, Stages, Moved, StartIs
  <1>9. /\ Starts' = [Starts EXCEPT ![w] = Starts'[w]]
        /\ Starts'[w] = Starts[w] => UNCHANGED Starts
    BY <1>3, StartShown DEF Moved
  <1>10. CASE IsProjectBuilt(w)
    <2> DEFINE before == FALSE
               after == TRUE
               rec(b) == StartIs("preparing", pr, worker[w].venv, b, worker[w].used)
    <2>1. IsProjectBuilt(w) = after
      BY <1>4, <1>10
    <2>2. Starts[w] = rec(before) /\ Starts'[w] = rec(after)
      BY <1>7, <1>8, <2>1
    <2> HIDE DEF before, after
    <2>3. [rec(before) EXCEPT !.found = after] = rec(after)
      BY DEF StartIs
    <2> HIDE DEF rec
    <2>4. Starts'[w] = [Starts[w] EXCEPT !.found = after]
      BY <2>2, <2>3
    <2>5. Starts' = [Starts EXCEPT ![w].found = after]
      BY <1>9, <2>4
    <2>6. Starts' = [Starts EXCEPT ![w].found = TRUE]
      BY <2>5 DEF after
    <2>7. Traces[pr]
      BY <1>4, <1>10 DEF Traces, IsProjectBuilt, Here
    <2>8. D!Find(w, pr)
      BY <1>2, <1>6, <1>7, <2>6, <2>7 DEF D!Find
    <2>9. QED
      BY <1>4, <1>5, <1>6, <2>8 DEF Deploys, D!Next
  <1>11. CASE ~IsProjectBuilt(w)
    <2>1. IsProjectBuilt(w) = FALSE
      BY <1>4, <1>11
    <2>2. UNCHANGED Starts
      BY <1>7, <1>8, <1>9, <2>1
    <2>3. UNCHANGED D!vars
      BY <1>2, <1>6, <2>2 DEF D!vars
    <2>4. QED
      BY <1>5, <1>6, <2>3 DEF Deploys
  <1>12. QED
    BY <1>10, <1>11

\* A build installs what was fetched; a failed one may leave traces.
LEMMA BuildDeploys ==
    ASSUME NEW w \in Workers, Ready(w), Build(w) \/ BuildFails(w)
    PROVE  Deploys(w)
  <1> DEFINE pr == worker[w].project
  <1>1. TypeInv /\ OwnDependencies /\ Active(w)
    BY DEF Ready
  <1>2. /\ worker[w].pc \in {"build", "rebuild"} /\ UNCHANGED upstream
    BY DEF Build, BuildFails, At
  <1>3. pr \in Projects /\ Here(w) = disk[pr] /\ Here(w) \in Directory
        /\ Here(w).checkout > 0
    BY <1>1, <1>2, HereIs DEF Ready, Here, At, Called, Fetched, Stages
  <1>4. CASE BuildFails(w)
    <2>1. Goto(w, "failed")
      BY <1>4 DEF BuildFails, Fail
    <2>2. CASE UNCHANGED disk
      BY <1>2, <2>1, <2>2, NoWrite DEF Stages
    <2>3. ASSUME NEW setup \in {Here(w).setup, TRUE},
                 OnDisk(w, [Here(w) EXCEPT !.build = TRUE, !.setup = setup])
          PROVE  Deploys(w)
      <3> DEFINE dir == [Here(w) EXCEPT !.build = TRUE, !.setup = setup]
      <3>1. /\ dir.checkout = Here(w).checkout /\ dir.install = Here(w).install
            /\ dir.installed = Here(w).installed
            /\ dir.build = TRUE /\ dir.setup = setup
        BY <1>3 DEF Directory
      <3>2. disk' = [disk EXCEPT ![worker[w].project] = dir]
        BY <2>3 DEF OnDisk
      <3> HIDE DEF dir
      <3>3. LooksBuilt(dir) = LooksBuilt(Here(w)) \/ LooksBuilt(dir) = TRUE
        <4>1. Here(w).build \in BOOLEAN /\ Here(w).setup \in BOOLEAN
          BY <1>3 DEF Directory
        <4>2. CASE setup = TRUE
          BY <3>1, <4>2 DEF LooksBuilt
        <4>3. CASE setup = FALSE /\ Here(w).setup = FALSE
          BY <3>1, <4>3 DEF LooksBuilt
        <4>4. QED
          BY <4>1, <4>2, <4>3
      <3>4. worker[w].pc \in Stages \ {"verify", "clone", "cloning"}
        BY <1>2 DEF Stages
      <3>5. QED
        BY <1>2, <2>1, <3>1, <3>2, <3>3, <3>4, HiddenWrite
    <2>4. QED
      BY <1>4, <2>2, <2>3 DEF BuildFails
  <1>5. CASE Build(w)
    <2> DEFINE dir == [Here(w) EXCEPT !.build = TRUE, !.setup = TRUE,
                                      !.install = Here(w).checkout]
    <2>1. PICK pc \in {"source", "sourceAgain"} : Goto(w, pc)
      BY <1>5 DEF Build
    <2>2. disk' = [disk EXCEPT ![pr] = dir]
      BY <1>5 DEF Build, OnDisk
    <2>3. /\ UNCHANGED Starts /\ D!Prepares(w, pr) /\ Moved(w) /\ worker'[w].pc = pc
      BY <1>1, <2>1, GoesOn DEF Stages
    <2>4. /\ dir.checkout = disk[pr].checkout /\ dir.install = disk[pr].checkout
          /\ dir.installed = disk[pr].installed
          /\ dir.build = TRUE /\ LooksBuilt(dir) = TRUE
      BY <1>3 DEF Directory, LooksBuilt
    <2>5. worker'[w].project = pr /\ Checkouts[pr] = disk[pr].checkout
      BY <1>3, <2>3 DEF Moved, Checkouts
    <2> HIDE DEF dir, pr
    <2>6. /\ Installs' = [Installs EXCEPT ![pr] = dir.install]
          /\ dir.checkout = disk[pr].checkout => UNCHANGED Checkouts
          /\ dir.installed = disk[pr].installed => UNCHANGED Dependencies
          /\ Traces' = [Traces EXCEPT ![pr] = LooksBuilt(dir)]
          /\ disk'[pr] = dir
      BY <1>1, <1>3, <2>2, DirectoryShown
    <2>7. dir.installed \subseteq {pr} /\ (dir.checkout = 0 => dir.installed = {})
      BY <1>1, <1>3, <2>4 DEF OwnDependencies
    <2>8. OwnDependencies'
      BY <1>1, <1>3, <2>2, <2>7, OwnDependenciesKept
    <2>9. Orderly(w)'
      BY <2>1, <2>3, <2>4, <2>5, <2>6 DEF Orderly, Here, Early
    <2>10. D!Build(w, pr)
      BY <1>2, <2>3, <2>4, <2>5, <2>6 DEF D!Build
    <2>11. QED
      BY <1>3, <2>8, <2>9, <2>10 DEF Deploys, D!Next
  <1>6. QED
    BY <1>4, <1>5

\* The node is launched with what was prepared for it.
LEMMA LaunchDeploys ==
    ASSUME NEW w \in Workers, Ready(w), StartLaunch(w)
    PROVE  Deploys(w)
  <1> DEFINE pr == worker[w].project
             used == [venv |-> IF worker[w].venv THEN pr ELSE None,
                      install |-> disk[pr].install]
  <1>1. TypeInv /\ OwnDependencies /\ Progress(w)
    BY DEF Ready
  <1>2. worker[w].pc = "launch" /\ UNCHANGED <<upstream, disk>>
    BY DEF StartLaunch, At
  <1>3. pr \in Projects /\ Here(w) = disk[pr] /\ worker[w] \in Goroutine
    BY <1>1, <1>2, HereIs DEF At, Called, Here
  <1>4. /\ worker[w].venv => venvPath = pr
        /\ worker[w].venv /\ pr \in Requirements => pr \in disk[pr].installed
        /\ ~worker[w].wasBuilt => disk[pr].install = disk[pr].checkout
    BY <1>1, <1>2, <1>3 DEF Progress, AfterPath, AfterPip, AfterBuild
  <1>5. Moved(w) /\ worker'[w].pc = "launched"
        /\ worker'[w].wasBuilt = worker[w].wasBuilt
    BY <1>1, LaunchWorks DEF Works
  <1>6. worker'[w].used = used
    <2>1. worker' = [worker EXCEPT
                       ![w].pc = "launched",
                       ![w].used = [venv |-> IF worker[w].venv THEN venvPath ELSE None,
                                    install |-> Here(w).install]]
      BY DEF StartLaunch
    <2>2. worker \in [Workers -> Goroutine]
      BY <1>1 DEF TypeInv
    <2>3. worker'[w].used = [venv |-> IF worker[w].venv THEN venvPath ELSE None,
                             install |-> Here(w).install]
      BY <1>3, <2>1, <2>2 DEF Goroutine
    <2>4. QED
      BY <1>3, <1>4, <2>3
  <1>7. Orderly(w)'
    BY <1>5 DEF Orderly, Early, Late
  <1>8. UNCHANGED <<Checkouts, Installs, Dependencies, Traces>> /\ OwnDependencies'
    BY <1>1, <1>2, DisksSame
  <1>9. /\ Starts[w] = StartIs("preparing", pr, worker[w].venv, worker[w].wasBuilt,
                              worker[w].used)
        /\ Starts[w].venv = worker[w].venv /\ Starts[w].found = worker[w].wasBuilt
        /\ D!Prepares(w, pr)
    BY <1>2 DEF Starts, Active, Stages, StartIs, D!Prepares
  <1>10. Starts'[w] = StartIs("launched", pr, worker[w].venv, worker[w].wasBuilt, used)
    BY <1>5, <1>6 DEF Starts, Active, Stages, Moved, StartIs
  <1>11. Starts' = [Starts EXCEPT ![w] = Starts'[w]]
    BY <1>5, StartShown DEF Moved
  <1>12. /\ Dependencies[pr] = disk[pr].installed /\ Installs[pr] = disk[pr].install
         /\ Checkouts[pr] = disk[pr].checkout
    BY <1>3 DEF Dependencies, Installs, Checkouts
  <1>13. disk[pr].installed \subseteq {pr}
    BY <1>1, <1>3 DEF OwnDependencies
  <1> HIDE DEF pr
  <1>14. Starts' = [Starts EXCEPT
                      ![w].is = "launched",
                      ![w].used = [venv |-> IF Starts[w].venv THEN pr ELSE None,
                                   install |-> Installs[pr]]]
    <2> DEFINE node == [venv |-> IF Starts[w].venv THEN pr ELSE None,
                        install |-> Installs[pr]]
    <2>1. used = node
      BY <1>9, <1>12 DEF pr
    <2> HIDE DEF used, node
    <2> DEFINE rec(is, with) == StartIs(is, pr, worker[w].venv, worker[w].wasBuilt, with)
    <2>2. [rec("preparing", worker[w].used) EXCEPT !.is = "launched"]
            = rec("launched", worker[w].used)
      BY DEF StartIs
    <2>3. [rec("launched", worker[w].used) EXCEPT !.used = node] = rec("launched", node)
      BY DEF StartIs
    <2>4. Starts[w] = rec("preparing", worker[w].used) /\ Starts'[w] = rec("launched", node)
      BY <1>9, <1>10, <2>1
    <2> HIDE DEF rec
    <2>5. Starts'[w] = [Starts[w] EXCEPT !.is = "launched", !.used = node]
      BY <2>2, <2>3, <2>4
    <2>6. w \in DOMAIN Starts
      BY DEF Starts
    <2>7. Starts' = [Starts EXCEPT ![w].is = "launched", ![w].used = node]
      BY <1>11, <2>5, <2>6
    <2>8. QED
      BY <2>7 DEF node
  <1>15. D!Launch(w, pr)
    <2>1. Starts[w].venv /\ pr \in Requirements => Dependencies[pr] = {pr}
      BY <1>4, <1>9, <1>12, <1>13 DEF pr
    <2>2. ~Starts[w].found => Installs[pr] = Checkouts[pr]
      BY <1>4, <1>9, <1>12 DEF pr
    <2>3. Traces[pr]
      BY <1>2, <1>3 DEF Traces, LooksBuilt, Ready, Orderly, Late, pr
    <2>4. QED
      BY <1>2, <1>8, <1>9, <1>14, <2>1, <2>2, <2>3 DEF D!Launch
  <1>16. QED
    BY <1>3, <1>7, <1>8, <1>15 DEF Deploys, D!Next, pr

\* The step of the one goroutine that is active.
LEMMA WorkerDeploys ==
    ASSUME NEW w \in Workers, Ready(w), WorkerStep(w)
    PROVE  Deploys(w)
  BY JumpDeploys, FetchDeploys, VenvDeploys, CheckDeploys, BuildDeploys, LaunchDeploys
     DEF WorkerStep

\* A goroutine that begins is a start that knows of nothing.
LEMMA BeginDeploys ==
    ASSUME TypeInv, OwnDependencies, NEW w \in Workers, NEW pr \in Projects,
           NEW lf \in Launches, NEW venv \in Venvs, Begin(w, pr, lf, venv), Waits = "all"
    PROVE  Deploys(w) /\ \A v \in Workers \ {w} : worker'[v] = worker[v]
  <1> DEFINE rec == [Idle EXCEPT !.pc = "verify", !.project = pr, !.launch = lf,
                                 !.venv = venv]
             no == FALSE
             node == [venv |-> None, install |-> 0]
             start(is, of, wants) == StartIs(is, of, wants, no, node)
  <1>1. /\ UNCHANGED <<upstream, disk>> /\ worker'[w].pc = "verify"
        /\ worker' \in [Workers -> Goroutine]
        /\ \A v \in Workers \ {w} : worker'[v] = worker[v]
    BY BeginMoves
  <1>2. worker'[w] = rec
    BY DEF Begin, TypeInv
  <1>3. /\ rec.project = pr /\ rec.venv = venv /\ rec.wasBuilt = Idle.wasBuilt
        /\ rec.used = Idle.used
    BY DEF Idle
  <1>4. Idle.wasBuilt = no /\ Idle.used = node
    BY DEF Idle
  <1> HIDE DEF rec
  <1>5. Orderly(w)'
    BY <1>1, <1>2, <1>3, <1>4 DEF Orderly, Early, Late
  <1>6. UNCHANGED <<Checkouts, Installs, Dependencies, Traces>> /\ OwnDependencies'
    BY <1>1, DisksSame
  <1>7. Starts' = [Starts EXCEPT ![w] = Starts'[w]]
    BY <1>1, StartShown
  <1>8. D!New = start("idle", None, FALSE)
    BY DEF D!New, StartIs
  <1>9. Starts'[w] = start("preparing", pr, venv)
    BY <1>1, <1>2, <1>3, <1>4 DEF Starts, Active, Stages, StartIs
  <1> HIDE DEF no, node
  <1>10. [start("idle", None, no) EXCEPT !.is = "preparing"] = start("preparing", None, no)
    BY DEF StartIs
  <1>11. [start("preparing", None, no) EXCEPT !.of = pr] = start("preparing", pr, no)
    BY DEF StartIs
  <1>12. [start("preparing", pr, no) EXCEPT !.venv = venv] = start("preparing", pr, venv)
    BY DEF StartIs
  <1>13. D!New = start("idle", None, no)
    BY <1>8 DEF no
  <1> HIDE DEF start
  <1>14. Starts'[w] = [D!New EXCEPT !.is = "preparing", !.of = pr, !.venv = venv]
    BY <1>9, <1>10, <1>11, <1>12, <1>13
  <1>15. Starts[w].is = "idle" /\ \A v \in Workers : Starts[v].is # "preparing"
    <2>1. worker[w].pc = "idle" /\ \A v \in Workers : ~Active(v)
      BY DEF Begin, MayBegin, At
    <2>2. ASSUME NEW v \in Workers PROVE Starts[v].is # "preparing"
      BY <2>1 DEF Starts, TypeInv, TypeOK, Stages
    <2>3. QED
      BY <2>1, <2>2 DEF Starts
  <1>16. D!Begin(w, pr, venv)
    BY <1>1, <1>6, <1>7, <1>14, <1>15 DEF D!Begin
  <1>17. QED
    BY <1>1, <1>5, <1>6, <1>16 DEF Deploys, D!Next

\* A push is a push.
LEMMA PushDeploys ==
    ASSUME TypeInv, NEW pr \in Projects, Push(pr)
    PROVE  D!Next
  <1>1. /\ upstream[pr] < MaxCommits /\ upstream' = [upstream EXCEPT ![pr] = @ + 1]
        /\ UNCHANGED <<disk, worker>>
    BY DEF Push
  <1>2. UNCHANGED <<Checkouts, Installs, Dependencies, Traces, Starts>>
    BY <1>1 DEF Checkouts, Installs, Dependencies, Traces, Starts, Active
  <1>3. D!Push(pr)
    BY <1>1, <1>2 DEF D!Push
  <1>4. QED
    BY <1>3 DEF D!Next

\* A goroutine that is not active says nothing about directories.
LEMMA InactiveOrderly ==
    ASSUME NEW w \in Workers, ~Active(w), worker'[w] = worker[w]
    PROVE  Orderly(w)'
  BY DEF Active, Orderly, Stages, Early, Late

\* Every step keeps the invariant and is one of the deployments, or nothing.
LEMMA DeployStep ==
    ASSUME Waits = "all", DeployInv, [Next]_vars
    PROVE  DeployInv' /\ (D!Next \/ UNCHANGED D!vars)
  <1>1. /\ SerialInv /\ SerialInv' /\ KeepInv' /\ TypeInv /\ OwnDependencies
        /\ ClonesAreAlone
    BY SerialStep, KeepStep DEF DeployInv, SerialInv, KeepInv
  <1>2. CASE UNCHANGED vars \/ \E pr \in Projects : Push(pr)
    <2>1. UNCHANGED <<disk, worker>>
      BY <1>2 DEF vars, Push
    <2>2. DeployInv'
      BY <1>1, <2>1 DEF DeployInv, OwnDependencies, Orderly, Here
    <2>3. UNCHANGED vars => UNCHANGED D!vars
      BY DEF vars, D!vars, Checkouts, Installs, Dependencies, Traces, Starts, Active
    <2>4. QED
      BY <1>1, <1>2, <2>2, <2>3, PushDeploys
  <1>3. ASSUME NEW w \in Workers, NEW pr \in Projects, NEW lf \in Launches,
               NEW venv \in Venvs, Begin(w, pr, lf, venv)
        PROVE  DeployInv' /\ (D!Next \/ UNCHANGED D!vars)
    <2>1. Deploys(w) /\ \A v \in Workers \ {w} : worker'[v] = worker[v]
      BY <1>1, <1>3, BeginDeploys
    <2>2. \A v \in Workers : ~Active(v)
      BY <1>3 DEF Begin, MayBegin
    <2>3. \A v \in Workers : Orderly(v)'
      BY <2>1, <2>2, InactiveOrderly DEF Deploys
    <2>4. QED
      BY <1>1, <2>1, <2>3 DEF DeployInv, Deploys
  <1>4. ASSUME NEW w \in Workers, WorkerStep(w)
        PROVE  DeployInv' /\ (D!Next \/ UNCHANGED D!vars)
    <2>1. Moved(w)
      BY <1>1, <1>4, WorkerWorks DEF Works
    <2>2. Active(w)
      BY <1>4, StepIsActive
    <2>3. Ready(w)
      BY <1>1, <2>2 DEF DeployInv, SerialInv, Ready
    <2>4. Deploys(w)
      BY <1>4, <2>3, WorkerDeploys
    <2>5. \A v \in Workers \ {w} : ~Active(v)
      BY <1>1, <2>1, <2>2, AloneStays DEF SerialInv, Moved
    <2>6. \A v \in Workers : Orderly(v)'
      BY <2>1, <2>4, <2>5, InactiveOrderly DEF Deploys, Moved
    <2>7. QED
      BY <1>1, <2>4, <2>6 DEF DeployInv, Deploys
  <1>5. QED
    BY <1>2, <1>3, <1>4 DEF Next

\* The initial states are those of the deployments.
LEMMA DeployInit == ASSUME Init PROVE DeployInv /\ D!Init
  <1>1. SerialInv
    BY SerialInit
  <1>2. \A pr \in Projects : /\ disk[pr].checkout = 0 /\ disk[pr].install = 0
                             /\ disk[pr].installed = {}
                             /\ LooksBuilt(disk[pr]) = FALSE
    BY DEF Init, NoDirectory, LooksBuilt
  <1>3. \A w \in Workers : worker[w] = Idle
    BY DEF Init
  <1>4. DeployInv
    BY <1>1, <1>2, <1>3, KeepInit DEF DeployInv, OwnDependencies, Orderly, Idle, Early,
                                      Late
  <1>5. /\ Checkouts = [pr \in Projects |-> 0] /\ Installs = [pr \in Projects |-> 0]
        /\ Dependencies = [pr \in Projects |-> {}] /\ Traces = [pr \in Projects |-> FALSE]
    BY <1>2 DEF Checkouts, Installs, Dependencies, Traces
  <1>6. Starts = [w \in Workers |-> D!New]
    <2>1. ASSUME NEW w \in Workers PROVE Starts[w] = D!New
      <3> DEFINE no == FALSE
                 node == [venv |-> None, install |-> 0]
      <3>1. /\ worker[w].pc = "idle" /\ worker[w].project = None /\ worker[w].venv = no
            /\ worker[w].wasBuilt = no /\ worker[w].used = node
        BY <1>3 DEF Idle
      <3>2. D!New = StartIs("idle", None, no, no, node)
        BY DEF D!New, StartIs
      <3> HIDE DEF no, node
      <3>3. Starts[w] = StartIs("idle", None, no, no, node)
        BY <3>1 DEF Starts, Active, Stages, StartIs
      <3>4. QED
        BY <3>2, <3>3
    <2>2. QED
      BY <2>1 DEF Starts
  <1>7. upstream = [pr \in Projects |-> 1]
    BY DEF Init
  <1>8. QED
    BY <1>4, <1>5, <1>6, <1>7 DEF D!Init

\* If the controller waits for each start to end, what the goroutines do in the
\* shared directories and with the shared path is what it asked for: each start
\* works on its own project, and ends with a failure or with a node that has its
\* dependencies, its own venv and, if there were no traces of a build, what was
\* fetched; traces are left by builds only, and by starts that fail.
THEOREM DeploymentsImplemented ==
    ASSUME Waits = "all" PROVE Spec => ImplementsDeployments
  <1>1. Init => DeployInv /\ D!Init
    BY DeployInit
  <1>2. DeployInv /\ [Next]_vars => DeployInv' /\ [D!Next]_(D!vars)
    BY DeployStep
  <1>3. QED
    BY <1>1, <1>2, PTL DEF Spec, ImplementsDeployments, D!Spec

=============================================================================
