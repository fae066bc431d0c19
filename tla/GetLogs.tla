------------------------------ MODULE GetLogs ------------------------------
(***************************************************************************)
(* The RPC GetLogs (src/connection/api.go): from the pid and the hour that *)
(* ChildPids keeps for a launch file to two log files                      *)
(* (src/utility/ros-log-utility.go), and from those to their last lines,   *)
(* by two calls of ReadFromLog (module LogTail).                           *)
(*                                                                         *)
(* ChildPids has the pid of the bash that leads the group.  The log is     *)
(* named after the process of ros2 launch, which that bash forks; the code *)
(* takes its pid to be the next one.  The files are found by the digits of *)
(* pids in their names.  Meanwhile the host forks what else it forks, also *)
(* a ros2 launch that is not the shim's, the clock goes on, launches write *)
(* their files one by one, and directories of an earlier boot, which may   *)
(* have ended in this very hour, are still there when its pids come again. *)
(***************************************************************************)
EXTENDS LogTail

CONSTANTS
    Launches,   \* launch files; each one is started once
    Other,      \* a ros2 launch that somebody else runs on the host
    Stale,      \* the owner of what an earlier boot left behind
    StalePids,  \* pids that an earlier boot gave to a ros2 launch
    MaxPid,     \* bound: pids of this boot
    MaxHour,    \* bound: hours the clock counts, from 1, that of the boot
    Powers      \* powers of the base in which pids are written (ten)

ASSUME LookupAssumption ==
    /\ Stale \notin Launches
    /\ Other \notin Launches \cup {Stale}
    /\ StalePids \subseteq Nat \ {0}
    /\ MaxPid \in Nat
    /\ MaxHour \in Nat
    /\ Powers \subseteq Nat \ {0, 1}
    /\ \E b \in Powers : MaxPid + 1 < b

VARIABLES
    nextPid, hour,
    leader,     \* launch file -> pid of the bash that leads its group, or 0
    launch,     \* launch file, or Other -> pid of the ros2 launch, or 0
    childPids,  \* launch file -> [pid, timestamp], or an empty sequence
    dirs,       \* launch directories under LogPath, in the order of their names
    logs,       \* logs of nodes in LogPath
    asked,      \* the handler's launch file, or Stale
    val,        \* its copy of the entry
    path,       \* logFilePath, as an index of dirs; or 0
    launchpid,  \* the pid of the node that the launch log names; or 0
    at          \* where the handler is

hostVars == <<nextPid, hour, leader, launch, childPids, dirs, logs>>
callVars == <<asked, val, path, launchpid, at>>
allVars == <<vars, hostVars, callVars>>

-----------------------------------------------------------------------------
(***************************************************************************)
(* Pids as digits.                                                         *)
(***************************************************************************)
\* strings.HasSuffix: the digits of p end in those of q.
HasSuffix(p, q) == \E b \in Powers : q < b /\ p % b = q

\* strings.Contains.
HasDigits(p, q) == \E b \in Powers \cup {1} : HasSuffix(p \div b, q)

SameWidth(p, q) == \A b \in Powers : p < b <=> q < b

-----------------------------------------------------------------------------
(***************************************************************************)
(* The host.                                                               *)
(***************************************************************************)
Launchers == Launches \cup {Other}

\* What an earlier boot may have left: nothing, or one launch with its node, of an
\* hour before that of this boot or, after a quick reboot, of the same.
Leftovers ==
    {<<>>} \cup {<<[of |-> Stale, pid |-> p, hour |-> h, log |-> TRUE,
                    node |-> p + 1]>> : p \in StalePids, h \in {0, 1}}

EmptyHost ==
    /\ nextPid = 1
    /\ hour = 1
    /\ leader = [lf \in Launches |-> 0]
    /\ launch = [lf \in Launchers |-> 0]
    /\ childPids = [lf \in Launches |-> <<>>]
    /\ dirs \in Leftovers
    /\ logs = {[of |-> Stale, pid |-> dirs[i].node] : i \in DOMAIN dirs}

\* StartLaunch: cmd.Start forks the bash that will lead the group.
ForkLeader(lf) ==
    /\ leader[lf] = 0
    /\ nextPid <= MaxPid
    /\ leader' = [leader EXCEPT ![lf] = nextPid]
    /\ nextPid' = nextPid + 1
    /\ UNCHANGED <<hour, launch, childPids, dirs, logs>>

\* The worker keeps the pid, with the hour it has by then.
Record(lf) ==
    /\ leader[lf] # 0
    /\ childPids[lf] = <<>>
    /\ childPids' = [childPids EXCEPT ![lf] = <<leader[lf], hour>>]
    /\ UNCHANGED <<nextPid, hour, leader, launch, dirs, logs>>

\* The leader forks what becomes ros2 launch.
ForkLaunch(lf) ==
    /\ leader[lf] # 0
    /\ launch[lf] = 0
    /\ nextPid <= MaxPid
    /\ launch' = [launch EXCEPT ![lf] = nextPid]
    /\ nextPid' = nextPid + 1
    /\ UNCHANGED <<hour, leader, childPids, dirs, logs>>

\* Somebody else starts a launch in the same LogPath.
ForkOtherLaunch ==
    /\ launch[Other] = 0
    /\ nextPid <= MaxPid
    /\ launch' = [launch EXCEPT ![Other] = nextPid]
    /\ nextPid' = nextPid + 1
    /\ UNCHANGED <<hour, leader, childPids, dirs, logs>>

\* Somebody else forks.
OtherFork ==
    /\ nextPid <= MaxPid
    /\ nextPid' = nextPid + 1
    /\ UNCHANGED <<hour, leader, launch, childPids, dirs, logs>>

Tick ==
    /\ hour < MaxHour
    /\ hour' = hour + 1
    /\ UNCHANGED <<nextPid, leader, launch, childPids, dirs, logs>>

\* ros2 launch makes its directory, named after the time and its own pid.
MakeDirectory(lf) ==
    /\ launch[lf] # 0
    /\ \A i \in DOMAIN dirs : dirs[i].of # lf
    /\ dirs' = Append(dirs, [of |-> lf, pid |-> launch[lf], hour |-> hour,
                             log |-> FALSE, node |-> 0])
    /\ UNCHANGED <<nextPid, hour, leader, launch, childPids, logs>>

\* It creates launch.log, starts the node, and writes that it has.
CreateLaunchLog(i) ==
    /\ ~dirs[i].log
    /\ dirs' = [dirs EXCEPT ![i].log = TRUE]
    /\ UNCHANGED <<nextPid, hour, leader, launch, childPids, logs>>

StartNode(i) ==
    /\ dirs[i].log
    /\ dirs[i].node = 0
    /\ nextPid <= MaxPid
    /\ dirs' = [dirs EXCEPT ![i].node = nextPid]
    /\ nextPid' = nextPid + 1
    /\ UNCHANGED <<hour, leader, launch, childPids, logs>>

\* The node opens its own log.
CreateNodeLog(i) ==
    /\ dirs[i].node # 0
    /\ logs' = logs \cup {[of |-> dirs[i].of, pid |-> dirs[i].node]}
    /\ UNCHANGED <<nextPid, hour, leader, launch, childPids, dirs>>

Host ==
    \/ \E lf \in Launches :
          \/ ForkLeader(lf) \/ Record(lf) \/ ForkLaunch(lf)
    \/ \E lf \in Launchers : MakeDirectory(lf)
    \/ ForkOtherLaunch \/ OtherFork \/ Tick
    \/ \E i \in DOMAIN dirs :
          \/ CreateLaunchLog(i) \/ StartNode(i) \/ CreateNodeLog(i)
-----------------------------------------------------------------------------
(***************************************************************************)
(* The lookup.                                                             *)
(***************************************************************************)
InitGetLogs ==
    /\ Init
    /\ EmptyHost
    /\ asked = Stale
    /\ val = <<>>
    /\ path = 0
    /\ launchpid = 0
    /\ at = "idle"

\* No registered controller calls from this address.
CallRefused ==
    /\ at = "idle"
    /\ at' = "refused"
    /\ UNCHANGED <<asked, val, path, launchpid>>

\* The entry of ChildPids is copied, without the lock.
Call(lf) ==
    /\ at = "idle"
    /\ asked' = lf
    /\ val' = childPids[lf]
    /\ at' = IF childPids[lf] = <<>> THEN "error" ELSE "find"
    /\ UNCHANGED <<path, launchpid>>

\* findLogInDir succeeds in a directory whose name has the timestamp and ends in
\* the pid.
Candidates(pid, timestamp) ==
    {i \in DOMAIN dirs : /\ dirs[i].hour = timestamp
                         /\ HasSuffix(dirs[i].pid, pid)
                         /\ dirs[i].log}

\* Broken variant: the timestamp is not looked at.
FindLogFileAnyHour(pid, timestamp) ==
    LET found == {i \in DOMAIN dirs : HasSuffix(dirs[i].pid, pid) /\ dirs[i].log}
    IN IF found = {}
       THEN at' = "error" /\ UNCHANGED path
       ELSE at' = "extract" /\ path' = Min(found)

\* The walk goes in the order of the names and keeps the first find.
FindLogFile(pid, timestamp) ==
    LET found == Candidates(pid, timestamp)
    IN IF found = {}
       THEN at' = "error" /\ UNCHANGED path
       ELSE at' = "extract" /\ path' = Min(found)

\* The pid in the first line "process started with pid" of the launch log.
ExtractPIDFromLog ==
    /\ at = "extract"
    /\ launchpid' = dirs[path].node
    /\ at' = IF launchpid' = 0 THEN "error" ELSE "name"
    /\ UNCHANGED <<asked, val, path>>

\* The pid of the leader's first child, if nothing else forked in between.
SoughtPid == val[1] + 1

Find ==
    /\ at = "find"
    /\ FindLogFile(SoughtPid, val[2])
    /\ UNCHANGED <<asked, val, launchpid>>

\* Some log in LogPath has the digits of the node's pid in its name.  Nothing
\* depends on the host any more but the bytes of two files, which may be any;
\* host and lookup are forgotten.
GetLogFilename ==
    /\ at = "name"
    /\ IF \E l \in logs : HasDigits(l.pid, launchpid)
       THEN /\ at' = "node"
            /\ nextPid' = 1 /\ hour' = 1
            /\ leader' = [lf \in Launches |-> 0]
            /\ launch' = [lf \in Launchers |-> 0]
            /\ childPids' = [lf \in Launches |-> <<>>]
            /\ dirs' = <<>> /\ logs' = {}
            /\ asked' = Stale /\ val' = <<>> /\ path' = 0 /\ launchpid' = 0
       ELSE /\ at' = "error"
            /\ UNCHANGED <<hostVars, asked, val, path, launchpid>>

\* Something in LogPath cannot be read: the walk, which goes on after a find, is
\* given an error and returns that instead; or the launch log cannot be opened or
\* scanned; or the files cannot be listed.
LookupFails ==
    /\ at \in {"find", "extract", "name"}
    /\ at' = "error"
    /\ UNCHANGED <<asked, val, path, launchpid>>

-----------------------------------------------------------------------------
(***************************************************************************)
(* The reply: the end of the node's log, then the end of the launch log.   *)
(* A log that cannot be read contributes nothing.                          *)
(***************************************************************************)
Reading == at \in {"node", "launch"}

Returned == Reading /\ pc \in {"done", "eof", "nil"}

\* ReadFromLog has returned: on to the launch log, or to the reply.
NextLog ==
    /\ Returned
    /\ at' = IF at = "node" THEN "launch" ELSE "replied"
    /\ size' = 0 /\ newlines' = {} /\ fileSize' = 0 /\ pos' = 0 /\ bufferSize' = 0
    /\ lines' = <<>> /\ reads' = <<>> /\ pc' = "closed"
    /\ UNCHANGED <<asked, val, path, launchpid>>

HostSteps ==
    /\ at \in {"idle", "find", "extract", "name"}
    /\ Host
    /\ UNCHANGED <<vars, callVars>>

CallSteps ==
    \/ (\E lf \in Launches : Call(lf)) /\ UNCHANGED <<vars, hostVars>>
    \/ CallRefused /\ UNCHANGED <<vars, hostVars>>

HandlerSteps ==
    \/ (Find \/ ExtractPIDFromLog) /\ UNCHANGED <<vars, hostVars>>
    \/ GetLogFilename /\ UNCHANGED vars
    \/ Reading /\ ReadFromLog /\ UNCHANGED <<hostVars, callVars>>
    \/ NextLog /\ UNCHANGED hostVars

\* What a handler cannot count on: the log grows, a read fails.
FileEvents ==
    \/ Reading /\ (Append1 \/ ReadFails) /\ UNCHANGED <<hostVars, callVars>>
    \/ LookupFails /\ UNCHANGED <<vars, hostVars>>

NextGetLogs == HostSteps \/ CallSteps \/ HandlerSteps \/ FileEvents

SpecGetLogs == InitGetLogs /\ [][NextGetLogs]_allVars

FairSpecGetLogs == SpecGetLogs /\ WF_allVars(HandlerSteps)

-----------------------------------------------------------------------------
(***************************************************************************)
(* Properties.                                                             *)
(***************************************************************************)
\* The launch log that is found is that of the launch file asked for, whatever else
\* is in LogPath and in whatever order the host forked, with these exceptions, all
\* of which the code is exposed to: pids that differ in their number of digits; and
\* a log of the very pid after this leader's, if the ros2 launch that got it is of a
\* start that was begun before this one, or of somebody else, or of an earlier boot,
\* the last only if the entry was noted in the hour of the present boot.
OwnLaunchLog ==
    at \in {"extract", "name"} =>
        LET found == dirs[path]
        IN \/ found.of = asked
           \/ ~SameWidth(found.pid, SoughtPid)
           \/ /\ found.pid = SoughtPid
              /\ \/ found.of \in Launches /\ leader[found.of] < leader[asked]
                 \/ found.of = Other
                 \/ found.of = Stale /\ val[2] = 1
=============================================================================
