--------------------------- MODULE ProcessGroups ---------------------------
(***************************************************************************)
(* The operating system's process table, as far as the shim can see it.    *)
(*                                                                         *)
(* StartLaunch (src/connection/service.go) runs                            *)
(*   bash -c "nohup bash -c '... ros2 launch ...' > /dev/null & echo $!"   *)
(* with Setpgid, so the outer bash leads a process group that holds the    *)
(* ROS node.  The outer bash exits as soon as it has printed $!, and since *)
(* the shim calls Start and never Wait it stays in the table as a zombie   *)
(* for as long as the shim lives.  ChildPids stores the pid of that leader.*)
(*                                                                         *)
(* A pid is in one of five conditions:                                     *)
(*   "free"     no process and no group has this pid                       *)
(*   "live"     leader of a group started by the running shim; the ROS     *)
(*              node in the group still runs                               *)
(*   "dead"     the same group after its last member has exited; the       *)
(*              leader's zombie keeps the pid taken                        *)
(*   "orphan"   a group whose node runs, started by a shim that is gone    *)
(*              (init has reaped the leader)                               *)
(*   "foreign"  some process that is not the shim's                        *)
(***************************************************************************)
EXTENDS Naturals

CONSTANTS
    Pids,       \* process ids
    Launches,   \* launch file names
    None        \* "no pid", "no launch file", "no task": a value of its own

ASSUME NoneAssumption == None \notin Pids \cup Launches

VARIABLES
    group,      \* [Pids -> GroupStates]
    owner       \* [Pids -> launch file the group was started for, or None]

groupVars == <<group, owner>>

GroupStates == {"free", "live", "dead", "orphan", "foreign"}

GroupsInit ==
    /\ group = [p \in Pids |-> "free"]
    /\ owner = [p \in Pids |-> None]

-----------------------------------------------------------------------------
\* kill(pid, 0): succeeds for anything in the table, a zombie included.
IsProcessActive(p) == group[p] \in {"live", "dead", "foreign"}

\* cmd.Start() in StartLaunch: the kernel picks a pid that is not taken.
Fork(p, lf) ==
    /\ group[p] = "free"
    /\ group' = [group EXCEPT ![p] = "live"]
    /\ owner' = [owner EXCEPT ![p] = lf]

\* Broken variant of KillIfActive: SIGTERM is all that is sent.
KillIfActiveOnlyTerm(p) == UNCHANGED groupVars

\* The second half of TerminateProcess, after the three seconds of grace: if
\* the pid is still in the table the whole group is killed.
KillIfActive(p) ==
    /\ group' = [group EXCEPT ![p] = IF IsProcessActive(p) THEN "dead" ELSE @]
    /\ UNCHANGED owner

\* Broken variant of NodeExits: something waits for the leader, so the pid is
\* given back while ChildPids and the handlers still hold it.
NodeExitsReaped(p) ==
    /\ group[p] = "live"
    /\ group' = [group EXCEPT ![p] = "free"]
    /\ owner' = [owner EXCEPT ![p] = None]

\* The node exits: by itself, or because of the SIGTERM that TerminateProcess
\* sends.  Nobody waits for the leader, so the pid remains taken.
NodeExits(p) ==
    /\ group[p] = "live"
    /\ group' = [group EXCEPT ![p] = "dead"]
    /\ UNCHANGED owner

\* Processes that are not the running shim's children come and go.
ForeignFork(p) ==
    /\ group[p] = "free"
    /\ group' = [group EXCEPT ![p] = "foreign"]
    /\ UNCHANGED owner

OtherExits(p) ==
    /\ group[p] \in {"orphan", "foreign"}
    /\ group' = [group EXCEPT ![p] = "free"]
    /\ owner' = [owner EXCEPT ![p] = None]

\* The shim's process is gone: init reaps the zombies and adopts the nodes
\* that still run.
AdoptedByInit ==
    /\ group' = [p \in Pids |-> CASE group[p] = "dead" -> "free"
                                  [] group[p] = "live" -> "orphan"
                                  [] OTHER -> group[p]]
    /\ owner' = [p \in Pids |-> IF group[p] = "dead" THEN None ELSE owner[p]]
=============================================================================
