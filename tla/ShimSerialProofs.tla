-------------------------- MODULE ShimSerialProofs --------------------------
(***************************************************************************)
(* What ShimService promises a controller that does one thing at a time    *)
(* over all launch files: no race on ChildPids, and a shutdown that leaves *)
(* no node behind.                                                         *)
(***************************************************************************)
EXTENDS ShimDisciplineProofs

USE NoneAssumption, NoTaskAssumption, BootsAssumption

-----------------------------------------------------------------------------
(***************************************************************************)
(* At most one goroutine is under way, the one that Shutdown leaves behind *)
(* included, and a range over ChildPids still has all that runs ahead.     *)
(***************************************************************************)
Alone ==
    /\ \A v, w \in Workers : InFlight(v) /\ InFlight(w) => v = w
    /\ \A w \in Workers, c \in Calls : ~(InFlight(w) /\ Busy(c))
    /\ \A c, d \in Calls : Busy(c) /\ Busy(d) => c = d
    /\ pending # {} => /\ \A w \in Workers : ~InFlight(w)
                       /\ \A c \in Calls : ~Busy(c)

LiveHasOwner == \A p \in Pids : group[p] = "live" => owner[p] \in Launches

Ranging(c) == call[c].pc \in {"range", "rangeGrace"}

RangeCovers ==
    \A c \in Calls, p \in Pids :
        Ranging(c) /\ group[p] = "live" =>
            \/ owner[p] \in call[c].owed
            \/ call[c].pc = "rangeGrace" /\ call[c].pid = p

SerialInv ==
    /\ DisciplineInv
    /\ Alone
    /\ LiveHasOwner
    /\ RangeCovers
    /\ ShutdownLeavesNothing

\* Nothing is under way before the first start.
LEMMA SerialInvInit == Init => SerialInv
  BY DisciplineInvInit
     DEF Init, GroupsInit, SerialInv, Alone, LiveHasOwner, RangeCovers, Ranging,
         ShutdownLeavesNothing, InFlight, Busy, IdleWorker, IdleCall

\* When everything is quiet nothing is under way.
LEMMA AllQuietMeans ==
    ASSUME TaskInv, AllQuiet
    PROVE  /\ \A w \in Workers : ~InFlight(w)
           /\ \A c \in Calls : ~Busy(c)
           /\ pending = {}
  <1>1. \A lf \in Launches : Quiet(lf)
    BY DEF AllQuiet, Quiet
  <1>2. \A w \in Workers : InFlight(w) => worker[w].launch \in Launches
    BY DEF TaskInv, TypeOK, InFlight
  <1>3. QED
    BY <1>1, <1>2, QuietMeans DEF AllQuiet

\* No goroutine enters, no node appears, and a range under way goes on as it was:
\* what most steps have in common.
NobodyEnters ==
    /\ \A w \in Workers : InFlight(w)' => InFlight(w)
    /\ \A c \in Calls : Busy(c)' => Busy(c)
    /\ \A c \in Calls : Ranging(c)' =>
          Ranging(c) /\ call'[c].owed = call[c].owed /\ call'[c].pid = call[c].pid
                     /\ call'[c].pc = call[c].pc
    /\ \A p \in Pids :
          group'[p] = "live" => group[p] = "live" /\ owner'[p] = owner[p]
    /\ pending' \subseteq pending

\* Such a step keeps the invariant.
LEMMA NobodyEntersKeeps ==
    ASSUME SerialInv, DisciplineInv', NobodyEnters
    PROVE  SerialInv'
  <1>1. Alone'
    BY DEF SerialInv, Alone, NobodyEnters
  <1>2. LiveHasOwner' /\ ShutdownLeavesNothing'
    BY DEF SerialInv, LiveHasOwner, ShutdownLeavesNothing, NobodyEnters
  <1>3. RangeCovers'
    BY DEF SerialInv, RangeCovers, NobodyEnters
  <1>4. QED
    BY <1>1, <1>2, <1>3 DEF SerialInv

\* No goroutine is left.
LEMMA GoneKeepsSerial ==
    ASSUME SerialInv, DisciplineInv', ShimGone
    PROVE  SerialInv'
  <1>0. TypeOK
    BY DEF SerialInv, DisciplineInv, PidInv
  <1>1. \A w \in Workers : ~InFlight(w)'
    BY <1>0 DEF ShimGone, InFlight, TypeOK, WorkerRecords
  <1>2. \A d \in Calls : ~Busy(d)' /\ ~Ranging(d)'
    BY DEF ShimGone, Busy, Ranging, IdleCall
  <1>3. \A p \in Pids : group'[p] # "live"
    BY <1>0 DEF ShimGone, AdoptedByInit, TypeOK, GroupStates
  <1>4. pending' = {}
    BY DEF ShimGone
  <1>5. QED
    BY <1>1, <1>2, <1>3, <1>4 DEF SerialInv, Alone, LiveHasOwner, RangeCovers,
       ShutdownLeavesNothing

\* A worker goes on, alone.
LEMMA WorkerKeepsSerial ==
    ASSUME SerialInv, DisciplineInv', NEW w \in Workers, WorkerStep(w)
    PROVE  SerialInv'
  <1>0. TypeOK /\ Alone /\ LiveHasOwner
    BY DEF SerialInv, DisciplineInv, PidInv
  <1>1. InFlight(w) /\ UNCHANGED <<pending, call>>
    BY DEF WorkerStep, PrepareFails, PrepareDone, Launch, LaunchFails, Record,
       Report, InFlight, serverVars
  <1>2. \A v \in Workers \ {w} : worker'[v] = worker[v]
    <2>1. ASSUME NEW pc, Goto(w, pc)
          PROVE  \A v \in Workers \ {w} : worker'[v] = worker[v]
      BY <1>0, <2>1 DEF Goto, TypeOK
    <2>2. ASSUME NEW p \in Pids, Launch(w, p)
          PROVE  \A v \in Workers \ {w} : worker'[v] = worker[v]
      BY <1>0, <2>2 DEF Launch, TypeOK
    <2>3. QED
      BY <2>1, <2>2
         DEF WorkerStep, PrepareFails, PrepareDone, LaunchFails, Record, Report
  <1>3. /\ pending = {}
        /\ \A c \in Calls : ~Busy(c) /\ ~Busy(c)' /\ ~Ranging(c)'
    BY <1>0, <1>1 DEF Alone, Busy, Ranging
  <1>4. LiveHasOwner'
    <2>1. CASE UNCHANGED <<group, owner>>
      BY <1>0, <2>1 DEF LiveHasOwner
    <2>2. ASSUME NEW p \in Pids, Launch(w, p) PROVE LiveHasOwner'
      BY <1>0, <2>2 DEF Launch, Fork, LiveHasOwner, TypeOK
    <2>3. QED
      BY <2>1, <2>2 DEF WorkerStep, PrepareFails, PrepareDone, LaunchFails,
         Record, Report
  <1>5. Alone'
    BY <1>0, <1>1, <1>2, <1>3 DEF Alone, InFlight
  <1>6. QED
    BY <1>1, <1>3, <1>4, <1>5 DEF SerialInv, RangeCovers, ShutdownLeavesNothing

\* The steps of a range: take the next entry, kill its group, be done.
LEMMA RangeKeepsSerial ==
    ASSUME SerialInv, DisciplineInv', NEW c \in Calls,
           RangeKill(c) \/ RangeDone(c) \/ \E lf \in Launches : RangeNext(c, lf)
    PROVE  SerialInv'
  <1>0. TypeOK /\ Alone /\ LiveHasOwner /\ RangeCovers /\ DisciplineInv
    BY DEF SerialInv, DisciplineInv, PidInv
  <1>1. Busy(c) /\ Ranging(c) /\ UNCHANGED <<worker, childPids>>
    BY DEF RangeKill, RangeDone, RangeNext, Busy, Ranging, serverVars
  <1>2. /\ pending = {}
        /\ \A w \in Workers : ~InFlight(w) /\ ~InFlight(w)'
        /\ \A d \in Calls \ {c} : ~Busy(d)
    BY <1>0, <1>1 DEF Alone, InFlight
  <1>3. CASE RangeKill(c)
    <2>1. /\ call[c].pc = "rangeGrace" /\ call'[c].pc = "range"
          /\ call'[c].owed = call[c].owed
          /\ \A d \in Calls \ {c} : call'[d] = call[d]
          /\ pending' = {}
          /\ Holds(call[c].pid, call[c].launch)
      BY <1>0, <1>2, <1>3 DEF RangeKill, TypeOK, CallRecords, serverVars,
         DisciplineInv, PidInv, OwnGroups
    <2>2. \A p \in Pids : group'[p] = "live" =>
             group[p] = "live" /\ owner'[p] = owner[p] /\ p # call[c].pid
      BY <1>0, <1>3, <2>1
         DEF RangeKill, KillIfActive, IsProcessActive, Holds, TypeOK
    <2>3. \A d \in Calls \ {c} : ~Busy(d)' /\ ~Ranging(d)'
      BY <1>2, <2>1 DEF Busy, Ranging
    <2>4. Alone'
      BY <1>2, <2>1, <2>3 DEF Alone
    <2>5. LiveHasOwner' /\ RangeCovers'
      BY <1>0, <1>1, <2>1, <2>2, <2>3 DEF LiveHasOwner, RangeCovers
    <2>6. QED
      BY <2>1, <2>4, <2>5 DEF SerialInv, ShutdownLeavesNothing
  <1>4. ASSUME NEW lf \in Launches, RangeNext(c, lf) PROVE SerialInv'
    <2>1. /\ call[c].pc = "range" /\ lf \in Tracked
          /\ call'[c].pc = IF IsProcessActive(childPids[lf])
                           THEN "rangeGrace" ELSE "range"
          /\ call'[c].pid = childPids[lf]
          /\ call'[c].owed = call[c].owed \ {lf}
          /\ \A d \in Calls \ {c} : call'[d] = call[d]
          /\ pending' = {}
          /\ UNCHANGED <<group, owner>>
      <3>1. call[c] \in CallRecords /\ c \in DOMAIN call
        BY <1>0 DEF TypeOK
      <3>2. /\ call'[c].pid = childPids[lf]
            /\ call'[c].owed = call[c].owed \ {lf}
        BY <1>4, <3>1 DEF RangeNext, CallRecords
      <3>3. call'[c].pc = IF IsProcessActive(childPids[lf])
                          THEN "rangeGrace" ELSE "range"
        BY <1>4, <3>1 DEF RangeNext, CallRecords
      <3>4. \A d \in Calls \ {c} : call'[d] = call[d]
        BY <1>0, <1>4 DEF RangeNext, TypeOK
      <3>5. QED
        BY <1>2, <1>4, <3>2, <3>3, <3>4 DEF RangeNext, serverVars
    <2>2. \A d \in Calls \ {c} : ~Busy(d)' /\ ~Ranging(d)'
      BY <1>2, <2>1 DEF Busy, Ranging
    <2>3. Alone'
      BY <1>2, <2>1, <2>2 DEF Alone
    <2>4. RangeCovers'
      <3> SUFFICES ASSUME NEW p \in Pids, group[p] = "live"
                   PROVE  \/ owner[p] \in call'[c].owed
                          \/ call'[c].pc = "rangeGrace" /\ call'[c].pid = p
        BY <2>1, <2>2 DEF RangeCovers
      <3>1. owner[p] \in call[c].owed
        BY <1>0, <1>1, <2>1 DEF RangeCovers
      <3>2. CASE owner[p] = lf
        <4>1. childPids[lf] = p
          BY <1>0, <1>2, <3>2, LiveNodeHeld DEF LiveGroups
        <4>2. IsProcessActive(childPids[lf])
          BY <4>1 DEF IsProcessActive
        <4>3. QED
          BY <2>1, <4>1, <4>2
      <3>3. CASE owner[p] # lf
        BY <2>1, <3>1, <3>3
      <3>4. QED
        BY <3>2, <3>3
    <2>5. QED
      BY <1>0, <2>1, <2>3, <2>4 DEF SerialInv, LiveHasOwner, ShutdownLeavesNothing
  <1>5. CASE RangeDone(c)
    <2>1. /\ call[c].pc = "range" /\ call[c].owed = {}
          /\ call'[c].pc = "idle"
          /\ \A d \in Calls \ {c} : call'[d] = call[d]
          /\ UNCHANGED <<group, owner>>
      BY <1>0, <1>5 DEF RangeDone, IdleCall, TypeOK
    <2>2. \A p \in Pids : group'[p] # "live"
      BY <1>0, <1>1, <2>1 DEF RangeCovers
    <2>3. \A d \in Calls : ~Busy(d)' /\ ~Ranging(d)'
      BY <1>2, <2>1 DEF Busy, Ranging
    <2>4. Alone'
      BY <1>2, <2>3 DEF Alone
    <2>5. QED
      BY <2>2, <2>3, <2>4
         DEF SerialInv, LiveHasOwner, RangeCovers, ShutdownLeavesNothing
  <1>6. QED
    BY <1>3, <1>4, <1>5

\* The steps of a stop or restart, alone.
LEMMA StopKeepsSerial ==
    ASSUME SerialInv, DisciplineInv', NEW c \in Calls,
           \/ StopKill(c) \/ StopDelete(c)
           \/ \E w \in Workers, t \in TaskIds : RestartStart(c, w, t)
    PROVE  SerialInv'
  <1>0. TypeOK /\ Alone
    BY DEF SerialInv, DisciplineInv, PidInv
  <1>1. Busy(c) /\ ~Ranging(c)
    BY DEF StopKill, StopDelete, RestartStart, Busy, Ranging
  <1>2. /\ pending = {}
        /\ \A w \in Workers : ~InFlight(w)
        /\ \A d \in Calls \ {c} : ~Busy(d)
    BY <1>0, <1>1 DEF Alone
  <1>3. CASE StopKill(c)
    <2>1. /\ call'[c].pc = "delete"
          /\ \A d \in Calls \ {c} : call'[d] = call[d]
          /\ UNCHANGED <<pending, worker>>
      BY <1>0, <1>3 DEF StopKill, TypeOK, CallRecords, serverVars
    <2>2. \A p \in Pids :
             group'[p] = "live" => group[p] = "live" /\ owner'[p] = owner[p]
      BY <1>0, <1>3 DEF StopKill, KillIfActive, TypeOK
    <2>3. NobodyEnters
      BY <1>1, <2>1, <2>2 DEF NobodyEnters, InFlight, Busy, Ranging
    <2>4. QED
      BY <2>3, NobodyEntersKeeps
  <1>4. CASE StopDelete(c)
    <2>1. /\ call'[c].pc \in {"idle", "start"}
          /\ \A d \in Calls \ {c} : call'[d].pc = call[d].pc
          /\ UNCHANGED <<pending, worker, group, owner>>
      BY <1>0, <1>4, StopDeleteRecords DEF StopDelete, TypeOK, serverVars
    <2>2. \A d \in Calls : ~Ranging(d)'
      BY <1>2, <2>1 DEF Ranging, Busy
    <2>3. NobodyEnters
      BY <1>1, <2>1, <2>2 DEF NobodyEnters, InFlight, Busy
    <2>4. QED
      BY <2>3, NobodyEntersKeeps
  <1>5. ASSUME NEW w \in Workers, NEW t \in TaskIds, RestartStart(c, w, t)
        PROVE  SerialInv'
    <2>1. /\ \A v \in Workers \ {w} : worker'[v] = worker[v]
          /\ call'[c].pc = "idle"
          /\ \A d \in Calls \ {c} : call'[d] = call[d]
          /\ UNCHANGED <<pending, group, owner>>
      BY <1>0, <1>5 DEF RestartStart, SpawnWorker, NewTaskIds, IdleCall, TypeOK, serverVars
    <2>2. \A d \in Calls : ~Busy(d)' /\ ~Ranging(d)'
      BY <1>2, <2>1 DEF Busy, Ranging
    <2>3. \A v \in Workers \ {w} : ~InFlight(v)'
      BY <1>2, <2>1 DEF InFlight
    <2>4. Alone'
      BY <1>2, <2>1, <2>2, <2>3 DEF Alone
    <2>5. QED
      BY <1>2, <2>1, <2>2, <2>4
         DEF SerialInv, LiveHasOwner, RangeCovers, ShutdownLeavesNothing
  <1>6. QED
    BY <1>3, <1>4, <1>5

\* A goroutine that enters, enters alone.
LEMMA EnterKeepsSerial ==
    ASSUME SerialInv, DisciplineInv', Discipline = "serial",
           \/ \E w \in Workers, t \in TaskIds, lf \in Launches :
                 StartService(w, t, lf)
           \/ \E c \in Calls, op \in {"stop", "restart"}, lf \in Launches :
                 StopRosNode(c, op, lf)
           \/ \E c \in Calls, op \in {"shutdown", "reexec"} : RangeBegin(c, op)
    PROVE  SerialInv'
  <1>0. TypeOK /\ LiveHasOwner /\ TaskInv /\ DisciplineInv
    BY DEF SerialInv, DisciplineInv, PidInv
  <1>1. /\ AllQuiet /\ UNCHANGED <<pending, childPids, group, owner>>
    BY DEF StartService, StopRosNode, RangeBegin, Permitted, serverVars
  <1>2. /\ \A w \in Workers : ~InFlight(w)
        /\ \A c \in Calls : ~Busy(c)
        /\ pending = {}
    BY <1>0, <1>1, AllQuietMeans
  <1>3. ASSUME NEW w \in Workers, NEW t \in TaskIds, NEW lf \in Launches,
               StartService(w, t, lf)
        PROVE  SerialInv'
    <2>1. /\ \A v \in Workers \ {w} : worker'[v] = worker[v]
          /\ call' = call
      BY <1>0, <1>3 DEF StartService, SpawnWorker, NewTaskIds, TypeOK
    <2>2. /\ \A d \in Calls : ~Busy(d)' /\ ~Ranging(d)'
          /\ \A v \in Workers \ {w} : ~InFlight(v)'
      BY <1>2, <2>1 DEF Busy, Ranging, InFlight
    <2>3. Alone'
      BY <1>1, <1>2, <2>2 DEF Alone
    <2>4. QED
      BY <1>0, <1>1, <1>2, <2>2, <2>3
         DEF SerialInv, LiveHasOwner, RangeCovers, ShutdownLeavesNothing
  <1>4. ASSUME NEW c \in Calls, worker' = worker,
               \A d \in Calls \ {c} : call'[d] = call[d],
               \/ ~Ranging(c)'
               \/ call'[c].owed = Tracked
        PROVE  SerialInv'
    <2>1. /\ \A d \in Calls \ {c} : ~Busy(d)' /\ ~Ranging(d)'
          /\ \A v \in Workers : ~InFlight(v)'
      BY <1>2, <1>4 DEF Busy, Ranging, InFlight
    <2>2. Alone'
      BY <1>1, <1>2, <2>1 DEF Alone
    <2>3. ASSUME NEW p \in Pids, group[p] = "live"
          PROVE  owner[p] \in Tracked
      <3>1. owner[p] \in Launches /\ p \in LiveGroups(owner[p])
        BY <1>0, <2>3 DEF LiveHasOwner, LiveGroups
      <3>2. childPids[owner[p]] = p
        BY <1>0, <1>2, <3>1, LiveNodeHeld
      <3>3. QED
        BY <3>1, <3>2 DEF Tracked
    <2>4. RangeCovers'
      BY <1>1, <1>4, <2>1, <2>3 DEF RangeCovers
    <2>5. QED
      BY <1>0, <1>1, <1>2, <2>2, <2>4
         DEF SerialInv, LiveHasOwner, ShutdownLeavesNothing
  <1>5. ASSUME NEW c \in Calls, NEW op \in {"stop", "restart"},
               NEW lf \in Launches, StopRosNode(c, op, lf)
        PROVE  SerialInv'
    <2>1. /\ worker' = worker /\ call'[c].pc = "grace"
          /\ \A d \in Calls \ {c} : call'[d] = call[d]
      BY <1>0, <1>5 DEF StopRosNode, IdleCall, TypeOK
    <2>2. ~Ranging(c)'
      BY <2>1 DEF Ranging
    <2>3. QED
      BY <1>4, <2>1, <2>2
  <1>6. ASSUME NEW c \in Calls, NEW op \in {"shutdown", "reexec"},
               RangeBegin(c, op)
        PROVE  SerialInv'
    <2>1. /\ worker' = worker /\ call'[c].owed = Tracked
          /\ \A d \in Calls \ {c} : call'[d] = call[d]
      BY <1>0, <1>6 DEF RangeBegin, IdleCall, TypeOK
    <2>2. QED
      BY <1>4, <2>1
  <1>7. QED
    BY <1>3, <1>5, <1>6

\* All steps together.
LEMMA SerialInvStep ==
    ASSUME ~IdsCollide, Discipline = "serial"
    PROVE  SerialInv /\ [Next]_vars => SerialInv'
  <1> SUFFICES ASSUME SerialInv, [Next]_vars PROVE SerialInv'
    OBVIOUS
  <1>0. DisciplineInv /\ DisciplineInv' /\ TypeOK
    BY DisciplineInvStep DEF SerialInv, DisciplineInv, PidInv
  <1>1. CASE Boot \/ Register \/ Signal \/ QuitSignal \/ ReexecFails
             \/ UNCHANGED vars
    <2>1. UNCHANGED <<worker, call, group, owner>> /\ pending' \subseteq pending
      BY <1>1 DEF Boot, Register, Signal, QuitSignal, ReexecFails, vars
    <2>2. NobodyEnters
      BY <2>1 DEF NobodyEnters, InFlight, Busy, Ranging
    <2>3. QED
      BY <1>0, <2>2, NobodyEntersKeeps
  <1>2. CASE Environment
    <2>1. UNCHANGED <<pending, worker, call>>
      BY <1>2 DEF Environment, serverVars
    <2>2. \A p \in Pids :
             group'[p] = "live" => group[p] = "live" /\ owner'[p] = owner[p]
      BY <1>0, <1>2 DEF Environment, NodeExits, ForeignFork, OtherExits, TypeOK
    <2>3. NobodyEnters
      BY <2>1, <2>2 DEF NobodyEnters, InFlight, Busy, Ranging
    <2>4. QED
      BY <1>0, <2>3, NobodyEntersKeeps
  <1>3. ASSUME NEW c \in Calls, CallStep(c) PROVE SerialInv'
    BY <1>0, <1>3, StopKeepsSerial, RangeKeepsSerial DEF CallStep
  <1>4. QED
    BY <1>0, <1>1, <1>2, <1>3, WorkerKeepsSerial, EnterKeepsSerial,
       GoneKeepsSerial DEF Next, Exit, Reexec, MapFault

\* A controller that does one thing at a time never makes two goroutines of the
\* shim access ChildPids at a time, one of them to write it.
THEOREM ChildPidsRaceFreeAlways ==
    ASSUME ~IdsCollide, Discipline = "serial"
    PROVE  Spec => []ChildPidsRaceFree
  <1>1. SerialInv => ChildPidsRaceFree
    BY DEF SerialInv, Alone, InFlight, Busy, ChildPidsRaceFree, ChildPidsRace
  <1>2. SerialInv /\ [Next]_vars => SerialInv'
    BY SerialInvStep
  <1>3. QED
    BY <1>1, <1>2, SerialInvInit, PTL DEF Spec

\* Its shutdown leaves no node behind that nobody will be able to stop.
THEOREM ShutdownLeavesNothingAlways ==
    ASSUME ~IdsCollide, Discipline = "serial"
    PROVE  Spec => []ShutdownLeavesNothing
  <1>1. SerialInv => ShutdownLeavesNothing
    BY DEF SerialInv
  <1>2. SerialInv /\ [Next]_vars => SerialInv'
    BY SerialInvStep
  <1>3. QED
    BY <1>1, <1>2, SerialInvInit, PTL DEF Spec
=============================================================================
