--------------------------- MODULE GetLogsProofs ---------------------------
(***************************************************************************)
(* The launch log that GetLogs finds is that of the launch file asked for, *)
(* with the exceptions that OwnLaunchLog lists; and each of the two files  *)
(* that a reply quotes is read as if at one moment.  For any base, any     *)
(* number of launch files and pids, and any pids of an earlier boot.       *)
(***************************************************************************)
EXTENDS GetLogs, LogTailProofs

Owners == Launchers \cup {Stale}
Dir == [of : Owners, pid : Nat, hour : Nat, log : BOOLEAN, node : Nat]

\* Pids come in the order of the forks.
PidOrder ==
    /\ nextPid \in Nat
    /\ nextPid <= MaxPid + 1
    /\ leader \in [Launches -> Nat]
    /\ launch \in [Launchers -> Nat]
    /\ \A lf \in Launches : leader[lf] < nextPid \/ leader[lf] = 0
    /\ \A lf \in Launchers : launch[lf] < nextPid
    /\ \A lf, lg \in Launches :
          lf # lg /\ leader[lf] = leader[lg] => leader[lf] = 0
    /\ \A lf \in Launches :
          launch[lf] # 0 => leader[lf] # 0 /\ leader[lf] < launch[lf]

\* An entry of ChildPids has the leader's pid and an hour of this boot.
EntryOf(lf, e) ==
    /\ leader[lf] # 0
    /\ e[1] = leader[lf]
    /\ e[2] \in Nat \ {0}

\* A directory is of an earlier boot, which ended in the hour of this one at the
\* latest, or has its launch's pid in its name.
DirOf(d) ==
    IF d.of = Stale THEN d.hour \in {0, 1} ELSE launch[d.of] # 0 /\ d.pid = launch[d.of]

HostInv ==
    /\ PidOrder
    /\ hour \in Nat \ {0}
    /\ \A lf \in Launches : childPids[lf] = <<>> \/ EntryOf(lf, childPids[lf])
    /\ DOMAIN childPids = Launches
    /\ dirs \in Seq(Dir)
    /\ \A i \in 1 .. Len(dirs) : DirOf(dirs[i])

\* What the handler has found fits the entry it has read.
CallInv ==
    /\ at \in {"find", "extract", "name"} => asked \in Launches /\ EntryOf(asked, val)
    /\ at \in {"extract", "name"} =>
          /\ path \in 1 .. Len(dirs)
          /\ dirs[path].hour = val[2]
          /\ HasSuffix(dirs[path].pid, SoughtPid)

LookupInv == HostInv /\ CallInv

\* A number whose digits end in those of another one of the same width is that
\* number.
LEMMA SameWidthSame ==
    ASSUME NEW p \in Nat, NEW q \in Nat, HasSuffix(p, q), SameWidth(p, q)
    PROVE  p = q
  <1>1. PICK b \in Powers : q < b /\ p % b = q
    BY DEF HasSuffix
  <1>2. p < b
    BY <1>1 DEF SameWidth
  <1>3. b \in Nat /\ b > 0
    BY LookupAssumption
  <1>4. p % b = p
    BY <1>2, <1>3
  <1>5. QED
    BY <1>1, <1>4

\* A set of indices that is not empty has a least one.
LEMMA MinIn == ASSUME NEW S \in SUBSET Nat, S # {} PROVE Min(S) \in S
  BY LeastNat DEF Min

\* What the invariant says of a directory found is what the property says.
LEMMA FoundIsOwn == LookupInv => OwnLaunchLog
  <1> DEFINE d == dirs[path]
  <1> SUFFICES ASSUME LookupInv, at \in {"extract", "name"} PROVE
        \/ d.of = asked
        \/ ~SameWidth(d.pid, SoughtPid)
        \/ /\ d.pid = SoughtPid
           /\ \/ d.of \in Launches /\ leader[d.of] < leader[asked]
              \/ d.of = Other
              \/ d.of = Stale /\ val[2] = 1
    BY DEF OwnLaunchLog
  <1>1. /\ asked \in Launches /\ leader[asked] # 0 /\ val[1] = leader[asked]
        /\ val[2] # 0 /\ d.hour = val[2] /\ HasSuffix(d.pid, SoughtPid)
        /\ DirOf(d) /\ d \in Dir
    BY DEF LookupInv, CallInv, HostInv, EntryOf
  <1>2. /\ leader \in [Launches -> Nat] /\ launch \in [Launchers -> Nat]
        /\ \A lf, lg \in Launches :
              lf # lg /\ leader[lf] = leader[lg] => leader[lf] = 0
        /\ \A lf \in Launches :
              launch[lf] # 0 => leader[lf] # 0 /\ leader[lf] < launch[lf]
    BY DEF LookupInv, HostInv, PidOrder
  <1> HIDE DEF d
  <1>3. SoughtPid \in Nat /\ SoughtPid = leader[asked] + 1
    BY <1>1, <1>2 DEF SoughtPid
  <1>4. d.of = Stale => val[2] = 1
    BY <1>1 DEF DirOf
  <1>5. ASSUME SameWidth(d.pid, SoughtPid) PROVE d.pid = SoughtPid
    BY <1>1, <1>3, <1>5, SameWidthSame DEF Dir
  <1>6. ASSUME d.of \in Launches, d.of # asked, d.pid = SoughtPid
        PROVE  leader[d.of] < leader[asked]
    <2>1. d.pid = launch[d.of] /\ launch[d.of] # 0
      BY <1>1, <1>6, LookupAssumption DEF DirOf
    <2>2. leader[d.of] < launch[d.of] /\ leader[d.of] # leader[asked]
      BY <1>1, <1>2, <1>6, <2>1
    <2>3. leader[d.of] \in Nat /\ leader[asked] \in Nat
      BY <1>1, <1>2, <1>6
    <2>4. QED
      BY <1>3, <1>6, <2>1, <2>2, <2>3
  <1>7. d.of \in Launches \cup {Other, Stale}
    BY <1>1 DEF Dir, Owners, Launchers
  <1>8. QED
    BY <1>4, <1>5, <1>6, <1>7

-----------------------------------------------------------------------------
\* At the beginning only an earlier boot has left something.
LEMMA LookupInitInv == InitGetLogs => LookupInv
  <1> SUFFICES ASSUME InitGetLogs PROVE LookupInv
    OBVIOUS
  <1>1. dirs \in Seq(Dir) /\ \A i \in 1 .. Len(dirs) : DirOf(dirs[i])
    <2>1. CASE dirs = <<>>
      BY <2>1
    <2>2. CASE dirs # <<>>
      <3>1. PICK p \in StalePids, h \in {0, 1} :
              dirs = <<[of |-> Stale, pid |-> p, hour |-> h, log |-> TRUE,
                        node |-> p + 1]>>
        BY <2>2 DEF InitGetLogs, EmptyHost, Leftovers
      <3>2. [of |-> Stale, pid |-> p, hour |-> h, log |-> TRUE, node |-> p + 1] \in Dir
        BY LookupAssumption DEF Dir, Owners
      <3>3. dirs \in Seq(Dir) /\ Len(dirs) = 1 /\ dirs[1].of = Stale /\ dirs[1].hour = h
        BY <3>1, <3>2
      <3>4. QED
        BY <3>3 DEF DirOf
    <2>3. QED
      BY <2>1, <2>2
  <1>2. PidOrder
    BY LookupAssumption DEF InitGetLogs, EmptyHost, PidOrder, Launchers
  <1>3. CallInv
    BY DEF InitGetLogs, CallInv
  <1>4. QED
    BY <1>1, <1>2, <1>3 DEF InitGetLogs, EmptyHost, LookupInv, HostInv

\* Directories that keep owner, pid and hour, in a sequence that only grows.
SameDirs ==
    /\ dirs' \in Seq(Dir)
    /\ Len(dirs) <= Len(dirs')
    /\ \A i \in 1 .. Len(dirs) : /\ dirs'[i].of = dirs[i].of
                                 /\ dirs'[i].pid = dirs[i].pid
                                 /\ dirs'[i].hour = dirs[i].hour

\* Leaders and launches, once forked, keep their pids.
SamePids ==
    /\ \A lf \in Launches : leader[lf] # 0 => leader'[lf] = leader[lf]
    /\ \A lf \in Launchers : launch[lf] # 0 => launch'[lf] = launch[lf]

\* What has been read stays true while the host goes on.
LEMMA HostKeepsCall ==
    ASSUME LookupInv, SameDirs, SamePids, UNCHANGED callVars
    PROVE  CallInv'
  <1>1. dirs \in Seq(Dir) /\ Len(dirs) \in Nat /\ Len(dirs') \in Nat
    BY DEF LookupInv, HostInv, SameDirs
  <1>2. at \in {"find", "extract", "name"} => EntryOf(asked, val)' /\ asked' \in Launches
    BY DEF LookupInv, CallInv, EntryOf, SamePids, callVars
  <1>3. ASSUME at \in {"extract", "name"}
        PROVE  /\ path' \in 1 .. Len(dirs')
               /\ dirs'[path'].hour = val'[2]
               /\ HasSuffix(dirs[path].pid, SoughtPid)'
    <2>1. path \in 1 .. Len(dirs) /\ dirs[path].hour = val[2]
          /\ HasSuffix(dirs[path].pid, SoughtPid)
      BY <1>3 DEF LookupInv, CallInv
    <2>2. path' = path /\ val' = val
      BY DEF callVars
    <2>3. dirs'[path].pid = dirs[path].pid /\ dirs'[path].hour = dirs[path].hour
      BY <2>1 DEF SameDirs
    <2>4. path \in 1 .. Len(dirs')
      BY <1>1, <2>1 DEF SameDirs
    <2>5. QED
      BY <2>1, <2>2, <2>3, <2>4 DEF HasSuffix, SoughtPid
  <1>4. at' = at
    BY DEF callVars
  <1>5. QED
    BY <1>2, <1>3, <1>4 DEF CallInv

\* Directories that were there are still of their launches.
LEMMA SameDirOf ==
    ASSUME HostInv, SameDirs, SamePids, NEW i \in 1 .. Len(dirs)
    PROVE  DirOf(dirs[i])'
  <1>1. dirs[i] \in Dir /\ DirOf(dirs[i])
    BY DEF HostInv
  <1>2. /\ dirs'[i].of = dirs[i].of /\ dirs'[i].pid = dirs[i].pid
        /\ dirs'[i].hour = dirs[i].hour
    BY DEF SameDirs
  <1>3. dirs[i].of # Stale => dirs[i].of \in Launchers
    BY <1>1 DEF Dir, Owners
  <1>4. QED
    BY <1>1, <1>2, <1>3 DEF DirOf, SamePids

\* A step that leaves the directories alone and gives away a pid at most.
LEMMA ForkKeeps ==
    ASSUME HostInv, SamePids, PidOrder', UNCHANGED <<dirs, hour, childPids>>
    PROVE  HostInv' /\ SameDirs
  <1>1. SameDirs
    BY DEF SameDirs, HostInv
  <1>2. \A i \in 1 .. Len(dirs') : DirOf(dirs[i])'
    BY <1>1, SameDirOf
  <1>3. \A lf \in Launches : childPids'[lf] = <<>> \/ EntryOf(lf, childPids[lf])'
    BY DEF HostInv, EntryOf, SamePids
  <1>4. QED
    BY <1>1, <1>2, <1>3 DEF HostInv

\* A directory gets its launch log, or its launch log gets a line.
LEMMA DirUpdate ==
    ASSUME dirs \in Seq(Dir), NEW i \in 1 .. Len(dirs), NEW l \in BOOLEAN, NEW n \in Nat,
           dirs' = [dirs EXCEPT ![i] = [of |-> dirs[i].of, pid |-> dirs[i].pid,
                                        hour |-> dirs[i].hour, log |-> l, node |-> n]]
    PROVE  SameDirs /\ Len(dirs') = Len(dirs)
  <1> DEFINE e == [of |-> dirs[i].of, pid |-> dirs[i].pid, hour |-> dirs[i].hour,
                   log |-> l, node |-> n]
  <1>1. dirs[i] \in Dir
    OBVIOUS
  <1>2. e \in Dir /\ e.of = dirs[i].of /\ e.pid = dirs[i].pid /\ e.hour = dirs[i].hour
    BY <1>1 DEF Dir
  <1> HIDE DEF e
  <1>3. dirs' = [dirs EXCEPT ![i] = e]
    BY DEF e
  <1>4. dirs' \in Seq(Dir) /\ Len(dirs') = Len(dirs)
    BY <1>2, <1>3
  <1>5. \A j \in 1 .. Len(dirs) : dirs'[j] = IF j = i THEN e ELSE dirs[j]
    BY <1>3
  <1>6. QED
    BY <1>2, <1>4, <1>5 DEF SameDirs

\* A launch log that is created changes nothing else of its directory.
LEMMA LogUpdate ==
    ASSUME NEW d \in Dir, NEW l
    PROVE  [d EXCEPT !.log = l] = [of |-> d.of, pid |-> d.pid, hour |-> d.hour,
                                   log |-> l, node |-> d.node]
  BY DEF Dir

\* Each step of the host keeps the invariant, and what was there.
LEMMA HostStep ==
    ASSUME HostInv, Host PROVE HostInv' /\ SameDirs /\ SamePids
  <1>0. /\ PidOrder /\ dirs \in Seq(Dir) /\ Len(dirs) \in Nat
        /\ nextPid \in Nat /\ hour \in Nat \ {0}
        /\ leader \in [Launches -> Nat] /\ launch \in [Launchers -> Nat]
        /\ Launches \subseteq Launchers /\ Other \in Launchers \ Launches
        /\ DOMAIN dirs = 1 .. Len(dirs)
    BY LookupAssumption DEF HostInv, PidOrder, Launchers
  <1>1. ASSUME NEW lf \in Launches, ForkLeader(lf)
        PROVE  HostInv' /\ SameDirs /\ SamePids
    <2>1. /\ leader[lf] = 0 /\ leader' = [leader EXCEPT ![lf] = nextPid]
          /\ nextPid <= MaxPid /\ nextPid' = nextPid + 1 /\ launch' = launch
          /\ UNCHANGED <<dirs, hour, childPids>>
      BY <1>1 DEF ForkLeader
    <2>2. PidOrder'
      <3>1. /\ leader' \in [Launches -> Nat] /\ launch' \in [Launchers -> Nat]
            /\ nextPid' \in Nat
        BY <1>0, <2>1
      <3>2. /\ nextPid' <= MaxPid + 1
            /\ \A lg \in Launches : leader'[lg] < nextPid' \/ leader'[lg] = 0
            /\ \A lg \in Launchers : launch'[lg] < nextPid'
        BY <1>0, <2>1, LookupAssumption DEF PidOrder
      <3>3. ASSUME NEW lg \in Launches, NEW lh \in Launches, lg # lh,
                   leader'[lg] = leader'[lh]
            PROVE  leader'[lg] = 0
        BY <1>0, <2>1, <3>3 DEF PidOrder
      <3>4. ASSUME NEW lg \in Launches, launch'[lg] # 0
            PROVE  leader'[lg] # 0 /\ leader'[lg] < launch'[lg]
        BY <1>0, <2>1, <3>4 DEF PidOrder
      <3>5. QED
        BY <3>1, <3>2, <3>3, <3>4 DEF PidOrder
    <2>3. SamePids
      BY <1>0, <2>1 DEF SamePids
    <2>4. QED
      BY <2>1, <2>2, <2>3, ForkKeeps
  <1>2. ASSUME NEW lf \in Launches, Record(lf)
        PROVE  HostInv' /\ SameDirs /\ SamePids
    <2>1. /\ leader[lf] # 0
          /\ childPids' = [childPids EXCEPT ![lf] = <<leader[lf], hour>>]
          /\ UNCHANGED <<nextPid, hour, leader, launch, dirs>>
      BY <1>2 DEF Record
    <2>2. SameDirs /\ SamePids
      BY <1>0, <2>1 DEF SameDirs, SamePids
    <2>3. \A i \in 1 .. Len(dirs') : DirOf(dirs[i])'
      BY <2>1, <2>2, SameDirOf
    <2>4. DOMAIN childPids' = Launches
      BY <2>1 DEF HostInv
    <2>5. ASSUME NEW lg \in Launches
          PROVE  childPids'[lg] = <<>> \/ EntryOf(lg, childPids[lg])'
      <3>1. CASE lg = lf
        BY <1>0, <2>1, <3>1 DEF EntryOf, HostInv
      <3>2. CASE lg # lf
        BY <2>1, <3>2 DEF EntryOf, HostInv
      <3>3. QED
        BY <3>1, <3>2
    <2>6. PidOrder'
      BY <1>0, <2>1 DEF PidOrder
    <2>7. QED
      BY <1>0, <2>1, <2>2, <2>3, <2>4, <2>5, <2>6 DEF HostInv
  <1>3. ASSUME NEW lf \in Launches, ForkLaunch(lf)
        PROVE  HostInv' /\ SameDirs /\ SamePids
    <2>1. /\ leader[lf] # 0 /\ launch[lf] = 0
          /\ launch' = [launch EXCEPT ![lf] = nextPid]
          /\ nextPid <= MaxPid /\ nextPid' = nextPid + 1 /\ leader' = leader
          /\ UNCHANGED <<dirs, hour, childPids>>
      BY <1>3 DEF ForkLaunch
    <2>2. PidOrder'
      BY <1>0, <2>1, LookupAssumption DEF PidOrder
    <2>3. SamePids
      BY <1>0, <2>1 DEF SamePids
    <2>4. QED
      BY <2>1, <2>2, <2>3, ForkKeeps
  <1>4. CASE OtherFork
    <2>1. /\ nextPid <= MaxPid /\ nextPid' = nextPid + 1
          /\ UNCHANGED <<leader, launch, dirs, hour, childPids>>
      BY <1>4 DEF OtherFork
    <2>2. PidOrder' /\ SamePids
      BY <1>0, <2>1, LookupAssumption DEF PidOrder, SamePids
    <2>3. QED
      BY <2>1, <2>2, ForkKeeps
  <1>5. CASE Tick
    <2>1. hour' = hour + 1 /\ UNCHANGED <<nextPid, leader, launch, dirs, childPids>>
      BY <1>5 DEF Tick
    <2>2. PidOrder' /\ SamePids /\ SameDirs
      BY <1>0, <2>1 DEF PidOrder, SamePids, SameDirs
    <2>3. \A i \in 1 .. Len(dirs') : DirOf(dirs[i])'
      BY <2>1, <2>2, SameDirOf
    <2>4. QED
      BY <1>0, <2>1, <2>2, <2>3 DEF HostInv, EntryOf
  <1>6. ASSUME NEW lf \in Launchers, MakeDirectory(lf)
        PROVE  HostInv' /\ SameDirs /\ SamePids
    <2> DEFINE d == [of |-> lf, pid |-> launch[lf], hour |-> hour,
                     log |-> FALSE, node |-> 0]
    <2>1. /\ launch[lf] # 0 /\ dirs' = Append(dirs, d)
          /\ UNCHANGED <<nextPid, hour, leader, launch, childPids>>
      BY <1>6 DEF MakeDirectory
    <2>2. d \in Dir /\ d.of = lf /\ d.pid = launch[lf]
      BY <1>0 DEF Dir, Owners
    <2> HIDE DEF d
    <2>3. /\ dirs' \in Seq(Dir) /\ Len(dirs') = Len(dirs) + 1
          /\ \A i \in 1 .. Len(dirs) : dirs'[i] = dirs[i]
          /\ dirs'[Len(dirs) + 1] = d
      BY <1>0, <2>1, <2>2, AppendProperties
    <2>4. SameDirs /\ SamePids /\ PidOrder'
      BY <1>0, <2>1, <2>3 DEF SameDirs, SamePids, PidOrder
    <2>5. ASSUME NEW i \in 1 .. Len(dirs') PROVE DirOf(dirs[i])'
      <3>1. CASE i \in 1 .. Len(dirs)
        BY <2>4, <3>1, SameDirOf
      <3>2. CASE i = Len(dirs) + 1
        BY <2>1, <2>2, <2>3, <3>2, LookupAssumption DEF DirOf, Launchers
      <3>3. QED
        BY <1>0, <2>3, <3>1, <3>2
    <2>6. QED
      BY <2>1, <2>3, <2>4, <2>5 DEF HostInv, EntryOf
  <1>7. ASSUME NEW i \in DOMAIN dirs, CreateLaunchLog(i)
        PROVE  HostInv' /\ SameDirs /\ SamePids
    <2>1. /\ dirs' = [dirs EXCEPT ![i].log = TRUE]
          /\ UNCHANGED <<nextPid, hour, leader, launch, childPids>>
      BY <1>7 DEF CreateLaunchLog
    <2>2. dirs[i] \in Dir
      BY <1>0
    <2>3. SameDirs /\ Len(dirs') = Len(dirs)
      <3>1. [dirs[i] EXCEPT !.log = TRUE] =
              [of |-> dirs[i].of, pid |-> dirs[i].pid, hour |-> dirs[i].hour,
               log |-> TRUE, node |-> dirs[i].node]
        BY <2>2, LogUpdate
      <3>2. dirs[i].node \in Nat
        BY <2>2 DEF Dir
      <3>3. dirs' = [dirs EXCEPT ![i] = [dirs[i] EXCEPT !.log = TRUE]]
        BY <2>1
      <3>4. QED
        BY <1>0, <3>1, <3>2, <3>3, DirUpdate
    <2>4. SamePids /\ PidOrder' /\ Len(dirs') = Len(dirs)
      BY <1>0, <2>1 DEF SamePids, PidOrder
    <2>5. \A j \in 1 .. Len(dirs') : DirOf(dirs[j])'
      BY <2>3, <2>4, SameDirOf
    <2>6. QED
      BY <2>1, <2>3, <2>4, <2>5 DEF HostInv, EntryOf, SameDirs
  <1>8. ASSUME NEW i \in DOMAIN dirs, StartNode(i)
        PROVE  HostInv' /\ SameDirs /\ SamePids
    <2>1. /\ dirs' = [dirs EXCEPT ![i].node = nextPid]
          /\ nextPid <= MaxPid /\ nextPid' = nextPid + 1
          /\ UNCHANGED <<hour, leader, launch, childPids>>
      BY <1>8 DEF StartNode
    <2>2. dirs[i] \in Dir
      BY <1>0
    <2>3. SameDirs /\ Len(dirs') = Len(dirs)
      <3>1. [dirs[i] EXCEPT !.node = nextPid] =
              [of |-> dirs[i].of, pid |-> dirs[i].pid, hour |-> dirs[i].hour,
               log |-> dirs[i].log, node |-> nextPid]
        BY <2>2 DEF Dir
      <3>2. dirs[i].log \in BOOLEAN
        BY <2>2 DEF Dir
      <3>3. dirs' = [dirs EXCEPT ![i] = [dirs[i] EXCEPT !.node = nextPid]]
        BY <2>1
      <3>4. QED
        BY <1>0, <3>1, <3>2, <3>3, DirUpdate
    <2>4. SamePids /\ PidOrder' /\ Len(dirs') = Len(dirs)
      BY <1>0, <2>1, LookupAssumption DEF SamePids, PidOrder
    <2>5. \A j \in 1 .. Len(dirs') : DirOf(dirs[j])'
      BY <2>3, <2>4, SameDirOf
    <2>6. QED
      BY <2>1, <2>3, <2>4, <2>5 DEF HostInv, EntryOf, SameDirs
  <1>9. ASSUME NEW i \in DOMAIN dirs, CreateNodeLog(i)
        PROVE  HostInv' /\ SameDirs /\ SamePids
    <2>1. UNCHANGED <<nextPid, hour, leader, launch, childPids, dirs>>
      BY <1>9 DEF CreateNodeLog
    <2>2. PidOrder' /\ SamePids
      BY <1>0, <2>1 DEF PidOrder, SamePids
    <2>3. QED
      BY <2>1, <2>2, ForkKeeps
  <1>10. CASE ForkOtherLaunch
    <2>1. /\ launch[Other] = 0 /\ launch' = [launch EXCEPT ![Other] = nextPid]
          /\ nextPid <= MaxPid /\ nextPid' = nextPid + 1 /\ leader' = leader
          /\ UNCHANGED <<dirs, hour, childPids>>
      BY <1>10 DEF ForkOtherLaunch
    <2>2. /\ launch' \in [Launchers -> Nat] /\ launch'[Other] = nextPid
          /\ \A lf \in Launchers : lf # Other => launch'[lf] = launch[lf]
      BY <1>0, <2>1
    <2>3. PidOrder'
      BY <1>0, <2>1, <2>2, LookupAssumption DEF PidOrder
    <2>4. SamePids
      BY <1>0, <2>1, <2>2 DEF SamePids
    <2>5. QED
      BY <2>1, <2>3, <2>4, ForkKeeps
  <1>11. QED
    BY <1>1, <1>2, <1>3, <1>4, <1>5, <1>6, <1>7, <1>8, <1>9, <1>10 DEF Host

-----------------------------------------------------------------------------
\* A step of the handler that leaves the host alone.
LEMMA SameHost == ASSUME HostInv, UNCHANGED hostVars PROVE HostInv'
  BY DEF HostInv, hostVars, PidOrder, EntryOf, DirOf

\* A call copies the entry, a search finds what fits it.
LEMMA HandlerStep ==
    ASSUME LookupInv, UNCHANGED hostVars,
           \/ CallRefused \/ (\E lf \in Launches : Call(lf))
           \/ Find \/ ExtractPIDFromLog \/ LookupFails
    PROVE  LookupInv'
  <1>0. HostInv'
    BY SameHost DEF LookupInv
  <1>1. UNCHANGED <<leader, dirs, childPids>>
    BY DEF hostVars
  <1>2. CASE CallRefused
    BY <1>0, <1>2 DEF CallRefused, LookupInv, CallInv
  <1>3. ASSUME NEW lf \in Launches, Call(lf) PROVE CallInv'
    <2>1. CASE childPids[lf] = <<>>
      BY <1>3, <2>1 DEF Call, CallInv
    <2>2. CASE childPids[lf] # <<>>
      <3>1. EntryOf(lf, childPids[lf])
        BY <2>2 DEF LookupInv, HostInv
      <3>2. at' = "find" /\ asked' = lf /\ val' = childPids[lf]
        BY <1>3, <2>2 DEF Call
      <3>3. QED
        BY <1>1, <3>1, <3>2 DEF CallInv, EntryOf
    <2>3. QED
      BY <2>1, <2>2
  <1>4. CASE Find
    <2>1. /\ asked \in Launches /\ EntryOf(asked, val)
          /\ UNCHANGED <<asked, val>> /\ FindLogFile(SoughtPid, val[2])
      BY <1>4 DEF Find, LookupInv, CallInv
    <2>2. EntryOf(asked, val)' /\ SoughtPid' = SoughtPid
      BY <1>1, <2>1 DEF EntryOf, SoughtPid
    <2> DEFINE found == Candidates(SoughtPid, val[2])
    <2>3. CASE found = {}
      <3>1. at' = "error"
        BY <2>1, <2>3 DEF FindLogFile
      <3>2. QED
        BY <1>0, <3>1 DEF CallInv, LookupInv
    <2>4. CASE found # {}
      <3>1. at' = "extract" /\ path' = Min(found)
        BY <2>1, <2>4 DEF FindLogFile
      <3>2. DOMAIN dirs = 1 .. Len(dirs) /\ Len(dirs) \in Nat
        BY DEF LookupInv, HostInv
      <3>3. found \in SUBSET Nat
        BY <3>2 DEF Candidates
      <3>4. Min(found) \in found
        BY <2>4, <3>3, MinIn
      <3>5. /\ path' \in 1 .. Len(dirs) /\ dirs[path'].hour = val[2]
            /\ HasSuffix(dirs[path'].pid, SoughtPid)
        BY <3>1, <3>2, <3>4 DEF Candidates
      <3>6. HasSuffix(dirs[path].pid, SoughtPid)'
        BY <1>1, <2>2, <3>5 DEF HasSuffix
      <3>7. QED
        BY <1>0, <1>1, <2>1, <2>2, <3>1, <3>5, <3>6 DEF CallInv, LookupInv
    <2>5. HIDE DEF found
    <2>6. QED
      BY <2>3, <2>4
  <1>5. CASE ExtractPIDFromLog
    <2>1. at = "extract" /\ at' \in {"error", "name"} /\ UNCHANGED <<asked, val, path>>
      BY <1>5 DEF ExtractPIDFromLog
    <2>2. /\ asked \in Launches /\ EntryOf(asked, val)
          /\ path \in 1 .. Len(dirs) /\ dirs[path].hour = val[2]
          /\ HasSuffix(dirs[path].pid, SoughtPid)
      BY <2>1 DEF LookupInv, CallInv
    <2>3. HasSuffix(dirs[path].pid, SoughtPid)' /\ EntryOf(asked, val)'
      BY <1>1, <2>1, <2>2 DEF HasSuffix, EntryOf, SoughtPid
    <2>4. QED
      BY <1>0, <1>1, <2>1, <2>2, <2>3 DEF CallInv, LookupInv
  <1>6. CASE LookupFails
    BY <1>0, <1>6 DEF LookupFails, LookupInv, CallInv
  <1>7. QED
    BY <1>0, <1>2, <1>3, <1>4, <1>5, <1>6 DEF LookupInv

\* When everything is forgotten, there is nothing that could be wrong.
LEMMA NameStep == ASSUME LookupInv, GetLogFilename PROVE LookupInv'
  <1>1. CASE \E l \in logs : HasDigits(l.pid, launchpid)
    <2>1. /\ at' = "node" /\ nextPid' = 1 /\ hour' = 1
          /\ leader' = [lf \in Launches |-> 0] /\ launch' = [lf \in Launchers |-> 0]
          /\ childPids' = [lf \in Launches |-> <<>>] /\ dirs' = <<>>
      BY <1>1 DEF GetLogFilename
    <2>2. PidOrder'
      BY <2>1, LookupAssumption DEF PidOrder, Launchers
    <2>3. dirs' \in Seq(Dir) /\ 1 .. Len(dirs') = {} /\ DOMAIN childPids' = Launches
      BY <2>1
    <2>4. HostInv'
      BY <2>1, <2>2, <2>3 DEF HostInv
    <2>5. CallInv'
      BY <2>1 DEF CallInv
    <2>6. QED
      BY <2>4, <2>5 DEF LookupInv
  <1>2. CASE ~ \E l \in logs : HasDigits(l.pid, launchpid)
    <2>1. at' = "error" /\ UNCHANGED hostVars
      BY <1>2 DEF GetLogFilename
    <2>2. HostInv'
      BY <2>1, SameHost DEF LookupInv
    <2>3. CallInv'
      BY <2>1 DEF CallInv
    <2>4. QED
      BY <2>2, <2>3 DEF LookupInv
  <1>3. QED
    BY <1>1, <1>2

\* Every step of the composition keeps the invariant of the lookup.
LEMMA LookupStep == LookupInv /\ [NextGetLogs]_allVars => LookupInv'
  <1> SUFFICES ASSUME LookupInv, [NextGetLogs]_allVars PROVE LookupInv'
    OBVIOUS
  <1>1. CASE HostSteps
    <2>1. HostInv' /\ SameDirs /\ SamePids
      BY <1>1, HostStep DEF HostSteps, LookupInv
    <2>2. UNCHANGED callVars
      BY <1>1 DEF HostSteps
    <2>3. QED
      BY <2>1, <2>2, HostKeepsCall DEF LookupInv
  <1>2. CASE CallSteps
    BY <1>2, HandlerStep DEF CallSteps
  <1>3. CASE (Find \/ ExtractPIDFromLog) /\ UNCHANGED <<vars, hostVars>>
    BY <1>3, HandlerStep
  <1>4. CASE GetLogFilename
    BY <1>4, NameStep
  <1>5. CASE UNCHANGED <<hostVars, callVars>>
    <2>1. HostInv' /\ UNCHANGED <<leader, dirs, asked, val, path, at>>
      BY <1>5, SameHost DEF LookupInv, hostVars, callVars
    <2>2. CallInv'
      BY <2>1 DEF LookupInv, CallInv, EntryOf, HasSuffix, SoughtPid
    <2>3. QED
      BY <2>1, <2>2 DEF LookupInv
  <1>6. CASE NextLog /\ UNCHANGED hostVars
    <2>1. HostInv' /\ at' \in {"launch", "replied"}
      BY <1>6, SameHost DEF LookupInv, NextLog
    <2>2. CallInv'
      BY <2>1 DEF CallInv
    <2>3. QED
      BY <2>1, <2>2 DEF LookupInv
  <1>7. CASE LookupFails /\ UNCHANGED <<vars, hostVars>>
    BY <1>7, HandlerStep
  <1>8. QED
    BY <1>1, <1>2, <1>3, <1>4, <1>5, <1>6, <1>7
       DEF NextGetLogs, HandlerSteps, FileEvents, allVars

\* The launch log that GetLogs takes for that of the launch file asked for is its
\* own, with the exceptions of OwnLaunchLog: whatever the host forks, whoever else
\* launches, and also after a reboot within the hour.
THEOREM OwnLaunchLogAlways == SpecGetLogs => []OwnLaunchLog
  BY LookupInitInv, LookupStep, FoundIsOwn, PTL DEF SpecGetLogs

-----------------------------------------------------------------------------
\* What a step of the composition is to the file and its reader: a step of a call
\* of ReadFromLog, a write of the node, a stutter, or the passage to the next call.
LEMMA FileSteps ==
    [NextGetLogs]_allVars => [Next]_vars \/ (NextLog /\ pc \in {"done", "eof", "nil"})
  BY DEF NextGetLogs, HostSteps, CallSteps, HandlerSteps, FileEvents, NextLog,
         Returned, allVars, Next

\* Both calls of ReadFromLog keep its invariant, the second one because it begins
\* with nothing read.
LEMMA ReplyInit == InitGetLogs => TailInv
  BY TailInit DEF InitGetLogs

LEMMA ReplyStep == TailInv /\ [NextGetLogs]_allVars => TailInv'
  <1> SUFFICES ASSUME TailInv, [NextGetLogs]_allVars PROVE TailInv'
    OBVIOUS
  <1>1. CASE [Next]_vars
    BY <1>1, TailStep
  <1>2. CASE NextLog
    <2>1. /\ size' = 0 /\ newlines' = {} /\ fileSize' = 0 /\ pos' = 0
          /\ bufferSize' = 0 /\ lines' = <<>> /\ reads' = <<>> /\ pc' = "closed"
      BY <1>2 DEF NextLog
    <2>2. QED
      BY <2>1, TailAssumption
         DEF TailInv, TypeOK, ChunksTile, LoopInv, ReadInv, ReadsBounded
  <1>3. QED
    BY <1>1, <1>2, FileSteps

\* In both calls the offsets stay inside the file.
THEOREM RepliesTypes == SpecGetLogs => []TypeOK
  <1>1. TailInv => TypeOK
    BY DEF TailInv
  <1>2. QED
    BY <1>1, ReplyInit, ReplyStep, PTL DEF SpecGetLogs

\* Both files that a reply quotes are read without a gap or an overlap, and in no
\* more reads than the file had chunks.
THEOREM RepliesTile == SpecGetLogs => [](ChunksTile /\ ReadsBounded)
  <1>1. TailInv => ChunksTile /\ ReadsBounded
    BY DEF TailInv
  <1>2. QED
    BY <1>1, ReplyInit, ReplyStep, PTL DEF SpecGetLogs

\* A reply has the lines of each log in order, none is missing between two others,
\* and only a line in which two chunks meet loses its beginning.
THEOREM RepliesInOrder == SpecGetLogs => [](LinesInOrder /\ CutOnlyAtChunks)
  BY ReplyInit, ReplyStep, TailImplies, PTL DEF SpecGetLogs

\* To GetLogs the two calls are two reads of the abstract reader, one after the
\* other, whatever the host and the lookup do.
THEOREM RepliesAreReads == SpecGetLogs => ImplementsReader
  <1>1. TailInv /\ [NextGetLogs]_allVars => [Reader!Next]_Reader!vars
    <2> SUFFICES ASSUME TailInv, [NextGetLogs]_allVars
                 PROVE  Reader!Next \/ UNCHANGED Reader!vars
      OBVIOUS
    <2>1. CASE [Next]_vars
      BY <2>1, ReaderStep
    <2>2. CASE NextLog /\ pc \in {"done", "eof", "nil"}
      <3>1. Phase \in {"returned", "failed"}
        BY <2>2 DEF Phase
      <3>2. size' = 0 /\ newlines' = {} /\ fileSize' = 0 /\ pc' = "closed"
        BY <2>2 DEF NextLog
      <3>3. Phase' = "idle" /\ Reply' = {}
        BY <3>2 DEF Phase, Reply
      <3>4. QED
        BY <3>1, <3>2, <3>3 DEF Reader!Again, Reader!Next
    <2>3. QED
      BY <2>1, <2>2, FileSteps
  <1>2. InitGetLogs => Reader!Init
    BY ReaderInit DEF InitGetLogs
  <1>3. QED
    BY <1>1, <1>2, ReplyInit, ReplyStep, PTL
       DEF SpecGetLogs, ImplementsReader, Reader!Spec
=============================================================================
