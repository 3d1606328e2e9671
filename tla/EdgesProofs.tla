----------------------------- MODULE EdgesProofs -----------------------------
(***************************************************************************)
(* The process monitor and the planner, for any number of processes,       *)
(* watchers, executables, callers, events and planners, and the parts at   *)
(* the edge of the daemon together, as MCEdges runs them.                  *)
(***************************************************************************)
EXTENDS MCEdges, CursorProofs, DeliveryProofs

-----------------------------------------------------------------------------
(* A watcher stays with its process, for any grace: what the registry and   *)
(* the monitor know of a process is what the process table says of it while *)
(* it lives, so that a start time that comes back never passes for an old   *)
(* one.                                                                     *)

\* The larger of two numbers is one of them.
LEMMA MaxFact == ASSUME NEW a \in Nat, NEW b \in Nat PROVE Max({a, b}) \in {a, b}
BY DEF Max

\* An empty registry and the first processes satisfy the invariant.
LEMMA InitTargets == TargetsInit => TargetsInv
<1> SUFFICES ASSUME TargetsInit PROVE TargetsInv
  OBVIOUS
<1>1. DOMAIN proc = 0..MaxFirst /\ DOMAIN reg = {} /\ DOMAIN mon = {}
  BY DEF TargetsInit, Nothing, Shell
<1>2. proc \in [0..MaxFirst -> Records] /\ \A p \in 0..MaxFirst : proc[p].start = 0 /\ proc[p].group = 0
  BY TargetBoundsAssumption DEF TargetsInit, Records, Shell
<1>3. world \in Worlds /\ world.spawned = 0
  BY TargetBoundsAssumption DEF TargetsInit, Worlds
<1>4. TargetsTypeOK
  BY <1>1, <1>2, <1>3 DEF TargetsTypeOK, TargetsInit, Nothing
<1>5. TableInv
  <2>1. 0..MaxFirst \subseteq Pids \cup {Shell}
    BY TargetBoundsAssumption DEF Pids, Shell
  <2> QED BY <1>1, <1>2, <1>3, <2>1 DEF TableInv
<1> QED BY <1>1, <1>4, <1>5 DEF TargetsInv, FollowInv, TerminatedIsGone, OneWatcherPerProcess

-----------------------------------------------------------------------------
(***************************************************************************)
(* The processes.                                                          *)
(***************************************************************************)

\* A step of the processes keeps the invariant when it keeps what the registry
\* knows of them.
LEMMA ProcessStep ==
    ASSUME TargetsInv, UNCHANGED <<reg, mon>>, TableInv',
           proc' \in [DOMAIN proc' -> Records],
           world' \in Worlds, world.excused \subseteq world'.excused,
           \A i \in Identities : KnownInv(i) => KnownInv(i)' /\ (Alive(i)' => Alive(i))
    PROVE  TargetsInv'
<1>1. TargetsTypeOK'
  BY DEF TargetsInv, TargetsTypeOK
<1>2. \A id \in DOMAIN reg : reg[id].ident \in Identities /\ KnownInv(reg[id].ident)
  BY DEF TargetsInv, TargetsTypeOK, FollowInv, Watchers
<1>3. ASSUME NEW id \in DOMAIN reg
      PROVE  KnownInv(reg[id].ident)' /\ (Alive(reg[id].ident)' => Alive(reg[id].ident))
  <2>1. PICK i \in Identities : i = reg[id].ident /\ KnownInv(i)
    BY <1>2
  <2>2. KnownInv(i)' /\ (Alive(i)' => Alive(i))
    BY <2>1
  <2> QED BY <2>1, <2>2 DEF KnownInv, Alive
<1>4. FollowInv'
  BY <1>3 DEF TargetsInv, FollowInv
<1>5. TerminatedIsGone'
  BY <1>3 DEF TargetsInv, TerminatedIsGone
<1>6. OneWatcherPerProcess'
  BY DEF TargetsInv, OneWatcherPerProcess
<1> QED BY <1>1, <1>4, <1>5, <1>6 DEF TargetsInv

\* A new process has a start of its own: no watcher takes it for its old one.
LEMMA SpawnStep ==
    ASSUME TargetsInv, NEW p \in Pids, NEW exe \in Exes, NEW own \in BOOLEAN, Spawn(p, exe, own)
    PROVE  TargetsInv'
<1> DEFINE n == world.spawned + 1
           r == [start |-> n, exe |-> exe, group |-> IF own THEN n ELSE 0]
<1>1. /\ world \in Worlds /\ world.spawned < MaxSpawn /\ p \notin DOMAIN proc
      /\ proc \in [DOMAIN proc -> Records]
      /\ TableInv
  BY DEF TargetsInv, TargetsTypeOK, Spawn
<1>2. /\ proc' = With(proc, p, r)
      /\ world' = [world EXCEPT !.spawned = n, !.top = Max({@, p})]
      /\ UNCHANGED <<reg, mon>>
  BY DEF Spawn
<1>3. r \in Records /\ n \in 0..MaxSpawn /\ n > world.spawned /\ r.start = n /\ r.group <= n
  BY <1>1, TargetBoundsAssumption DEF Records, Worlds
<1>4. Max({world.top, p}) \in 0..MaxPid
  BY <1>1, MaxFact, TargetBoundsAssumption DEF Pids, Worlds
<1>5. world' \in Worlds /\ world'.excused = world.excused /\ world'.spawned = n
  BY <1>1, <1>2, <1>3, <1>4 DEF Worlds
<1> HIDE DEF n, r
<1>6. /\ DOMAIN proc' = DOMAIN proc \cup {p} /\ proc'[p] = r
      /\ \A q \in DOMAIN proc : proc'[q] = proc[q]
      /\ proc' \in [DOMAIN proc' -> Records]
  BY <1>1, <1>2, <1>3 DEF With
<1>7. \A q \in DOMAIN proc : proc[q].start \in Nat /\ proc[q].group \in Nat
  BY <1>1, TargetBoundsAssumption DEF Records
<1>8. world.spawned \in Nat /\ n \in Nat
  BY <1>1, <1>3, TargetBoundsAssumption DEF Worlds
<1>9. TableInv'
  BY <1>1, <1>3, <1>5, <1>6, <1>7, <1>8 DEF TableInv
<1>10. ASSUME NEW i \in Identities, KnownInv(i)
       PROVE  KnownInv(i)' /\ (Alive(i)' => Alive(i))
  <2>1. i.start <= world.spawned /\ i.start \in Nat
    BY <1>10, TargetBoundsAssumption DEF KnownInv, Identities
  <2>2. Alive(i)' => Alive(i) /\ proc'[i.pid] = proc[i.pid]
    BY <2>1, <1>3, <1>6, <1>8 DEF Alive
  <2> QED BY <1>3, <1>5, <1>8, <1>10, <2>1, <2>2 DEF KnownInv
<1> QED BY <1>2, <1>5, <1>6, <1>9, <1>10, ProcessStep

\* A process that ends takes nothing from what is known of the others.
LEMMA ExitStep ==
    ASSUME TargetsInv, NEW p \in DOMAIN proc, Exit(p)
    PROVE  TargetsInv'
<1>1. TargetsTypeOK /\ TableInv
  BY DEF TargetsInv
<1>2. /\ DOMAIN proc' = DOMAIN proc \ {p} /\ \A q \in DOMAIN proc' : proc'[q] = proc[q]
      /\ proc' \in [DOMAIN proc' -> Records]
      /\ UNCHANGED <<reg, mon, world>>
  BY <1>1 DEF Exit, TargetsTypeOK, Without
<1>3. TableInv'
  BY <1>1, <1>2 DEF TableInv
<1>4. \A i \in Identities : KnownInv(i) => KnownInv(i)' /\ (Alive(i)' => Alive(i))
  BY <1>2 DEF KnownInv, Alive
<1> QED BY <1>1, <1>2, <1>3, <1>4, ProcessStep DEF TargetsTypeOK

\* A process whose executable is replaced is excused from then on.
LEMMA UpgradeStep ==
    ASSUME TargetsInv, NEW p \in DOMAIN proc, Upgrade(p)
    PROVE  TargetsInv'
<1>1. TargetsTypeOK /\ TableInv
  BY DEF TargetsInv
<1>2. /\ proc' = [proc EXCEPT ![p].exe = "deleted"]
      /\ world' = [world EXCEPT !.excused = @ \cup {proc[p].start}, !.upsets = @ + 1]
      /\ UNCHANGED <<reg, mon>>
  BY DEF Upgrade
<1>3. proc[p] \in Records /\ proc[p].start \in 0..MaxSpawn
  BY <1>1 DEF TargetsTypeOK, Records
<1>4. /\ world' \in Worlds
      /\ world'.excused = world.excused \cup {proc[p].start} /\ world'.spawned = world.spawned
  <2>1. world.upsets + 1 \in Nat /\ world.excused \cup {proc[p].start} \in SUBSET (0..MaxSpawn)
    BY <1>1, <1>3 DEF TargetsTypeOK, Worlds
  <2> QED BY <1>1, <1>2, <2>1 DEF TargetsTypeOK, Worlds
<1>5. /\ DOMAIN proc' = DOMAIN proc
      /\ \A q \in DOMAIN proc : q # p => proc'[q] = proc[q]
      /\ proc'[p] = [proc[p] EXCEPT !.exe = "deleted"]
  BY <1>1, <1>2 DEF TargetsTypeOK
<1>6. /\ proc'[p] \in Records /\ proc'[p].start = proc[p].start /\ proc'[p].group = proc[p].group
      /\ proc'[p].exe = "deleted"
  BY <1>3, <1>5 DEF Records
<1>7. proc' \in [DOMAIN proc' -> Records] /\ TableInv'
  BY <1>1, <1>2, <1>4, <1>5, <1>6 DEF TargetsTypeOK, TableInv
<1>8. \A i \in Identities : KnownInv(i) => KnownInv(i)' /\ (Alive(i)' => Alive(i))
  BY <1>4, <1>5, <1>6 DEF KnownInv, Alive
<1> QED BY <1>2, <1>4, <1>7, <1>8, ProcessStep

\* Time alone changes nothing that is known.
LEMMA TickStep ==
    ASSUME TargetsInv, Tick
    PROVE  TargetsInv'
<1>1. TargetsTypeOK /\ TableInv
  BY DEF TargetsInv
<1>2. /\ world' \in Worlds /\ world'.excused = world.excused /\ world'.spawned = world.spawned
      /\ UNCHANGED <<proc, reg, mon>>
  BY <1>1, TargetBoundsAssumption DEF Tick, TargetsTypeOK, Worlds
<1>3. \A i \in Identities : KnownInv(i) => KnownInv(i)' /\ (Alive(i)' => Alive(i))
  BY <1>2 DEF KnownInv, Alive
<1>4. TableInv'
  BY <1>1, <1>2 DEF TableInv
<1> QED BY <1>1, <1>2, <1>3, <1>4, ProcessStep DEF TargetsTypeOK

-----------------------------------------------------------------------------
(***************************************************************************)
(* The registry and the monitor.                                           *)
(***************************************************************************)

\* A step that leaves every watcher with its process, and ends one only when
\* the process is gone or excused.
LEMMA SameTargets ==
    ASSUME TargetsInv, UNCHANGED proc, DOMAIN reg' = DOMAIN reg,
           reg' \in [DOMAIN reg' -> Watchers], mon' \in [DOMAIN mon' -> Monitors],
           DOMAIN mon' \subseteq DOMAIN reg,
           world' \in Worlds, world'.spawned = world.spawned, world.excused \subseteq world'.excused,
           \A id \in DOMAIN reg :
             /\ reg'[id].ident = reg[id].ident /\ reg'[id].exe0 = reg[id].exe0
             /\ reg'[id].moved = reg[id].moved
             /\ reg'[id].life = "terminated" =>
                  \/ reg[id].life = "terminated"
                  \/ ~Alive(reg[id].ident)
                  \/ reg[id].ident.start \in world'.excused,
           \A id \in DOMAIN mon' : mon'[id].ident = reg[id].ident
    PROVE  TargetsInv'
<1>1. TargetsTypeOK'
  BY DEF TargetsInv, TargetsTypeOK
<1>2. TableInv'
  BY DEF TargetsInv, TableInv
<1>3. ASSUME NEW id \in DOMAIN reg PROVE KnownInv(reg[id].ident)'
  <2>1. KnownInv(reg[id].ident) /\ reg'[id].ident = reg[id].ident
    BY DEF TargetsInv, FollowInv
  <2> QED BY <2>1 DEF KnownInv, Alive
<1>4. FollowInv'
  BY <1>3 DEF TargetsInv, FollowInv
<1>5. TerminatedIsGone'
  BY DEF TargetsInv, TerminatedIsGone, Alive
<1>6. OneWatcherPerProcess'
  BY DEF TargetsInv, OneWatcherPerProcess
<1> QED BY <1>1, <1>2, <1>4, <1>5, <1>6 DEF TargetsInv

\* What the monitor of a watcher says: the process of the registry.
LEMMA MonitorFact ==
    ASSUME TargetsInv, NEW id \in DOMAIN reg
    PROVE  Monitor(id) \in Monitors /\ Monitor(id).ident = reg[id].ident
BY DEF TargetsInv, TargetsTypeOK, FollowInv, Monitor, Monitors, Watchers

\* A watcher is stopped, or a new daemon takes the registry over.
LEMMA StopStep ==
    ASSUME TargetsInv, NEW id \in DOMAIN reg, Stop(id)
    PROVE  TargetsInv'
<1>1. TargetsTypeOK /\ FollowInv
  BY DEF TargetsInv
<1>2. reg' = [reg EXCEPT ![id].life = "stopped"] /\ UNCHANGED <<proc, mon>>
      /\ world' = [world EXCEPT !.upsets = @ + 1]
  BY DEF Stop
<1>3. world' \in Worlds /\ world'.spawned = world.spawned /\ world'.excused = world.excused
  BY <1>1, <1>2 DEF TargetsTypeOK, Worlds
<1>4. /\ DOMAIN reg' = DOMAIN reg /\ reg' \in [DOMAIN reg' -> Watchers]
      /\ \A i \in DOMAIN reg : /\ reg'[i].ident = reg[i].ident /\ reg'[i].exe0 = reg[i].exe0
                               /\ reg'[i].moved = reg[i].moved
                               /\ reg'[i].life \in {reg[i].life, "stopped"}
  BY <1>1, <1>2 DEF TargetsTypeOK, Watchers
<1> QED BY <1>1, <1>2, <1>3, <1>4, SameTargets DEF TargetsTypeOK, FollowInv

\* A new daemon: the monitors start afresh from the registry.
LEMMA RestartStep ==
    ASSUME TargetsInv, Restart
    PROVE  TargetsInv'
<1>1. TargetsTypeOK /\ FollowInv
  BY DEF TargetsInv
<1>2. /\ reg' = [id \in DOMAIN reg |-> [reg[id] EXCEPT !.life = IF @ = "active" THEN "replayed" ELSE @]]
      /\ mon' = Nothing /\ UNCHANGED proc
      /\ world' = [world EXCEPT !.upsets = @ + 1]
  BY DEF Restart
<1>3. world' \in Worlds /\ world'.spawned = world.spawned /\ world'.excused = world.excused
  BY <1>1, <1>2 DEF TargetsTypeOK, Worlds
<1>4. /\ DOMAIN reg' = DOMAIN reg /\ reg' \in [DOMAIN reg' -> Watchers]
      /\ \A i \in DOMAIN reg : /\ reg'[i].ident = reg[i].ident /\ reg'[i].exe0 = reg[i].exe0
                               /\ reg'[i].moved = reg[i].moved
                               /\ reg'[i].life \in {reg[i].life, "replayed"}
  BY <1>1, <1>2 DEF TargetsTypeOK, Watchers
<1>5. DOMAIN mon' = {} /\ mon' \in [DOMAIN mon' -> Monitors]
  BY <1>2 DEF Nothing
<1> QED BY <1>1, <1>2, <1>3, <1>4, <1>5, SameTargets DEF TargetsTypeOK

\* The monitor of a watcher that has ended goes.
LEMMA EndedStep ==
    ASSUME TargetsInv, NEW id \in DOMAIN reg, MonitorEnded(id)
    PROVE  TargetsInv'
<1>1. TargetsTypeOK /\ FollowInv
  BY DEF TargetsInv
<1>2. mon' = Without(mon, id) /\ UNCHANGED <<proc, reg, world>>
  BY DEF MonitorEnded
<1>3. /\ DOMAIN mon' \subseteq DOMAIN mon /\ mon' \in [DOMAIN mon' -> Monitors]
      /\ \A i \in DOMAIN mon' : mon'[i] = mon[i]
  BY <1>1, <1>2 DEF TargetsTypeOK, Without
<1> QED BY <1>1, <1>2, <1>3, SameTargets DEF TargetsTypeOK, FollowInv

\* A monitor that is written with the process of the registry.
LEMMA MonitorWritten ==
    ASSUME TargetsInv, NEW id \in DOMAIN reg, NEW m \in Monitors, m.ident = reg[id].ident,
           mon' = With(mon, id, m), UNCHANGED <<proc, reg, world>>
    PROVE  TargetsInv'
<1>1. TargetsTypeOK /\ FollowInv
  BY DEF TargetsInv
<1>2. /\ DOMAIN mon' = DOMAIN mon \cup {id} /\ mon' \in [DOMAIN mon' -> Monitors]
      /\ \A i \in DOMAIN mon' : mon'[i] = IF i = id THEN m ELSE mon[i]
  BY <1>1 DEF TargetsTypeOK, With
<1>3. \A i \in DOMAIN mon' : mon'[i].ident = reg[i].ident
  BY <1>1, <1>2 DEF FollowInv
<1>4. DOMAIN mon' \subseteq DOMAIN reg
  BY <1>1, <1>2 DEF TargetsTypeOK
<1> QED BY <1>1, <1>2, <1>3, <1>4, SameTargets DEF TargetsTypeOK

\* observe finds the process: the monitor keeps it.
LEMMA AliveStep ==
    ASSUME TargetsInv, NEW id \in DOMAIN reg, MonitorAlive(id)
    PROVE  TargetsInv'
BY MonitorFact, MonitorWritten DEF MonitorAlive

\* The monitor ends a watcher whose process is gone or excused.
LEMMA TerminatedStep ==
    ASSUME TargetsInv, NEW id \in DOMAIN reg, Terminated(id), UNCHANGED proc,
           world' \in Worlds, world'.spawned = world.spawned, world.excused \subseteq world'.excused,
           ~Alive(reg[id].ident) \/ reg[id].ident.start \in world'.excused
    PROVE  TargetsInv'
<1>1. TargetsTypeOK /\ FollowInv
  BY DEF TargetsInv
<1>2. reg' = [reg EXCEPT ![id].life = "terminated"] /\ mon' = Without(mon, id)
  BY DEF Terminated
<1>3. /\ DOMAIN mon' \subseteq DOMAIN mon /\ mon' \in [DOMAIN mon' -> Monitors]
      /\ \A i \in DOMAIN mon' : mon'[i] = mon[i]
  BY <1>1, <1>2 DEF TargetsTypeOK, Without
<1>4. /\ DOMAIN reg' = DOMAIN reg /\ reg' \in [DOMAIN reg' -> Watchers]
      /\ \A i \in DOMAIN reg : /\ reg'[i].ident = reg[i].ident /\ reg'[i].exe0 = reg[i].exe0
                               /\ reg'[i].moved = reg[i].moved
                               /\ i # id => reg'[i].life = reg[i].life
  BY <1>1, <1>2 DEF TargetsTypeOK, Watchers
<1>5. \A i \in DOMAIN mon' : mon'[i].ident = reg[i].ident
  BY <1>1, <1>3 DEF FollowInv
<1> QED BY <1>1, <1>3, <1>4, <1>5, SameTargets DEF TargetsTypeOK

\* The number has another process, or the same one with another executable,
\* which was then replaced.
LEMMA OtherStep ==
    ASSUME TargetsInv, NEW id \in DOMAIN reg, MonitorOther(id)
    PROVE  TargetsInv'
<1>1. KnownInv(reg[id].ident) /\ Monitor(id).ident = reg[id].ident /\ world \in Worlds
  BY MonitorFact DEF TargetsInv, FollowInv, TargetsTypeOK
<1>2. ~Alive(reg[id].ident) \/ reg[id].ident.start \in world.excused
  BY <1>1 DEF MonitorOther, same_process, KnownInv
<1> QED BY <1>1, <1>2, TerminatedStep DEF MonitorOther

\* A failed inspection excuses the end of the watcher.
LEMMA ErrorStep ==
    ASSUME TargetsInv, NEW id \in DOMAIN reg, MonitorError(id)
    PROVE  TargetsInv'
<1>1. /\ Monitor(id).ident = reg[id].ident /\ world \in Worlds
      /\ reg[id].ident.start \in 0..MaxSpawn
  BY MonitorFact DEF TargetsInv, TargetsTypeOK, Watchers, Identities
<1>2. world' = [world EXCEPT !.excused = @ \cup {reg[id].ident.start}, !.upsets = @ + 1]
  BY <1>1 DEF MonitorError
<1>3. world.upsets + 1 \in Nat /\ world.excused \cup {reg[id].ident.start} \in SUBSET (0..MaxSpawn)
  BY <1>1 DEF Worlds
<1>4. /\ world' \in Worlds /\ world'.spawned = world.spawned
      /\ world'.excused = world.excused \cup {reg[id].ident.start}
  BY <1>1, <1>2, <1>3 DEF Worlds
<1> QED BY <1>4, TerminatedStep DEF MonitorError

\* The facts about a live process that a watcher is given: it is an agent, and
\* it is what the table says.
LEMMA LiveFacts ==
    ASSUME TargetsInv, NEW p \in DOMAIN proc, agent_for(proc[p].exe) # None
    PROVE  /\ Identity(p) \in Identities
           /\ Identity(p).exe = proc[p].exe
           /\ KnownInv(Identity(p)) /\ Alive(Identity(p))
           /\ proc[p].exe # "deleted" /\ proc[p].exe \in Exes
<1>1. proc[p] \in Records /\ p \in Pids \cup {Shell} /\ TableInv
  BY DEF TargetsInv, TargetsTypeOK, TableInv
<1>2. Identity(p) \in Identities /\ Identity(p).exe = proc[p].exe /\ Identity(p).pid = p
      /\ Identity(p).start = proc[p].start /\ Identity(p).group = proc[p].group
  BY <1>1 DEF Identity, Identities, Records
<1>3. proc[p].exe # "deleted" /\ proc[p].exe # "sh" /\ proc[p].exe \in Exes
  BY <1>1 DEF agent_for, identify_agent, None, Records
<1> QED BY <1>1, <1>2, <1>3 DEF KnownInv, Alive, TableInv

\* A live process that has the number and the start of a watcher's process is
\* that process, in every respect.
LEMMA SameProcess ==
    ASSUME TargetsInv, NEW p \in DOMAIN proc, agent_for(proc[p].exe) # None,
           NEW id \in DOMAIN reg, exact_process_eq(reg[id].ident, Identity(p))
    PROVE  reg[id].ident = Identity(p)
<1> DEFINE i == reg[id].ident
<1>1. i \in Identities /\ KnownInv(i)
  BY DEF TargetsInv, TargetsTypeOK, FollowInv, Watchers
<1>2. i.pid = p /\ i.start = proc[p].start
  BY DEF exact_process_eq, Identity
<1>3. Alive(i) /\ proc[p].exe # "deleted"
  BY <1>2, LiveFacts DEF Alive
<1>4. i.group = proc[p].group /\ i.exe = proc[p].exe
  BY <1>1, <1>2, <1>3 DEF KnownInv
<1> QED BY <1>1, <1>2, <1>4 DEF Identities, Identity

\* A re-exec: the watcher becomes one of a live process of the same agent.
LEMMA TakenStep ==
    ASSUME TargetsInv, NEW id \in DOMAIN reg, NEW p \in DOMAIN proc,
           strong_reexec_match(reg[id].ident, p), reg[id].life # "terminated",
           reg' = retarget_process(id, Identity(p)),
           mon' = With(mon, id, commit_reexec(Monitor(id), Identity(p))),
           UNCHANGED <<proc, world>>
    PROVE  TargetsInv'
<1>1. TargetsTypeOK /\ FollowInv /\ TableInv
  BY DEF TargetsInv
<1>2. /\ identify_agent(reg[id].ident.exe) # None
      /\ identify_agent(proc[p].exe) = identify_agent(reg[id].ident.exe)
  BY DEF strong_reexec_match
<1>3. agent_for(proc[p].exe) # None
  BY <1>2 DEF agent_for, identify_agent, None
<1>4. /\ Identity(p) \in Identities /\ KnownInv(Identity(p)) /\ Identity(p).exe = proc[p].exe
  BY <1>3, LiveFacts
<1>5. /\ DOMAIN reg' = DOMAIN reg /\ reg' \in [DOMAIN reg' -> Watchers]
      /\ \A i \in DOMAIN reg : i # id => reg'[i] = reg[i]
      /\ reg'[id].ident = Identity(p) /\ reg'[id].moved /\ reg'[id].exe0 = reg[id].exe0
      /\ reg'[id].life = reg[id].life
  BY <1>1, <1>4, ZenonT(40) DEF TargetsTypeOK, retarget_process, Watchers
<1>6. /\ DOMAIN mon' = DOMAIN mon \cup {id} /\ mon' \in [DOMAIN mon' -> Monitors]
      /\ \A i \in DOMAIN mon' : i # id => mon'[i] = mon[i]
      /\ mon'[id].ident = Identity(p)
  <2>1. commit_reexec(Monitor(id), Identity(p)) \in Monitors
        /\ commit_reexec(Monitor(id), Identity(p)).ident = Identity(p)
    BY <1>4 DEF commit_reexec, Monitors
  <2> QED BY <1>1, <2>1 DEF TargetsTypeOK, With
<1>7. TargetsTypeOK' /\ TableInv'
  BY <1>1, <1>5, <1>6 DEF TargetsTypeOK, TableInv
<1>8. ASSUME NEW i \in DOMAIN reg PROVE KnownInv(reg[i].ident)'
  <2>1. CASE i = id
    BY <1>4, <1>5, <2>1 DEF KnownInv, Alive
  <2>2. CASE i # id
    <3>1. KnownInv(reg[i].ident) /\ reg'[i].ident = reg[i].ident
      BY <1>1, <1>5, <2>2 DEF FollowInv
    <3> QED BY <3>1 DEF KnownInv, Alive
  <2> QED BY <2>1, <2>2
<1>9. FollowInv'
  <2>1. ASSUME NEW i \in DOMAIN reg'
        PROVE  /\ identify_agent(reg'[i].ident.exe) = identify_agent(reg'[i].exe0)
               /\ reg'[i].moved => identify_agent(reg'[i].exe0) # None
    <3>1. CASE i = id
      BY <1>1, <1>2, <1>4, <1>5, <3>1 DEF FollowInv
    <3>2. CASE i # id
      BY <1>1, <1>5, <3>2 DEF FollowInv
    <3> QED BY <3>1, <3>2
  <2>2. \A i \in DOMAIN mon' : mon'[i].ident = reg'[i].ident
    BY <1>1, <1>5, <1>6 DEF FollowInv, TargetsTypeOK
  <2> QED BY <1>5, <1>8, <2>1, <2>2 DEF FollowInv
<1>10. TerminatedIsGone'
  BY <1>5 DEF TargetsInv, TerminatedIsGone, Alive
<1>11. OneWatcherPerProcess'
  BY <1>5 DEF TargetsInv, OneWatcherPerProcess
<1> QED BY <1>7, <1>9, <1>10, <1>11 DEF TargetsInv

\* observe_missing: the process is not there.  The watcher waits, ends, or is
\* handed to the one process that continues it.
LEMMA MissingStep ==
    ASSUME TargetsInv, NEW id \in DOMAIN reg, NEW written \in BOOLEAN, MonitorMissing(id, written)
    PROVE  TargetsInv'
<1> DEFINE m == Monitor(id)
           since == IF m.since = {} THEN {world.now} ELSE m.since
<1>1. m \in Monitors /\ m.ident = reg[id].ident /\ world \in Worlds
  BY MonitorFact DEF TargetsInv, TargetsTypeOK
<1>2. Followed(id) /\ m.ident.pid \notin DOMAIN proc /\ UNCHANGED <<proc, world>>
  BY DEF MonitorMissing
<1>3. reg[id].life # "terminated" /\ ~Alive(reg[id].ident)
  BY <1>1, <1>2 DEF Followed, Alive
<1>4. \/ Terminated(id)
      \/ mon' = With(mon, id, [m EXCEPT !.since = since]) /\ UNCHANGED reg
      \/ \E p \in DOMAIN proc :
           /\ strong_reexec_match(m.ident, p)
           /\ reg' = retarget_process(id, Identity(p))
           /\ mon' = With(mon, id, commit_reexec(m, Identity(p)))
  BY DEF MonitorMissing, processes_on_tty
<1>5. CASE Terminated(id)
  BY <1>1, <1>2, <1>3, <1>5, TerminatedStep
<1>6. CASE mon' = With(mon, id, [m EXCEPT !.since = since]) /\ UNCHANGED reg
  <2>1. [m EXCEPT !.since = since] \in Monitors /\ [m EXCEPT !.since = since].ident = reg[id].ident
    BY <1>1 DEF Monitors, Worlds
  <2> QED BY <1>2, <1>6, <2>1, MonitorWritten
<1>7. CASE \E p \in DOMAIN proc :
             /\ strong_reexec_match(m.ident, p)
             /\ reg' = retarget_process(id, Identity(p))
             /\ mon' = With(mon, id, commit_reexec(m, Identity(p)))
  BY <1>1, <1>2, <1>3, <1>7, TakenStep
<1> QED BY <1>4, <1>5, <1>6, <1>7

\* Discovery answers with a live agent process.
LEMMA ResolvableIsLive ==
    ASSUME NEW ident \in Resolvable
    PROVE  \E p \in DOMAIN proc : ident = Identity(p) /\ agent_for(proc[p].exe) # None
<1>1. PICK chain \in ancestry, h \in Hints : \E c \in resolve(chain, h) : ident = c.ident
  BY DEF Resolvable
<1>2. PICK c \in resolve(chain, h) : ident = c.ident
  BY <1>1
<1> DEFINE near == {<<chain[d], d>> : d \in DOMAIN chain}
           far == {<<p, 0>> : p \in processes_on_tty}
<1>3. c \in Candidates(near, h) \cup Candidates(far, h)
  BY <1>2 DEF resolve, select_candidate
<1>4. \A f \in near \cup far : f[1] \in DOMAIN proc
  BY DEF ancestry, processes_on_tty
<1> HIDE DEF near, far
<1>5. PICK f \in near \cup far : c.ident = Identity(f[1]) /\ agent_for(proc[f[1]].exe) # None
  BY <1>3 DEF Candidates
<1> QED BY <1>2, <1>4, <1>5

\* register with a live agent process: a watcher of that process is refreshed or
\* left alone, or, when there is none, a new one is made.
LEMMA RegisterCases ==
    ASSUME TargetsInv, NEW p \in DOMAIN proc, agent_for(proc[p].exe) # None, NEW rich \in BOOLEAN,
           NEW id, NEW r \in register([ident |-> Identity(p), rich |-> rich], id)
    PROVE  \/ r = reg
           \/ \E w \in DOMAIN reg :
                /\ reg[w].ident = Identity(p)
                /\ r = [reg EXCEPT ![w] = refresh_existing(@, [ident |-> Identity(p), rich |-> rich])]
           \/ /\ id \notin DOMAIN reg
              /\ \A w \in DOMAIN reg : ~exact_process_eq(reg[w].ident, Identity(p))
              /\ r = With(reg, id, Watcher([ident |-> Identity(p), rich |-> rich]))
<1> DEFINE f == [ident |-> Identity(p), rich |-> rich]
           same == {w \in DOMAIN reg : stable_target_eq(reg[w], f)}
           process == {w \in DOMAIN reg : exact_process_eq(reg[w].ident, f.ident)}
<1>1. f.ident = Identity(p) /\ same \subseteq process
  BY DEF stable_target_eq
<1>2. \A w \in process : w \in DOMAIN reg /\ reg[w].ident = Identity(p)
  BY <1>1, SameProcess
<1>3. CASE id \in DOMAIN reg
  <2>1. r = IF id \in same THEN [reg EXCEPT ![id] = refresh_existing(@, f)] ELSE reg
    BY <1>3 DEF register
  <2> HIDE DEF same, process, f
  <2> QED BY <1>1, <1>2, <2>1 DEF f
<1>4. CASE id \notin DOMAIN reg /\ same # {}
  <2>1. r \in {[reg EXCEPT ![w] = refresh_existing(@, f)] : w \in same}
    BY <1>4 DEF register
  <2> HIDE DEF same, process, f
  <2> QED BY <1>1, <1>2, <2>1 DEF f
<1>5. CASE id \notin DOMAIN reg /\ same = {} /\ process # {}
  <2>1. r \in {IF is_richer_target(reg[w], f) THEN [reg EXCEPT ![w] = refresh_existing(@, f)]
               ELSE reg : w \in process}
    BY <1>5 DEF register
  <2> HIDE DEF same, process, f
  <2> QED BY <1>1, <1>2, <2>1 DEF f
<1>6. CASE id \notin DOMAIN reg /\ same = {} /\ process = {}
  <2>1. r = With(reg, id, Watcher(f))
    BY <1>6 DEF register
  <2> QED BY <1>1, <1>6, <2>1
<1> QED BY <1>3, <1>4, <1>5, <1>6

\* A watcher that takes what a new registration knows stays with its process.
LEMMA RefreshStep ==
    ASSUME TargetsInv, NEW w \in DOMAIN reg, NEW p \in DOMAIN proc, NEW rich \in BOOLEAN,
           reg[w].ident = Identity(p),
           reg' = [reg EXCEPT ![w] = refresh_existing(@, [ident |-> Identity(p), rich |-> rich])],
           UNCHANGED <<proc, mon, world>>
    PROVE  TargetsInv'
<1> DEFINE v == refresh_existing(reg[w], [ident |-> Identity(p), rich |-> rich])
<1>1. TargetsTypeOK /\ FollowInv /\ reg[w] \in Watchers
  BY DEF TargetsInv, TargetsTypeOK
<1>2. /\ v \in Watchers /\ v.ident = reg[w].ident /\ v.exe0 = reg[w].exe0 /\ v.moved = reg[w].moved
      /\ v.life \in {reg[w].life, "active"}
  BY <1>1 DEF refresh_existing, Watchers
<1> HIDE DEF v
<1>3. /\ DOMAIN reg' = DOMAIN reg /\ reg' \in [DOMAIN reg' -> Watchers]
      /\ \A i \in DOMAIN reg : reg'[i] = IF i = w THEN v ELSE reg[i]
  BY <1>1, <1>2 DEF TargetsTypeOK, v
<1>4. \A i \in DOMAIN reg : /\ reg'[i].ident = reg[i].ident /\ reg'[i].exe0 = reg[i].exe0
                            /\ reg'[i].moved = reg[i].moved
                            /\ reg'[i].life \in {reg[i].life, "active"}
  BY <1>2, <1>3
<1> QED BY <1>1, <1>3, <1>4, SameTargets DEF TargetsTypeOK, FollowInv

\* A new watcher is one of a live agent process that no watcher is about.
LEMMA NewWatcherStep ==
    ASSUME TargetsInv, NEW p \in DOMAIN proc, agent_for(proc[p].exe) # None, NEW rich \in BOOLEAN,
           NEW id, id \notin DOMAIN reg,
           \A w \in DOMAIN reg : ~exact_process_eq(reg[w].ident, Identity(p)),
           reg' = With(reg, id, Watcher([ident |-> Identity(p), rich |-> rich])),
           UNCHANGED <<proc, mon, world>>
    PROVE  TargetsInv'
<1> DEFINE v == Watcher([ident |-> Identity(p), rich |-> rich])
<1>1. TargetsTypeOK /\ FollowInv /\ TableInv
  BY DEF TargetsInv
<1>2. /\ Identity(p) \in Identities /\ KnownInv(Identity(p)) /\ Identity(p).exe = proc[p].exe
      /\ proc[p].exe \in Exes
  BY LiveFacts
<1>3. /\ v \in Watchers /\ v.ident = Identity(p) /\ v.exe0 = Identity(p).exe /\ v.moved = FALSE
      /\ v.life = "active"
  BY <1>2 DEF Watcher, Watchers
<1> HIDE DEF v
<1>4. /\ DOMAIN reg' = DOMAIN reg \cup {id} /\ reg' \in [DOMAIN reg' -> Watchers]
      /\ reg'[id] = v /\ \A i \in DOMAIN reg : reg'[i] = reg[i]
  BY <1>1, <1>3 DEF TargetsTypeOK, With, v
<1>5. TargetsTypeOK' /\ TableInv'
  BY <1>1, <1>4 DEF TargetsTypeOK, TableInv
<1>6. ASSUME NEW i \in DOMAIN reg' PROVE KnownInv(reg[i].ident)'
  <2>1. CASE i = id
    BY <1>2, <1>3, <1>4, <2>1 DEF KnownInv, Alive
  <2>2. CASE i # id
    <3>1. KnownInv(reg[i].ident) /\ reg'[i].ident = reg[i].ident
      BY <1>1, <1>4, <1>6, <2>2 DEF FollowInv
    <3> QED BY <3>1 DEF KnownInv, Alive
  <2> QED BY <2>1, <2>2
<1>7. FollowInv'
  <2>1. ASSUME NEW i \in DOMAIN reg'
        PROVE  /\ identify_agent(reg'[i].ident.exe) = identify_agent(reg'[i].exe0)
               /\ reg'[i].moved => identify_agent(reg'[i].exe0) # None
    <3>1. CASE i = id
      BY <1>3, <1>4, <3>1
    <3>2. CASE i # id
      BY <1>1, <1>4, <3>2 DEF FollowInv
    <3> QED BY <3>1, <3>2
  <2>2. \A i \in DOMAIN mon' : mon'[i].ident = reg'[i].ident
    BY <1>1, <1>4 DEF FollowInv, TargetsTypeOK
  <2> QED BY <1>6, <2>1, <2>2 DEF FollowInv
<1>8. TerminatedIsGone'
  BY <1>3, <1>4 DEF TargetsInv, TerminatedIsGone, Alive
<1>9. OneWatcherPerProcess'
  <2> SUFFICES ASSUME NEW a \in DOMAIN reg', NEW b \in DOMAIN reg', a # b,
                      exact_process_eq(reg'[a].ident, reg'[b].ident)
               PROVE  reg'[a].moved \/ reg'[b].moved
    BY DEF OneWatcherPerProcess, exact_process_eq
  <2>1. CASE a # id /\ b # id
    BY <1>4, <2>1 DEF TargetsInv, OneWatcherPerProcess
  <2>2. CASE a = id \/ b = id
    BY <1>3, <1>4, <2>2 DEF exact_process_eq
  <2> QED BY <2>1, <2>2
<1> QED BY <1>5, <1>7, <1>8, <1>9 DEF TargetsInv

\* detect_current registers what discovery found.
LEMMA DetectStep ==
    ASSUME TargetsInv, NEW ident \in Resolvable, NEW rich \in BOOLEAN, detect_current(ident, rich)
    PROVE  TargetsInv'
<1>1. PICK p \in DOMAIN proc : ident = Identity(p) /\ agent_for(proc[p].exe) # None
  BY ResolvableIsLive
<1> DEFINE id == <<rich, ident.pid, ident.start>>
<1>2. reg' \in register([ident |-> Identity(p), rich |-> rich], id) /\ UNCHANGED <<proc, mon, world>>
  BY <1>1 DEF detect_current
<1> HIDE DEF id
<1>3. PICK r \in register([ident |-> Identity(p), rich |-> rich], id) : r = reg'
  BY <1>2
<1>4. CASE r = reg
  <2>1. TargetsTypeOK /\ FollowInv
    BY DEF TargetsInv
  <2> QED BY <1>2, <1>3, <1>4, <2>1, SameTargets DEF TargetsTypeOK, FollowInv
<1> QED BY <1>1, <1>2, <1>3, <1>4, RegisterCases, RefreshStep, NewWatcherStep

-----------------------------------------------------------------------------
(***************************************************************************)
(* The theorems.                                                           *)
(***************************************************************************)

\* Every step of a process, the command line, the registry and the monitor
\* keeps the invariant.
LEMMA NextTargets == TargetsInv /\ [TargetsNext]_targetVars => TargetsInv'
<1> SUFFICES ASSUME TargetsInv, [TargetsNext]_targetVars PROVE TargetsInv'
  OBVIOUS
<1>1. CASE UNCHANGED targetVars
  <2>1. TargetsTypeOK /\ FollowInv
    BY DEF TargetsInv
  <2> QED BY <1>1, <2>1, SameTargets DEF targetVars, TargetsTypeOK, FollowInv
<1>2. ASSUME NEW id \in DOMAIN reg,
             \/ Stop(id) \/ MonitorEnded(id) \/ MonitorAlive(id) \/ MonitorOther(id) \/ MonitorError(id)
             \/ \E written \in BOOLEAN : MonitorMissing(id, written)
      PROVE  TargetsInv'
  BY <1>2, StopStep, EndedStep, AliveStep, OtherStep, ErrorStep, MissingStep
<1> QED BY <1>1, <1>2, SpawnStep, ExitStep, UpgradeStep, TickStep, DetectStep, RestartStep
        DEF TargetsNext

\* The inductive invariant holds in every reachable state of every instance.
THEOREM TargetsInductive == TargetsSpec => []TargetsInv
BY InitTargets, NextTargets, PTL DEF TargetsSpec

\* The process monitor ends a watcher whose process still runs only for a
\* replaced executable or a failed inspection, never because a process number
\* was used again.
THEOREM EndsWithTarget == TargetsSpec => []TerminatedIsGone
<1>1. TargetsInv => TerminatedIsGone
  BY DEF TargetsInv
<1> QED BY <1>1, TargetsInductive, PTL

\* Through any chain of re-execs a watcher stays with the agent it was
\* registered for.
THEOREM AgentKept == TargetsSpec => []ReexecKeepsAgent
<1>1. TargetsInv => ReexecKeepsAgent
  BY DEF TargetsInv, FollowInv, ReexecKeepsAgent
<1> QED BY <1>1, TargetsInductive, PTL

\* Registry::register never makes two watchers of one process.
THEOREM WatchersDistinct == TargetsSpec => []OneWatcherPerProcess
<1>1. TargetsInv => OneWatcherPerProcess
  BY DEF TargetsInv
<1> QED BY <1>1, TargetsInductive, PTL

-----------------------------------------------------------------------------
(* The planner's budgets hold for any limits: active_calls counts the       *)
(* callers that have a slot, and an event's counter the calls that returned.*)

\* The sets that the counters count are finite.
LEMMA CountedSets ==
    /\ IsFiniteSet(Holders) /\ Cardinality(Holders) \in Nat
    /\ \A ev : IsFiniteSet(Returned(ev)) /\ Cardinality(Returned(ev)) \in Nat
<1>1. Holders \in SUBSET Callers /\ \A ev : Returned(ev) \in SUBSET Callers
  BY DEF Holders, Returned
<1>2. \A S \in SUBSET Callers : IsFiniteSet(S) /\ Cardinality(S) \in Nat
  BY CallersAssumption, FS_Subset, FS_CardinalityType
<1> QED BY <1>1, <1>2

\* No caller and no count at the start.
LEMMA InitPlanner == PlannerInit => PlannerInv
<1> SUFFICES ASSUME PlannerInit PROVE PlannerInv
  OBVIOUS
<1>1. PlannerTypeOK
  BY DEF PlannerInit, PlannerTypeOK, Requests, AskStages, Routes
<1>2. Holders = {} /\ \A ev : Returned(ev) = {}
  BY DEF PlannerInit, Holders, Returned
<1>3. Cardinality({}) = 0
  BY FS_EmptySet
<1>4. budgets.active = 0 /\ \A ev \in Events : budgets.event[ev] = 0
  BY DEF PlannerInit
<1>5. \A c \in Callers : ask[c].pc = "idle" /\ ask[c].at = 0
  BY DEF PlannerInit
<1>6. 0 <= MaxConcurrent
  BY PlanningAssumption
<1>7. budgets.active = Cardinality(Holders) /\ budgets.active <= MaxConcurrent
  BY <1>2, <1>3, <1>4, <1>6
<1>8. \A ev \in Events : budgets.event[ev] = Cardinality(Returned(ev))
  BY <1>2, <1>3, <1>4
<1>9. \A c \in Callers :  /\ ask[c].pc \notin {"idle", "done"} => ask[c].event \in Events /\ ask[c].at > 0
                          /\ ask[c].pc = "idle" => ask[c].at = 0
                          /\ ask[c].at > 0 => ask[c].before < MaxPerEvent
  BY <1>5
<1> QED BY <1>1, <1>7, <1>8, <1>9 DEF PlannerInv

\* A step of one caller keeps the invariant when the counters follow it.
LEMMA CallerStep ==
    ASSUME PlannerInv, NEW c \in Callers, NEW r \in Requests, Sets(c, r),
           PlannerTypeOK',
           \A ev \in Events : budgets'.event[ev] = Cardinality(Returned(ev)'),
           budgets'.active = Cardinality(Holders'), budgets'.active <= MaxConcurrent,
           r.pc \notin {"idle", "done"} => r.event \in Events /\ r.at > 0,
           r.pc = "idle" => r.at = 0,
           r.at > 0 => r.before < MaxPerEvent
    PROVE  PlannerInv'
<1>1. \A d \in Callers : ask'[d] = IF d = c THEN r ELSE ask[d]
  BY DEF PlannerInv, PlannerTypeOK, Sets
<1> QED BY <1>1 DEF PlannerInv

\* Who holds a slot, and whose call has returned, after a step of one caller.
LEMMA CountedAfter ==
    ASSUME PlannerInv, NEW c \in Callers, NEW r \in Requests, Sets(c, r)
    PROVE  /\ ask' \in [Callers -> Requests]
           /\ Holders' = IF r.pc \in {"invoke", "child", "join", "release"}
                         THEN Holders \cup {c} ELSE Holders \ {c}
           /\ \A ev : Returned(ev)' = IF r.pc = "done" /\ r.at > 0 /\ r.event = ev
                                      THEN Returned(ev) \cup {c} ELSE Returned(ev) \ {c}
<1>1. ask' \in [Callers -> Requests] /\ \A d \in Callers : ask'[d] = IF d = c THEN r ELSE ask[d]
  BY DEF PlannerInv, PlannerTypeOK, Sets
<1> QED BY <1>1 DEF Holders, Returned

\* A step of a request under way that neither takes nor gives up its slot.
LEMMA HeldStep ==
    ASSUME PlannerInv, NEW c \in Callers, NEW r \in Requests, Sets(c, r), UNCHANGED budgets,
           c \in Holders, r.pc \in {"invoke", "child", "join", "release"},
           r.event = ask[c].event, r.before = ask[c].before, r.at > 0
    PROVE  PlannerInv'
<1>1. ask' \in [Callers -> Requests] /\ Holders' = Holders
  BY CountedAfter
<1>2. ask[c].pc \notin {"idle", "done"}
  BY DEF Holders
<1>3. \A ev : Returned(ev)' = Returned(ev)
  BY <1>2, CountedAfter DEF Returned
<1>4. ask[c].event \in Events /\ ask[c].at > 0 /\ ask[c].before < MaxPerEvent
  BY <1>2 DEF PlannerInv
<1>5. PlannerTypeOK' /\ budgets.active = Cardinality(Holders) /\ budgets.active <= MaxConcurrent
      /\ \A ev \in Events : budgets.event[ev] = Cardinality(Returned(ev))
  BY <1>1 DEF PlannerInv, PlannerTypeOK
<1> QED BY <1>1, <1>3, <1>4, <1>5, CallerStep

\* A request that is refused returns without a slot and without being counted.
LEMMA RefusedStep ==
    ASSUME PlannerInv, NEW c \in Callers, NEW r \in Requests, Sets(c, r), UNCHANGED budgets,
           ask[c].pc = "idle", r.pc = "done", r.at = 0
    PROVE  PlannerInv'
<1>1. ask' \in [Callers -> Requests] /\ Holders' = Holders
  BY CountedAfter DEF Holders
<1>2. \A ev : Returned(ev)' = Returned(ev)
  BY CountedAfter DEF Returned
<1>3. PlannerTypeOK' /\ budgets.active = Cardinality(Holders) /\ budgets.active <= MaxConcurrent
      /\ \A ev \in Events : budgets.event[ev] = Cardinality(Returned(ev))
  BY <1>1 DEF PlannerInv, PlannerTypeOK
<1> QED BY <1>1, <1>2, <1>3, CallerStep

\* A request that is granted takes a free slot, and began when the event had
\* calls left.
LEMMA GrantedStep ==
    ASSUME PlannerInv, NEW c \in Callers, NEW ev \in Events, NEW r \in Requests, Sets(c, r),
           ask[c].pc = "idle", acquire_budget(ev), budgets' = [budgets EXCEPT !.active = @ + 1],
           r.pc = "invoke", r.at = 1, r.event = ev, r.before = Cardinality(Returned(ev))
    PROVE  PlannerInv'
<1>1. ask' \in [Callers -> Requests] /\ Holders' = Holders \cup {c} /\ c \notin Holders
  BY CountedAfter DEF Holders
<1>2. \A e : Returned(e)' = Returned(e)
  BY CountedAfter DEF Returned
<1>3. Cardinality(Holders') = Cardinality(Holders) + 1
  BY <1>1, CountedSets, FS_AddElement
<1>4. /\ budgets.active \in Nat /\ budgets.active = Cardinality(Holders)
      /\ \A e \in Events : budgets.event[e] = Cardinality(Returned(e))
  BY DEF PlannerInv, PlannerTypeOK
<1>5. budgets'.active = budgets.active + 1 /\ budgets'.event = budgets.event
  BY DEF PlannerInv, PlannerTypeOK
<1>6. PlannerTypeOK'
  BY <1>1, <1>4 DEF PlannerInv, PlannerTypeOK
<1>7. budgets'.active = Cardinality(Holders') /\ budgets'.active <= MaxConcurrent
  BY <1>3, <1>4, <1>5, PlanningAssumption DEF acquire_budget
<1>8. r.before < MaxPerEvent
  BY <1>4 DEF acquire_budget
<1>9. r.event \in Events /\ r.at > 0
  OBVIOUS
<1> QED BY <1>2, <1>4, <1>5, <1>6, <1>7, <1>8, <1>9, CallerStep

\* request_plan ends in one of the two.
LEMMA RequestStep ==
    ASSUME PlannerInv, NEW c \in Callers, NEW ev \in Events, NEW probes \in [1..2 -> Probes],
           request_plan(c, ev, probes)
    PROVE  PlannerInv'
<1> DEFINE planners == resolve_eligible_planners(probes)
           r == [ask[c] EXCEPT !.event = ev, !.planners = planners]
<1>1. planners \in Routes
  BY DEF Routes
<1> HIDE DEF planners
<1>2. ask[c] \in Requests /\ ask[c].pc = "idle" /\ ask[c].at = 0
  BY DEF PlannerInv, PlannerTypeOK, request_plan
<1>3. r \in Requests /\ r.at = 0 /\ r.event = ev
  BY <1>1, <1>2 DEF Requests
<1> HIDE DEF r
<1>4. Cardinality(Returned(ev)) \in Nat
  BY CountedSets
<1>5. CASE \E out \in {"human", "denied"} :
               Sets(c, [r EXCEPT !.pc = "done", !.out = out]) /\ UNCHANGED budgets
  <2>1. PICK out \in {"human", "denied"} :
               Sets(c, [r EXCEPT !.pc = "done", !.out = out]) /\ UNCHANGED budgets
    BY <1>5
  <2> DEFINE q == [r EXCEPT !.pc = "done", !.out = out]
  <2>2. q \in Requests /\ q.pc = "done" /\ q.at = 0
    BY <1>3 DEF Requests, AskStages
  <2> HIDE DEF q
  <2>3. Sets(c, q) /\ UNCHANGED budgets
    BY <2>1 DEF q
  <2> QED BY <1>2, <2>2, <2>3, RefusedStep
<1>6. CASE /\ acquire_budget(ev)
           /\ budgets' = [budgets EXCEPT !.active = @ + 1]
           /\ Sets(c, [r EXCEPT !.pc = "invoke", !.at = 1, !.before = Cardinality(Returned(ev))])
  <2> DEFINE q == [r EXCEPT !.pc = "invoke", !.at = 1, !.before = Cardinality(Returned(ev))]
  <2>1. /\ q \in Requests /\ q.pc = "invoke" /\ q.at = 1 /\ q.event = ev
        /\ q.before = Cardinality(Returned(ev))
    BY <1>3, <1>4 DEF Requests, AskStages
  <2>2. Sets(c, q)
    BY <1>6
  <2> HIDE DEF q
  <2> QED BY <1>2, <1>6, <2>1, <2>2, GrantedStep
<1> QED BY <1>5, <1>6 DEF request_plan, planners, r

\* A planner that is done leaves the slot to the second opinion or to the release.
LEMMA FallbackStep ==
    ASSUME PlannerInv, NEW c \in Callers, NEW out \in {"retry", "rejected", "plan"},
           c \in Holders, invoke_with_optional_fallback(c, out)
    PROVE  PlannerInv'
<1>1. ask[c] \in Requests /\ ask[c].at > 0 /\ ask[c].at \in Nat
  BY DEF PlannerInv, PlannerTypeOK, Requests, Holders
<1> DEFINE r == [ask[c] EXCEPT !.out = out, !.killed = FALSE]
           again == [r EXCEPT !.pc = "invoke", !.at = @ + 1]
           over == [r EXCEPT !.pc = "release"]
<1>2. UNCHANGED budgets /\ (Sets(c, again) \/ Sets(c, over))
  BY DEF invoke_with_optional_fallback
<1>3. /\ again \in Requests /\ again.pc = "invoke" /\ again.at > 0
      /\ again.event = ask[c].event /\ again.before = ask[c].before
  <2>1. ask[c].at + 1 \in Nat /\ ask[c].at + 1 > 0
    BY <1>1
  <2>2. again = [ask[c] EXCEPT !.out = out, !.killed = FALSE, !.pc = "invoke", !.at = ask[c].at + 1]
    BY <1>1 DEF Requests
  <2> QED BY <1>1, <2>1, <2>2 DEF Requests, AskStages
<1>4. /\ over \in Requests /\ over.pc = "release" /\ over.at > 0
      /\ over.event = ask[c].event /\ over.before = ask[c].before
  BY <1>1 DEF Requests, AskStages
<1> HIDE DEF again, over
<1>5. CASE Sets(c, again)
  BY <1>2, <1>3, <1>5, HeldStep
<1>6. CASE Sets(c, over)
  BY <1>2, <1>4, <1>6, HeldStep
<1> QED BY <1>2, <1>5, <1>6

\* The steps of a planner's process keep the slot of its request.
LEMMA ChildStep ==
    ASSUME PlannerInv, NEW c \in Callers,
           \/ run_planner_process(c)
           \/ \E killed, held \in BOOLEAN : JoinReaders(c, killed, held)
           \/ LeftoverExits(c)
    PROVE  PlannerInv'
<1>1. ask[c] \in Requests /\ c \in Holders /\ ask[c].at > 0
  BY DEF PlannerInv, PlannerTypeOK, Holders, run_planner_process, JoinReaders, LeftoverExits
<1>2. CASE run_planner_process(c)
  <2> DEFINE r == [ask[c] EXCEPT !.pc = "child"]
  <2>1. r \in Requests /\ r.pc = "child" /\ r.at > 0 /\ r.event = ask[c].event /\ r.before = ask[c].before
    BY <1>1 DEF Requests, AskStages
  <2>2. (Sets(c, r) /\ UNCHANGED budgets) \/ invoke_with_optional_fallback(c, "retry")
    BY <1>2 DEF run_planner_process
  <2> HIDE DEF r
  <2>3. CASE Sets(c, r) /\ UNCHANGED budgets
    BY <1>1, <2>1, <2>3, HeldStep
  <2>4. CASE invoke_with_optional_fallback(c, "retry")
    BY <1>1, <2>4, FallbackStep
  <2> QED BY <2>2, <2>3, <2>4
<1>3. ASSUME NEW killed \in BOOLEAN, NEW held \in BOOLEAN, JoinReaders(c, killed, held)
      PROVE  PlannerInv'
  <2> DEFINE r == [ask[c] EXCEPT !.pc = "join", !.killed = killed, !.held = held]
  <2>1. r \in Requests /\ r.pc = "join" /\ r.at > 0 /\ r.event = ask[c].event /\ r.before = ask[c].before
    BY <1>1 DEF Requests, AskStages
  <2>2. Sets(c, r) /\ UNCHANGED budgets
    BY <1>3 DEF JoinReaders
  <2> HIDE DEF r
  <2> QED BY <1>1, <2>1, <2>2, HeldStep
<1>4. CASE LeftoverExits(c)
  <2> DEFINE r == [ask[c] EXCEPT !.held = FALSE]
  <2>1. r \in Requests /\ r.pc = "join" /\ r.at > 0 /\ r.event = ask[c].event /\ r.before = ask[c].before
    BY <1>1, <1>4 DEF Requests, LeftoverExits
  <2>2. Sets(c, r) /\ UNCHANGED budgets
    BY <1>4 DEF LeftoverExits
  <2> HIDE DEF r
  <2> QED BY <1>1, <2>1, <2>2, HeldStep
<1> QED BY <1>2, <1>3, <1>4

\* A release gives one slot back.
LEMMA ReleaseStep ==
    ASSUME PlannerInv, NEW c \in Callers, release_concurrency(c)
    PROVE  PlannerInv'
<1> DEFINE r == [ask[c] EXCEPT !.pc = "commit"]
<1>1. ask[c] \in Requests /\ ask[c].pc = "release" /\ c \in Holders
      /\ ask[c].event \in Events /\ ask[c].at > 0 /\ ask[c].before < MaxPerEvent
  BY DEF PlannerInv, PlannerTypeOK, Holders, release_concurrency
<1>2. /\ r \in Requests /\ r.pc = "commit" /\ r.at = ask[c].at
      /\ r.event = ask[c].event /\ r.before = ask[c].before
  BY <1>1 DEF Requests, AskStages
<1>3. Sets(c, r)
  BY DEF release_concurrency
<1> HIDE DEF r
<1>4. ask' \in [Callers -> Requests] /\ Holders' = Holders \ {c}
  BY <1>2, <1>3, CountedAfter
<1>5. \A ev : Returned(ev)' = Returned(ev)
  BY <1>1, <1>2, <1>3, CountedAfter DEF Returned
<1>6. Cardinality(Holders') = Cardinality(Holders) - 1 /\ Holders # {}
  BY <1>1, <1>4, CountedSets, FS_RemoveElement
<1>7. Cardinality(Holders) # 0
  BY <1>6, CountedSets, FS_EmptySet
<1>8. /\ budgets.active \in Nat /\ budgets.active = Cardinality(Holders)
      /\ budgets.active <= MaxConcurrent
      /\ \A ev \in Events : budgets.event[ev] = Cardinality(Returned(ev))
  BY DEF PlannerInv, PlannerTypeOK
<1>9. budgets'.active = budgets.active - 1 /\ budgets'.event = budgets.event
  BY <1>7, <1>8 DEF PlannerInv, PlannerTypeOK, release_concurrency
<1>10. PlannerTypeOK'
  BY <1>4, <1>7, <1>8 DEF PlannerInv, PlannerTypeOK, release_concurrency
<1>11. budgets'.active = Cardinality(Holders') /\ budgets'.active <= MaxConcurrent
  BY <1>6, <1>7, <1>8, <1>9, PlanningAssumption
<1> QED BY <1>1, <1>2, <1>3, <1>5, <1>8, <1>9, <1>10, <1>11, CallerStep

\* The commit counts its own call, once.
LEMMA CommitStep ==
    ASSUME PlannerInv, NEW c \in Callers, commit_budget(c)
    PROVE  PlannerInv'
<1> DEFINE r == [ask[c] EXCEPT !.pc = "done"]
<1>0. PICK mine \in Events : mine = ask[c].event
  BY DEF PlannerInv, PlannerTypeOK, commit_budget
<1>1. ask[c] \in Requests /\ ask[c].pc = "commit"
      /\ mine = ask[c].event /\ ask[c].at > 0 /\ ask[c].before < MaxPerEvent
  BY <1>0 DEF PlannerInv, PlannerTypeOK, commit_budget
<1>2. /\ r \in Requests /\ r.pc = "done" /\ r.at = ask[c].at
      /\ r.event = mine /\ r.before = ask[c].before
  BY <1>1 DEF Requests, AskStages
<1>3. Sets(c, r)
  BY DEF commit_budget
<1> HIDE DEF r
<1>4. ask' \in [Callers -> Requests] /\ Holders' = Holders
  BY <1>1, <1>2, <1>3, CountedAfter DEF Holders
<1>5. \A ev : /\ ev # mine => Returned(ev)' = Returned(ev)
              /\ c \notin Returned(ev)
  BY <1>1, <1>2, <1>3, CountedAfter DEF Returned
<1>6. Returned(mine)' = Returned(mine) \cup {c}
  BY <1>1, <1>2, <1>3, CountedAfter
<1>7. Cardinality(Returned(mine)') = Cardinality(Returned(mine)) + 1
  BY <1>5, <1>6, CountedSets, FS_AddElement
<1>8. /\ budgets.event \in [Events -> Nat] /\ budgets.day \in Nat
      /\ budgets.active = Cardinality(Holders) /\ budgets.active <= MaxConcurrent
      /\ \A ev \in Events : budgets.event[ev] = Cardinality(Returned(ev))
  BY DEF PlannerInv, PlannerTypeOK
<1>9. budgets' = [budgets EXCEPT !.event[mine] = @ + 1, !.day = @ + 1]
  BY <1>1 DEF commit_budget
<1>10. budgets'.active = budgets.active
       /\ \A ev \in Events : budgets'.event[ev] = IF ev = mine THEN budgets.event[ev] + 1 ELSE budgets.event[ev]
  BY <1>1, <1>8, <1>9 DEF PlannerInv, PlannerTypeOK
<1>11. PlannerTypeOK'
  <2>1. [budgets.event EXCEPT ![mine] = @ + 1] \in [Events -> Nat] /\ budgets.day + 1 \in Nat
    BY <1>8
  <2>2. budgets' \in [active : Nat, event : [Events -> Nat], day : Nat]
    BY <1>9, <2>1 DEF PlannerInv, PlannerTypeOK
  <2> QED BY <1>4, <2>2 DEF PlannerTypeOK
<1>12. \A ev \in Events : budgets'.event[ev] = Cardinality(Returned(ev)')
  BY <1>1, <1>5, <1>7, <1>8, <1>10
<1>13. budgets'.active = Cardinality(Holders') /\ budgets'.active <= MaxConcurrent
  BY <1>4, <1>8, <1>10
<1> QED BY <1>1, <1>2, <1>3, <1>11, <1>12, <1>13, CallerStep

\* Every step of the broker keeps the invariant.
LEMMA NextPlanner == PlannerInv /\ [PlannerNext]_plannerVars => PlannerInv'
<1> SUFFICES ASSUME PlannerInv, [PlannerNext]_plannerVars PROVE PlannerInv'
  OBVIOUS
<1>1. CASE UNCHANGED plannerVars
  BY <1>1 DEF plannerVars, PlannerInv, PlannerTypeOK, Holders, Returned
<1>2. ASSUME NEW c \in Callers, NEW out \in {"retry", "rejected", "plan"}, invoke_one(c, out)
      PROVE  PlannerInv'
  <2>1. c \in Holders /\ invoke_with_optional_fallback(c, out)
    BY <1>2 DEF invoke_one, Holders
  <2> QED BY <2>1, FallbackStep
<1>3. ASSUME NEW c \in Callers, NEW held \in BOOLEAN, ChildExits(c, held) \/ kill_tree(c, held)
      PROVE  PlannerInv'
  BY <1>3, ChildStep DEF ChildExits, kill_tree
<1>4. CASE PlannerNext
  BY <1>2, <1>3, <1>4, RequestStep, ChildStep, ReleaseStep, CommitStep DEF PlannerNext
<1> QED BY <1>1, <1>4

\* The counters of BudgetState are what they stand for: active_calls the requests
\* with a slot, the calls of an event those of it that returned.
THEOREM PlannerInductive == PlannerSpec => []PlannerInv
BY InitPlanner, NextPlanner, PTL DEF PlannerSpec

\* However requests overlap, fail and fall back, no more planners run at once than
\* max_concurrent_calls, and none is started for an event whose calls have all
\* returned.
THEOREM PlannerBudgets == PlannerSpec => []CallsAreBudgeted
<1>1. PlannerInv => CallsAreBudgeted
  <2> SUFFICES ASSUME PlannerInv PROVE CallsAreBudgeted
    OBVIOUS
  <2> DEFINE Busy == {c \in Callers : ask[c].pc \in {"invoke", "child", "join"}}
  <2>1. Busy \in SUBSET Holders
    BY DEF Holders
  <2>2. Cardinality(Busy) \in Nat /\ Cardinality(Busy) <= Cardinality(Holders)
    BY <2>1, CountedSets, FS_Subset, FS_CardinalityType
  <2>3. Cardinality(Busy) <= MaxConcurrent
    BY <2>2, CountedSets, PlanningAssumption DEF PlannerInv
  <2> QED BY <2>3 DEF PlannerInv, CallsAreBudgeted
<1> QED BY <1>1, PlannerInductive, PTL

-----------------------------------------------------------------------------
(* All parts.  In a behaviour of EdgesSpec every part behaves as its module *)
(* specifies it, if only by staying where it starts.                        *)

\* The states in which parts rest are states in which they start.
LEMMA EdgesStart ==
    EdgesInit => /\ part \in Parts /\ DeliveryInit /\ TargetsInit /\ RolloutInit /\ CursorInit
                 /\ PlannerInit /\ ObserverInit /\ FilesInit
<1>1. ObserverRest => ObserverInit
  <2>1. SUFFICES ASSUME ObserverRest PROVE ObserverInit
    OBVIOUS
  <2>2. MaxRows \in Nat
    BY RowsAssumption
  <2>3. /\ watch \in Watches /\ watch.agent = "claude" /\ watch.logged = FALSE /\ watch.last = "none"
        /\ watch.target = "process" /\ watch.live = MaxRows
    BY <2>1, <2>2 DEF ObserverRest, Watches
  <2>4. scene = Quiet /\ obs = Starts(QuietGoal) /\ Quiet.goal = QuietGoal
    BY <2>1 DEF ObserverRest, Quiet
  <2>5. Quiet = [Quiet EXCEPT !.marker = NoMarker]
    <3> DEFINE f == Quiet
    <3>1. f = [x \in DOMAIN f |-> f[x]] /\ f.marker = NoMarker
      BY DEF Quiet
    <3> HIDE DEF f
    <3>2. f = [x \in DOMAIN f |-> IF x = "marker" THEN NoMarker ELSE f[x]]
      BY <3>1
    <3>3. [f EXCEPT !.marker = NoMarker] = [x \in DOMAIN f |-> IF x = "marker" THEN NoMarker ELSE f[x]]
      OBVIOUS
    <3> QED BY <3>2, <3>3 DEF f
  <2>6. NoMarker \in {NoMarker} \cup {f \in SUBSET Features : Cardinality(f) <= 2}
    OBVIOUS
  <2> QED BY <2>3, <2>4, <2>5, <2>6 DEF ObserverInit
<1>2. FilesRest => FilesInit
  BY DEF FilesRest, FilesInit
<1> QED BY <1>1, <1>2 DEF EdgesInit

\* Each of the parts' modules specifies what its part does in EdgesSpec: what is
\* proved of a part is proved of the behaviours that the run checks.
THEOREM EdgesParts ==
    EdgesSpec => /\ DeliverySpec /\ TargetsSpec /\ RolloutSpec /\ CursorSpec
                 /\ PlannerSpec /\ ObserverSpec /\ FilesSpec
<1>1. [EdgesNext]_edgesVars => [DeliveryNext]_deliveryVars
  BY DEF EdgesNext, edgesVars
<1>2. [EdgesNext]_edgesVars => [TargetsNext]_targetVars
  BY DEF EdgesNext, edgesVars
<1>3. [EdgesNext]_edgesVars => [RolloutNext]_rolloutVars
  BY DEF EdgesNext, edgesVars
<1>4. [EdgesNext]_edgesVars => [CursorNext]_cursorVars
  BY DEF EdgesNext, edgesVars
<1>5. [EdgesNext]_edgesVars => [PlannerNext]_plannerVars
  BY DEF EdgesNext, edgesVars
<1>6. [EdgesNext]_edgesVars => [ObserverNext]_observerVars
  BY DEF EdgesNext, edgesVars
<1>7. [EdgesNext]_edgesVars => [FilesNext]_filesVars
  BY DEF EdgesNext, edgesVars
<1> QED BY <1>1, <1>2, <1>3, <1>4, <1>5, <1>6, <1>7, EdgesStart, PTL
        DEF EdgesSpec, DeliverySpec, TargetsSpec, RolloutSpec, CursorSpec, PlannerSpec, ObserverSpec, FilesSpec

\* The inductive invariant of the part that moves holds in the behaviours of the
\* run, for every value of the constants of all parts.
THEOREM EdgesSafe == EdgesSpec => []EdgesTypeOK
<1>1. EdgesInit => part \in Parts
  BY EdgesStart
<1>2. part \in Parts /\ [EdgesNext]_edgesVars => (part \in Parts)'
  BY DEF EdgesNext, edgesVars
<1>3. /\ part \in Parts /\ DeliveryInv /\ TargetsInv /\ RolloutInv /\ CursorInv
      /\ PlannerInv /\ ObserverInv /\ FilesInv
      => EdgesTypeOK
  <2>1. ASSUME part \in Parts, DeliveryInv, TargetsInv, RolloutInv, CursorInv, PlannerInv, ObserverInv, FilesInv
        PROVE  EdgesTypeOK
    <3>1. part \in {"delivery", "targets", "rollout", "cursor", "observer", "files", "planner"}
      BY <2>1, PartsAssumption
    <3> QED BY <2>1, <3>1 DEF EdgesTypeOK
  <2> QED BY <2>1
<1>4. EdgesSpec => [](part \in Parts)
  BY <1>1, <1>2, PTL DEF EdgesSpec
<1> QED BY <1>3, <1>4, EdgesParts, DeliveryInductive, TargetsInductive, RolloutSafe, CursorSafe,
           PlannerInductive, ObserverSafe, FilesSafe, PTL
=============================================================================
