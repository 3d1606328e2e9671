---------------------------- MODULE WatcherProofs ---------------------------
(***************************************************************************)
(* What a watcher's jobs may type, and when, for every number of jobs and  *)
(* all evidence, commands, failed writes, shutdowns, crashes and restarts. *)
(***************************************************************************)
EXTENDS Watcher, TLAPS

\* The part of the invariant about attempts.
CountInv == Counted(disk.machine) /\ Counted(watcher.machine)

\* A new watcher with a new machine, and no job.
LEMMA InitInv == Init => SafetyInv
<1> SUFFICES ASSUME Init PROVE SafetyInv OBVIOUS
<1>1. NewMachine \in Machines /\ NewMachine.st = "NeedsRevalidation" /\ NewMachine.attempts = 0
  BY DEF NewMachine, Machines, RecoveryStates
<1>2. Idle \in JobStates /\ Idle.pc = "idle" /\ ~Idle.fresh
  BY DEF Idle, JobStates, Stages, Lifecycles
<1>3. watcher \in Watchers /\ watcher.machine = NewMachine
  <2> DEFINE w == [life |-> "Registered", machine |-> NewMachine, event |-> None,
                   mark |-> None, wake |-> FALSE, screen |-> None, count |-> 0, rich |-> FALSE]
  <2>1. w \in Watchers BY <1>1 DEF Watchers, Lifecycles
  <2> QED BY <2>1 DEF Init
<1>4. \A j \in Jobs : jobs[j] = Idle BY DEF Init
<1>5. TypeOK BY <1>2, <1>3 DEF Init, TypeOK
<1>6. SnapshotInv BY <1>2, <1>4 DEF SnapshotInv
<1>7. MachineInv BY <1>1, <1>3 DEF MachineInv
<1>8. JobInv BY <1>2, <1>4 DEF Init, JobInv, Engaged
<1>9. Counted(disk.machine) /\ Counted(watcher.machine)
  BY <1>1, <1>2, <1>3, <1>4 DEF Init, Counted, Pending
<1> QED BY <1>5, <1>6, <1>7, <1>8, <1>9 DEF SafetyInv

-----------------------------------------------------------------------------
(***************************************************************************)
(* The operators the actions are made of.                                  *)
(***************************************************************************)
LEMMA CommandTypes ==
    ASSUME NEW m \in Machines, NEW fp \in Evidence
    PROVE  /\ Revalidated(m) \in Machines /\ Revalidated(m).st = "Observing"
           /\ Revalidated(m).attempts = m.attempts
           /\ Confirmed(m, fp) \in Machines /\ Confirmed(m, fp).st = "Confirmed"
           /\ Confirmed(m, fp).attempts = m.attempts
           /\ Begun(m, 0) \in Machines /\ Begun(m, 0).st = "Acting"
           /\ Begun(m, 0).attempts = m.attempts + 1
           /\ Succeeded(m, fp) \in Machines /\ Succeeded(m, fp).st = "Recovered"
           /\ Succeeded(m, fp).attempts = m.attempts
           /\ Rearmed(m) \in Machines /\ Rearmed(m).st = "Observing"
           /\ Rearmed(m).attempts = m.attempts
           /\ Restored(m) \in Machines /\ Restored(m).st = "NeedsRevalidation"
           /\ Restored(m).attempts = m.attempts
<1>1. Revalidated(m) \in Machines /\ Revalidated(m).st = "Observing" /\ Revalidated(m).attempts = m.attempts
  BY DEF Machines, RecoveryStates, Revalidated
<1>2. Confirmed(m, fp) \in Machines /\ Confirmed(m, fp).st = "Confirmed" /\ Confirmed(m, fp).attempts = m.attempts
  BY DEF Machines, RecoveryStates, Confirmed
<1>3. m.attempts + 1 \in Nat BY DEF Machines
<1>4. Begun(m, 0) \in Machines /\ Begun(m, 0).st = "Acting" /\ Begun(m, 0).attempts = m.attempts + 1
  BY <1>3 DEF Machines, RecoveryStates, Begun
<1>5. Succeeded(m, fp) \in Machines /\ Succeeded(m, fp).st = "Recovered" /\ Succeeded(m, fp).attempts = m.attempts
  BY DEF Machines, RecoveryStates, Succeeded
<1>6. Rearmed(m) \in Machines /\ Rearmed(m).st = "Observing" /\ Rearmed(m).attempts = m.attempts
  BY DEF Machines, RecoveryStates, Rearmed
<1>7. Restored(m) \in Machines /\ Restored(m).st = "NeedsRevalidation" /\ Restored(m).attempts = m.attempts
  BY DEF Machines, RecoveryStates, Restored
<1> QED BY <1>1, <1>2, <1>4, <1>5, <1>6, <1>7

\* A job that is not running has no snapshot.
LEMMA IdleFacts ==
    /\ Idle \in JobStates /\ Idle.pc = "idle" /\ ~Idle.fresh
  BY DEF Idle, JobStates, Stages, Lifecycles

\* A write by another makes every snapshot stale, and changes nothing else of a
\* job.
LEMMA StaleFacts ==
    ASSUME NEW js \in [Jobs -> JobStates]
    PROVE  /\ Stale(js) \in [Jobs -> JobStates]
           /\ \A k \in Jobs : /\ ~Stale(js)[k].fresh
                              /\ Stale(js)[k].pc = js[k].pc
                              /\ Stale(js)[k].fp = js[k].fp
                              /\ Stale(js)[k].act = js[k].act
                              /\ Stale(js)[k].life = js[k].life
                              /\ Stale(js)[k].graced = js[k].graced
  BY DEF Stale, JobStates

\* A job that fails drops its snapshot.
LEMMA FailingFacts ==
    ASSUME NEW js \in [Jobs -> JobStates], NEW j \in Jobs
    PROVE  /\ Failing(j, js) \in [Jobs -> JobStates]
           /\ Failing(j, js)[j].pc = "failed" /\ ~Failing(j, js)[j].fresh
           /\ \A k \in Jobs : k # j => Failing(j, js)[k] = js[k]
<1> DEFINE f == [Idle EXCEPT !.pc = "failed", !.graced = js[j].graced]
<1>1. f \in JobStates /\ f.pc = "failed" /\ ~f.fresh BY DEF Idle, JobStates, Stages, Lifecycles
<1> HIDE DEF f
<1>2. Failing(j, js) = [js EXCEPT ![j] = f] BY DEF Failing, f
<1> QED BY <1>1, <1>2

\* A job enters its next stage, or fails on a daemon that is closing.
LEMMA EntersFacts ==
    ASSUME NEW js \in [Jobs -> JobStates], NEW j \in Jobs, NEW stage \in Stages
    PROVE  /\ Enters(j, js, stage) \in [Jobs -> JobStates]
           /\ \A k \in Jobs : k # j => Enters(j, js, stage)[k] = js[k]
           /\ \/ /\ daemon = "up"
                 /\ Enters(j, js, stage)[j].pc = stage
                 /\ Enters(j, js, stage)[j].fp = js[j].fp
                 /\ Enters(j, js, stage)[j].act = js[j].act
                 /\ Enters(j, js, stage)[j].life = js[j].life
                 /\ Enters(j, js, stage)[j].fresh = js[j].fresh
              \/ /\ Enters(j, js, stage)[j].pc = "failed"
                 /\ ~Enters(j, js, stage)[j].fresh
<1>1. CASE daemon = "up"
  <2> DEFINE f == [js[j] EXCEPT !.pc = stage]
  <2>1. /\ f \in JobStates /\ f.pc = stage
        /\ f.fp = js[j].fp /\ f.act = js[j].act /\ f.life = js[j].life /\ f.fresh = js[j].fresh
    BY DEF JobStates
  <2>2. Enters(j, js, stage) = [js EXCEPT ![j] = f] BY <1>1 DEF Enters
  <2> HIDE DEF f
  <2> QED BY <1>1, <2>1, <2>2
<1>2. CASE daemon # "up"
  <2>1. Enters(j, js, stage) = Failing(j, js) BY <1>2 DEF Enters
  <2> QED BY <2>1, FailingFacts
<1> QED BY <1>1, <1>2

-----------------------------------------------------------------------------
(***************************************************************************)
(* What preserves each part of the invariant.                              *)
(***************************************************************************)
\* The attempts recorded never sink, and no job becomes pending.
LEMMA CountKept ==
    ASSUME SafetyInv, watcher' \in Watchers, disk' \in Watchers, performed' \in Nat, performed' <= performed,
           Pending' # {} => Pending # {},
           \A w \in {watcher', disk'} :
              w.machine # None =>
                 \E v \in {watcher, disk} : v.machine # None /\ w.machine.attempts >= v.machine.attempts
    PROVE  CountInv'
<1>1. \A w \in Watchers : w.machine # None => w.machine.attempts \in Nat BY DEF Watchers, Machines
<1>2. performed \in Nat /\ watcher \in Watchers /\ disk \in Watchers BY DEF SafetyInv, TypeOK
<1>3. ASSUME NEW w \in {watcher', disk'}, w.machine # None
      PROVE  IF Pending' = {} THEN performed' <= w.machine.attempts ELSE performed' < w.machine.attempts
  <2>1. PICK v \in {watcher, disk} : v.machine # None /\ w.machine.attempts >= v.machine.attempts
    BY <1>3
  <2>2. v.machine.attempts \in Nat /\ w.machine.attempts \in Nat BY <1>1, <1>2, <1>3, <2>1
  <2>3. IF Pending = {} THEN performed <= v.machine.attempts ELSE performed < v.machine.attempts
    BY <2>1 DEF SafetyInv, Counted
  <2> QED BY <1>2, <2>1, <2>2, <2>3
<1> QED BY <1>3 DEF CountInv, Counted

\* No job begins, the machine stays at work, and nothing is handed over.
LEMMA JobsKept ==
    ASSUME SafetyInv, daemon' = daemon \/ daemon' = "closing",
           Engaged' \subseteq Engaged,
           AtWork => AtWork',
           watcher'.life = "Restarted" => watcher.life = "Restarted",
           review' /\ daemon' = "up" => review,
           daemon' = "down" => \A j \in Jobs : jobs[j].pc = "idle" => jobs'[j].pc = "idle"
    PROVE  JobInv'
  BY DEF SafetyInv, JobInv

\* The machine and its evidence are left alone.
LEMMA MachineKept ==
    ASSUME SafetyInv, watcher'.machine = watcher.machine, watcher'.event = watcher.event,
           watcher'.life = "Restarted" => watcher.life = "Restarted",
           observed \subseteq observed'
    PROVE  MachineInv' /\ (AtWork => AtWork')
  BY DEF SafetyInv, MachineInv, AtWork

\* Every snapshot is as it was, or is stale.
LEMMA SnapshotsKept ==
    ASSUME SafetyInv, observed \subseteq observed',
           \A k \in Jobs :
              /\ jobs'[k].fresh => /\ jobs[k].fresh /\ watcher'.life = watcher.life
                                   /\ jobs'[k].pc = "idle" => jobs[k].pc = "idle"
                                   /\ jobs'[k].life = jobs[k].life
                                   /\ review' => review
              /\ jobs'[k].pc \in {"run", "ready"} =>
                    /\ jobs'[k].pc = jobs[k].pc /\ jobs'[k].life = jobs[k].life
                    /\ jobs'[k].act = jobs[k].act
              /\ jobs'[k].pc \in {"run", "ready", "sent", "done"} =>
                    /\ jobs[k].pc \in {"run", "ready", "sent", "done"}
                    /\ jobs'[k].fp = jobs[k].fp
    PROVE  SnapshotInv'
  BY DEF SafetyInv, SnapshotInv

\* A write that leaves the machine and the evidence alone, whether it succeeds or
\* fails, and the jobs go on as they were, except that a write makes their
\* snapshots stale and that some may have ended (js).
LEMMA AsideStep ==
    ASSUME SafetyInv, NEW next \in Watchers, NEW js \in [Jobs -> JobStates],
           next.machine = watcher.machine, next.event = watcher.event,
           next.life = "Restarted" => watcher.life = "Restarted",
           \A k \in Jobs : \/ js[k] = Idle
                           \/ /\ js[k].pc = jobs[k].pc /\ js[k].act = jobs[k].act /\ js[k].fp = jobs[k].fp
                              /\ js[k].life = jobs[k].life /\ js[k].fresh = jobs[k].fresh,
           watcher' \in {watcher, next}, disk' \in {disk, next},
           jobs' = Stale(js) \/ (jobs' = js /\ watcher' = watcher /\ (review' => review)),
           UNCHANGED <<daemon, observed, performed>>
    PROVE  /\ watcher' \in Watchers /\ disk' \in Watchers /\ jobs' \in [Jobs -> JobStates]
           /\ SnapshotInv' /\ MachineInv' /\ CountInv'
           /\ (review' /\ daemon = "up" => review) => JobInv'
<1>1. watcher \in Watchers /\ disk \in Watchers BY DEF SafetyInv, TypeOK
<1>2. watcher' \in Watchers /\ disk' \in Watchers BY <1>1
<1>3. jobs' \in [Jobs -> JobStates] BY StaleFacts
<1>4. /\ watcher'.machine = watcher.machine /\ watcher'.event = watcher.event
      /\ watcher'.life = "Restarted" => watcher.life = "Restarted"
  OBVIOUS
<1>5. MachineInv' /\ (AtWork => AtWork') BY <1>4, MachineKept
<1>6. \A k \in Jobs :
        /\ jobs'[k].pc = jobs[k].pc \/ jobs'[k].pc = "idle"
        /\ jobs'[k].pc # "idle" => /\ jobs'[k].life = jobs[k].life
                                   /\ jobs'[k].act = jobs[k].act /\ jobs'[k].fp = jobs[k].fp
        /\ jobs'[k].fresh => /\ jobs[k].fresh /\ watcher' = watcher /\ jobs'[k].life = jobs[k].life
                             /\ jobs'[k].pc = jobs[k].pc
                             /\ review' => review
  BY IdleFacts, StaleFacts
<1>7. SnapshotInv' BY <1>6, SnapshotsKept
<1>8. Engaged' \subseteq Engaged /\ Pending' \subseteq Pending BY <1>6 DEF Engaged, Pending
<1>9. CountInv'
  <2>1. \A w \in {watcher', disk'} : w.machine # None =>
           \E v \in {watcher, disk} : v.machine # None /\ w.machine = v.machine
    OBVIOUS
  <2>2. \A v \in {watcher, disk} : v.machine # None => v.machine.attempts \in Nat
    BY <1>1 DEF Watchers, Machines
  <2>3. \A w \in {watcher', disk'} : w.machine # None =>
           \E v \in {watcher, disk} : v.machine # None /\ w.machine.attempts >= v.machine.attempts
    BY <2>1, <2>2
  <2>4. performed' \in Nat /\ performed' <= performed BY DEF SafetyInv, TypeOK
  <2> QED BY <1>2, <1>8, <2>3, <2>4, CountKept
<1>10. ASSUME review' /\ daemon = "up" => review PROVE JobInv'
  BY <1>4, <1>5, <1>6, <1>8, <1>10, JobsKept
<1> QED BY <1>2, <1>3, <1>5, <1>7, <1>9, <1>10

\* The part of TypeOK that is not about the watcher and its jobs.
RestOK == /\ loop \in Clones \cup {None}
          /\ daemon \in {"up", "closing", "down"}
          /\ keys \in SUBSET Evidence
          /\ issued \in SUBSET Evidence
          /\ restarts \in Nat
          /\ commands \in Nat
          /\ faults \in Nat
          /\ paused \in BOOLEAN
          /\ review \in BOOLEAN
          /\ observed \in SUBSET Evidence
          /\ typed \in SUBSET Evidence
          /\ performed \in Nat

\* TypeOK is RestOK and the types of the watcher, its file and its jobs,
LEMMA TypeParts == TypeOK => RestOK /\ watcher \in Watchers /\ disk \in Watchers
                                    /\ jobs \in [Jobs -> JobStates]
  BY DEF TypeOK, RestOK

\* and follows from them.
LEMMA TypeWhole ==
    ASSUME RestOK', watcher' \in Watchers, disk' \in Watchers, jobs' \in [Jobs -> JobStates]
    PROVE  TypeOK'
  BY DEF TypeOK, RestOK

\* A watcher in another lifecycle.
LEMMA LifeTypes ==
    ASSUME NEW w \in Watchers, NEW life \in Lifecycles
    PROVE  /\ [w EXCEPT !.life = life] \in Watchers
           /\ [w EXCEPT !.life = life].machine = w.machine
           /\ [w EXCEPT !.life = life].event = w.event
           /\ [w EXCEPT !.life = life].life = life
  BY DEF Watchers

\* A watcher with another wake.
LEMMA WakeTypes ==
    ASSUME NEW w \in Watchers, NEW wake \in BOOLEAN
    PROVE  /\ [w EXCEPT !.wake = wake] \in Watchers
           /\ [w EXCEPT !.wake = wake].machine = w.machine
           /\ [w EXCEPT !.wake = wake].event = w.event
           /\ [w EXCEPT !.wake = wake].life = w.life
  BY DEF Watchers

-----------------------------------------------------------------------------
(***************************************************************************)
(* What comes from outside.                                                *)
(***************************************************************************)
LEMMA RequestStep ==
    ASSUME SafetyInv, NEW life \in Lifecycles \ {"Restarted"}, NEW ask,
           Request(InLife(life), ask), UNCHANGED performed
    PROVE  SafetyInv'
<1> DEFINE next == InLife(life)
<1>1. watcher \in Watchers /\ jobs \in [Jobs -> JobStates] /\ RestOK BY TypeParts DEF SafetyInv
<1>2. /\ next \in Watchers /\ next.machine = watcher.machine
      /\ next.event = watcher.event /\ next.life = life
  BY <1>1, LifeTypes DEF InLife
<1>3. /\ watcher' \in {watcher, next} /\ disk' \in {disk, next}
      /\ jobs' = Stale(jobs) \/ (jobs' = jobs /\ watcher' = watcher)
      /\ review' => review
      /\ UNCHANGED <<daemon, observed, performed>>
  BY <1>1 DEF Request, Written, Unwritten, Serves, RestOK
<1>4. RestOK'
  <2>1. /\ UNCHANGED <<loop, daemon, keys, issued, restarts, observed, typed, performed>>
        /\ commands' = commands + 1
        /\ faults' = faults \/ faults' = faults + 1
    BY DEF Request, Written, Unwritten, Serves
  <2>2. paused' \in BOOLEAN /\ review' \in BOOLEAN BY <1>1 DEF Request, RestOK
  <2> QED BY <1>1, <2>1, <2>2 DEF RestOK
<1> HIDE DEF next
<1>5. /\ watcher' \in Watchers /\ disk' \in Watchers /\ jobs' \in [Jobs -> JobStates]
      /\ SnapshotInv' /\ MachineInv' /\ CountInv' /\ JobInv'
  BY <1>1, <1>2, <1>3, AsideStep
<1>6. TypeOK' BY <1>4, <1>5, TypeWhole
<1> QED BY <1>5, <1>6 DEF SafetyInv, CountInv

\* A wake and the end of the target leave the machine alone.
LEMMA OutsideStep ==
    ASSUME SafetyInv, WakeObservation \/ TargetTerminated
    PROVE  SafetyInv'
<1>1. watcher \in Watchers /\ jobs \in [Jobs -> JobStates] /\ RestOK BY TypeParts DEF SafetyInv
<1>2. PICK next \in Watchers :
        /\ next.machine = watcher.machine /\ next.event = watcher.event
        /\ next.life = "Restarted" => watcher.life = "Restarted"
        /\ \/ Written(next) /\ jobs' = Stale(jobs)
           \/ Unwritten(next) /\ UNCHANGED jobs
  <2>1. CASE WakeObservation
    <3> DEFINE next == [watcher EXCEPT !.wake = TRUE]
    <3>1. next \in Watchers /\ next.machine = watcher.machine
          /\ next.event = watcher.event /\ next.life = watcher.life
      BY <1>1, WakeTypes
    <3> QED BY <2>1, <3>1 DEF WakeObservation
  <2>2. CASE TargetTerminated
    <3>1. "TargetTerminated" \in Lifecycles BY DEF Lifecycles
    <3> QED BY <1>1, <2>2, <3>1, LifeTypes DEF TargetTerminated, InLife
  <2> QED BY <2>1, <2>2
<1>3. /\ UNCHANGED <<loop, daemon, keys, issued, restarts, paused, review, observed, typed, performed>>
      /\ commands' = commands + 1
  BY DEF WakeObservation, TargetTerminated, Serves
<1>4. RestOK'
  <2>1. faults' = faults \/ faults' = faults + 1 BY <1>2 DEF Written, Unwritten
  <2> QED BY <1>1, <1>3, <2>1 DEF RestOK
<1>5. /\ watcher' \in {watcher, next} /\ disk' \in {disk, next}
      /\ jobs' = Stale(jobs) \/ (jobs' = jobs /\ watcher' = watcher)
  BY <1>2 DEF Written, Unwritten
<1>6. /\ watcher' \in Watchers /\ disk' \in Watchers /\ jobs' \in [Jobs -> JobStates]
      /\ SnapshotInv' /\ MachineInv' /\ CountInv' /\ JobInv'
  BY <1>1, <1>2, <1>3, <1>5, AsideStep
<1>7. TypeOK' BY <1>4, <1>6, TypeWhole
<1> QED BY <1>6, <1>7 DEF SafetyInv, CountInv

\* A watcher that a restart holds has no job at work, so a new machine finds
\* nothing performed and nothing pending.
LEMMA ReregisterStep ==
    ASSUME SafetyInv, NEW m \in {NewMachine, None}, Reregister(m)
    PROVE  SafetyInv'
<1> DEFINE next == [watcher EXCEPT !.life = "Registered", !.machine = m]
<1>1. /\ watcher \in Watchers /\ disk \in Watchers /\ jobs \in [Jobs -> JobStates] /\ RestOK
      /\ SnapshotInv /\ MachineInv /\ JobInv /\ CountInv
  BY TypeParts DEF SafetyInv, CountInv
<1>2. /\ m # None => m \in Machines /\ m.st = "NeedsRevalidation" /\ m.attempts = 0
  BY DEF NewMachine, Machines, RecoveryStates
<1>3. next \in Watchers /\ next.machine = m /\ next.life = "Registered"
  BY <1>1, <1>2 DEF Watchers, Lifecycles
<1>4. Engaged = {} /\ Pending = {}
  <2>1. Engaged = {} BY <1>1 DEF Reregister, JobInv
  <2> QED BY <2>1 DEF Engaged, Pending
<1>5. /\ UNCHANGED <<loop, daemon, keys, issued, restarts, observed, typed>>
      /\ commands' = commands + 1
      /\ faults' = faults \/ faults' = faults + 1
      /\ performed' \in {0, performed}
      /\ disk'.machine = m => performed' = 0
  BY DEF Reregister, Request, Serves, Written, Unwritten
<1>6. paused' \in BOOLEAN /\ review' \in BOOLEAN BY <1>1 DEF Reregister, Request, RestOK
<1>7. RestOK' BY <1>1, <1>5, <1>6 DEF RestOK
<1>8. CASE Written(next) /\ jobs' = Stale(jobs) /\ ~review'
  <2>1. watcher' = next /\ disk' = next BY <1>8 DEF Written
  <2>2. TypeOK' BY <1>1, <1>3, <1>7, <1>8, <2>1, StaleFacts, TypeWhole
  <2>3. SnapshotInv' BY <1>1, <1>5, <1>8, StaleFacts, SnapshotsKept
  <2>4. MachineInv' BY <1>2, <1>3, <2>1 DEF MachineInv
  <2>5. Engaged' = {} /\ Pending' = {} BY <1>1, <1>4, <1>8, StaleFacts DEF Engaged, Pending
  <2>6. JobInv'
    <3>1. \A k \in Jobs : jobs'[k].pc = jobs[k].pc BY <1>1, <1>8, StaleFacts
    <3> QED BY <1>1, <1>5, <1>8, <2>5, <3>1 DEF JobInv
  <2>7. CountInv' BY <1>2, <1>3, <1>5, <2>1, <2>5 DEF CountInv, Counted
  <2> QED BY <2>2, <2>3, <2>4, <2>6, <2>7 DEF SafetyInv, CountInv
<1>9. CASE Unwritten(next) /\ UNCHANGED <<jobs, paused, review>>
  <2>1. watcher' = watcher /\ disk' \in {disk, next} BY <1>9 DEF Unwritten
  <2>2. TypeOK' BY <1>1, <1>3, <1>7, <1>9, <2>1, TypeWhole
  <2>3. SnapshotInv' BY <1>5, <1>9, <2>1, SnapshotsKept
  <2>4. MachineInv' /\ (AtWork => AtWork') BY <1>5, <2>1, MachineKept
  <2>5. Engaged' = Engaged /\ Pending' = {} BY <1>4, <1>9 DEF Engaged, Pending
  <2>6. JobInv' BY <1>5, <1>9, <2>1, <2>4, <2>5, JobsKept
  <2>7. CountInv'
    <3>1. watcher.machine # None => watcher.machine.attempts \in Nat BY <1>1 DEF Watchers, Machines
    <3>2. CASE disk'.machine = m BY <1>2, <1>5, <2>1, <2>5, <3>1, <3>2 DEF CountInv, Counted
    <3>3. CASE disk'.machine # m /\ disk' = disk
      <4>1. performed \in Nat BY <1>1 DEF RestOK
      <4>2. disk.machine # None => disk.machine.attempts \in Nat BY <1>1 DEF Watchers, Machines
      <4> QED BY <1>1, <1>4, <1>5, <2>1, <2>5, <3>1, <3>3, <4>1, <4>2 DEF CountInv, Counted
    <3> QED BY <1>3, <2>1, <3>2, <3>3
  <2> QED BY <2>2, <2>3, <2>4, <2>6, <2>7 DEF SafetyInv, CountInv
<1> QED BY <1>8, <1>9 DEF Reregister, Request

\* A promotion takes the machine away under a job that may be at work.
LEMMA PromoteStep ==
    ASSUME SafetyInv, Promote
    PROVE  SafetyInv'
<1> DEFINE next == [watcher EXCEPT !.life = "Registered", !.machine = None, !.event = None,
                                   !.mark = None, !.wake = TRUE, !.rich = TRUE]
<1>1. /\ watcher \in Watchers /\ disk \in Watchers /\ jobs \in [Jobs -> JobStates] /\ RestOK
      /\ SnapshotInv /\ MachineInv /\ JobInv /\ CountInv
  BY TypeParts DEF SafetyInv, CountInv
<1>2. next \in Watchers /\ next.machine = None /\ next.life = "Registered" /\ next.rich
  BY <1>1 DEF Watchers, Lifecycles
<1>3. /\ UNCHANGED <<loop, daemon, keys, issued, restarts, observed, typed>>
      /\ commands' = commands + 1
      /\ faults' = faults \/ faults' = faults + 1
      /\ performed' \in {0, performed}
      /\ disk'.rich => performed' = 0
  BY DEF Promote, Request, Serves, Written, Unwritten
<1>4. paused' \in BOOLEAN /\ review' \in BOOLEAN BY <1>1 DEF Promote, Request, RestOK
<1>5. RestOK' BY <1>1, <1>3, <1>4 DEF RestOK
<1>6. performed' \in Nat /\ performed' <= performed BY <1>1, <1>3 DEF RestOK
<1>7. CASE Written(next) /\ jobs' = Stale(jobs) /\ ~review'
  <2>1. watcher' = next /\ disk' = next BY <1>7 DEF Written
  <2>2. TypeOK' BY <1>1, <1>2, <1>5, <1>7, <2>1, StaleFacts, TypeWhole
  <2>3. SnapshotInv' BY <1>1, <1>3, <1>7, StaleFacts, SnapshotsKept
  <2>4. MachineInv' BY <1>2, <2>1 DEF MachineInv
  <2>5. \A k \in Jobs : jobs'[k].pc = jobs[k].pc BY <1>1, <1>7, StaleFacts
  <2>6. Engaged' = Engaged BY <2>5 DEF Engaged
  <2>7. AtWork' BY <1>2, <2>1 DEF AtWork
  <2>8. JobInv' BY <1>2, <1>3, <1>7, <2>1, <2>5, <2>6, <2>7, JobsKept
  <2>9. CountInv' BY <1>2, <2>1 DEF CountInv, Counted
  <2> QED BY <2>2, <2>3, <2>4, <2>8, <2>9 DEF SafetyInv, CountInv
<1>8. CASE Unwritten(next) /\ UNCHANGED <<jobs, paused, review>>
  <2>1. watcher' = watcher /\ disk' \in {disk, next} BY <1>8 DEF Unwritten
  <2>2. TypeOK' BY <1>1, <1>2, <1>5, <1>8, <2>1, TypeWhole
  <2>3. SnapshotInv' BY <1>3, <1>8, <2>1, SnapshotsKept
  <2>4. MachineInv' /\ (AtWork => AtWork') BY <1>3, <2>1, MachineKept
  <2>5. Engaged' = Engaged /\ Pending' = Pending BY <1>8 DEF Engaged, Pending
  <2>6. JobInv' BY <1>3, <1>8, <2>1, <2>4, <2>5, JobsKept
  <2>7. CountInv'
    <3>1. \A v \in {watcher, disk} : v.machine # None => v.machine.attempts \in Nat
      BY <1>1 DEF Watchers, Machines
    <3>2. \A w \in {watcher', disk'} : w.machine # None =>
             \E v \in {watcher, disk} : v.machine # None /\ w.machine.attempts >= v.machine.attempts
      <4>1. \A w \in {watcher', disk'} : w.machine # None => w \in {watcher, disk} BY <1>2, <2>1
      <4> HIDE DEF next
      <4> QED BY <3>1, <4>1
    <3> QED BY <1>1, <1>2, <1>6, <2>1, <2>5, <3>2, CountKept
  <2> QED BY <2>2, <2>3, <2>4, <2>6, <2>7 DEF SafetyInv, CountInv
<1> QED BY <1>7, <1>8 DEF Promote, Request

-----------------------------------------------------------------------------
(***************************************************************************)
(* The observation loop and the shutdown.                                  *)
(***************************************************************************)
\* The watcher and its jobs are left alone.
LEMMA QuietStep ==
    ASSUME SafetyInv, RestOK', daemon' \in {daemon, "closing"},
           UNCHANGED <<watcher, disk, jobs, review, observed, performed>>
    PROVE  SafetyInv'
<1>1. TypeOK' BY TypeParts, TypeWhole DEF SafetyInv
<1>2. SnapshotInv' BY SnapshotsKept
<1>3. MachineInv' /\ (AtWork => AtWork') BY MachineKept
<1>4. Engaged' = Engaged /\ Pending' = Pending BY DEF Engaged, Pending
<1>5. JobInv' BY <1>3, <1>4 DEF SafetyInv, JobInv
<1>6. CountInv' BY <1>4 DEF SafetyInv, CountInv, Counted
<1> QED BY <1>1, <1>2, <1>3, <1>5, <1>6 DEF SafetyInv, CountInv

\* A poll, a failed observation and a shutdown write nothing.
LEMMA LoopStep ==
    ASSUME SafetyInv, Poll \/ ObserveFails \/ Shutdown
    PROVE  SafetyInv'
<1>1. RestOK /\ watcher \in Watchers BY TypeParts DEF SafetyInv
<1>2. CASE Poll
  <2>1. loop' \in Clones BY <1>1, <1>2 DEF Poll, Clones, Watchers
  <2>2. RestOK' BY <1>1, <1>2, <2>1 DEF Poll, RestOK, bounds
  <2> QED BY <1>2, <2>2, QuietStep DEF Poll
<1>3. CASE ObserveFails
  <2>1. RestOK' BY <1>1, <1>3 DEF ObserveFails, RestOK, bounds
  <2> QED BY <1>3, <2>1, QuietStep DEF ObserveFails
<1>4. CASE Shutdown
  <2>1. RestOK' BY <1>1, <1>4 DEF Shutdown, RestOK, bounds
  <2> QED BY <1>4, <2>1, QuietStep DEF Shutdown
<1> QED BY <1>2, <1>3, <1>4

\* commit_observation keeps the attempts, leaves a machine at work alone, and a
\* machine it revalidates takes its watcher out of Restarted.
LEMMA ConsiderFacts ==
    ASSUME NEW w \in Watchers, w.machine # None, NEW e \in Evidence
    PROVE  /\ Consider(w, e) \in Watchers
           /\ Consider(w, e).machine \in Machines
           /\ Consider(w, e).machine.attempts = w.machine.attempts
           /\ w.machine.st = "Acting" => Consider(w, e).machine = w.machine
           /\ Consider(w, e).life = IF w.machine.st = "NeedsRevalidation" THEN "Observing" ELSE w.life
<1> DEFINE revalidates == w.machine.st = "NeedsRevalidation"
           m1 == IF revalidates THEN Revalidated(w.machine) ELSE w.machine
           life == IF revalidates THEN "Observing" ELSE w.life
           m2 == IF Rearms(life, m1, e) THEN Rearmed(m1) ELSE m1
           confirms == Actionable(e) /\ (e \in Screens => w.count >= 2) /\ m2.st = "Observing"
           m3 == IF confirms THEN Confirmed(m2, e) ELSE m2
<1>1. w.machine \in Machines BY DEF Watchers
<1>2. m1 \in Machines /\ m1.attempts = w.machine.attempts /\ (w.machine.st = "Acting" => m1 = w.machine)
  BY <1>1, CommandTypes
<1>3. life \in Lifecycles BY DEF Watchers, Lifecycles
<1> HIDE DEF m1
<1>4. m2 \in Machines /\ m2.attempts = w.machine.attempts /\ (w.machine.st = "Acting" => m2 = w.machine)
  BY <1>2, CommandTypes DEF Rearms
<1> HIDE DEF m2
<1>5. m3 \in Machines /\ m3.attempts = w.machine.attempts /\ (w.machine.st = "Acting" => m3 = w.machine)
  BY <1>4, CommandTypes
<1>6. Consider(w, e) = [w EXCEPT !.life = life, !.machine = m3]
  BY DEF Consider, m1, m2
<1> HIDE DEF m3, life
<1>7. [w EXCEPT !.life = life, !.machine = m3] \in Watchers
  BY <1>3, <1>5 DEF Watchers
<1> QED BY <1>5, <1>6, <1>7 DEF Watchers, life

\* What a commit makes of a watcher: the facts of ConsiderFacts, or the watcher
\* as it was.
LEMMA CommittedFacts ==
    ASSUME NEW w \in Watchers, NEW c \in Clones, NEW r \in Evidence \cup {None}
    PROVE  /\ Committed(w, c, r) \in Watchers
           /\ w.machine = None => Committed(w, c, r).machine = None
           /\ w.machine # None => Committed(w, c, r).machine.attempts = w.machine.attempts
           /\ w.machine # None /\ w.machine.st = "Acting" => Committed(w, c, r).machine = w.machine
           /\ r = None => /\ Committed(w, c, r).machine = w.machine
                          /\ Committed(w, c, r).life = w.life
                          /\ Committed(w, c, r).event = w.event
           /\ r # None => Committed(w, c, r).event = r
           /\ Committed(w, c, r).life = "Restarted" =>
                 w.life = "Restarted" /\ (r = None \/ w.machine = None \/ w.machine.st # "NeedsRevalidation")
<1> DEFINE s == CountScreen(c, r)
           scheduled == [w EXCEPT !.wake = FALSE, !.screen = s.screen, !.count = s.count]
           walked == IF r = None \/ w.machine = None THEN scheduled ELSE Consider(scheduled, r)
<1>1. s.screen \in Evidence \cup {None} /\ s.count \in 0..2
  <2>1. c.screen \in Evidence \cup {None} /\ c.count \in 0..2 BY DEF Clones
  <2> QED BY <2>1 DEF CountScreen
<1>2. /\ scheduled \in Watchers /\ scheduled.machine = w.machine
      /\ scheduled.life = w.life /\ scheduled.event = w.event
  BY <1>1 DEF Watchers
<1> HIDE DEF s, scheduled
<1>4. /\ walked \in Watchers
      /\ w.machine = None => walked.machine = None
      /\ w.machine # None => walked.machine.attempts = w.machine.attempts
      /\ w.machine # None /\ w.machine.st = "Acting" => walked.machine = w.machine
      /\ r = None => walked = scheduled
      /\ walked.life = "Restarted" =>
            w.life = "Restarted" /\ (r = None \/ w.machine = None \/ w.machine.st # "NeedsRevalidation")
  BY <1>2, ConsiderFacts
<1>5. Committed(w, c, r) = IF r = None THEN walked ELSE [walked EXCEPT !.event = r, !.mark = None]
  BY DEF Committed, s, scheduled
<1> HIDE DEF walked
<1>6. r # None => /\ [walked EXCEPT !.event = r, !.mark = None] \in Watchers
                  /\ [walked EXCEPT !.event = r, !.mark = None].machine = walked.machine
                  /\ [walked EXCEPT !.event = r, !.mark = None].life = walked.life
                  /\ [walked EXCEPT !.event = r, !.mark = None].event = r
  BY <1>4 DEF Watchers
<1> QED BY <1>2, <1>4, <1>5, <1>6

\* A commit of an observation makes every snapshot stale and begins no job.
LEMMA CommitStep ==
    ASSUME SafetyInv, NEW r \in Evidence \cup {None}, Commit(r)
    PROVE  SafetyInv'
<1> DEFINE next == Committed(watcher, loop, r)
<1>1. /\ watcher \in Watchers /\ disk \in Watchers /\ jobs \in [Jobs -> JobStates] /\ RestOK
      /\ SnapshotInv /\ MachineInv /\ JobInv /\ CountInv
  BY TypeParts DEF SafetyInv, CountInv
<1>2. loop \in Clones BY <1>1 DEF Commit, RestOK
<1>3. /\ next \in Watchers
      /\ watcher.machine = None => next.machine = None
      /\ watcher.machine # None => next.machine.attempts = watcher.machine.attempts
      /\ watcher.machine # None /\ watcher.machine.st = "Acting" => next.machine = watcher.machine
      /\ r = None => /\ next.machine = watcher.machine /\ next.life = watcher.life
                     /\ next.event = watcher.event
      /\ r # None => next.event = r
      /\ next.life = "Restarted" =>
            watcher.life = "Restarted" /\ (r = None \/ watcher.machine = None \/ watcher.machine.st # "NeedsRevalidation")
  BY <1>1, <1>2, CommittedFacts
<1>4. /\ UNCHANGED <<daemon, keys, restarts, commands, paused, review, typed, performed>>
      /\ loop' = None
      /\ issued' = IF r # None /\ Kind[r] = "goal" THEN issued \cup {r} ELSE issued
  BY DEF Commit
<1>5. /\ faults' = faults \/ faults' = faults + 1
      /\ observed' = observed \cup ({r} \ {None}) \/ observed' = observed
  BY DEF Commit, Written, Unwritten
<1>6. RestOK' BY <1>1, <1>4, <1>5 DEF RestOK
<1> HIDE DEF next
<1>7. performed' \in Nat /\ performed' <= performed BY <1>1, <1>4 DEF RestOK
<1>8. \A v \in {watcher, disk} : v.machine # None => v.machine.attempts \in Nat
  BY <1>1 DEF Watchers, Machines
<1>9. \A w \in {watcher', disk'} : w.machine # None =>
         \E v \in {watcher, disk} : v.machine # None /\ w.machine.attempts >= v.machine.attempts
  <2>1. watcher' \in {watcher, next} /\ disk' \in {disk, next}
    BY DEF Commit, Written, Unwritten, next
  <2> QED BY <1>3, <1>8, <2>1
<1>10. ASSUME Written(next), observed' = observed \cup ({r} \ {None}),
              jobs' \in [Jobs -> JobStates],
              \A k \in Jobs : /\ ~jobs'[k].fresh
                              /\ \/ jobs'[k].pc = jobs[k].pc /\ jobs'[k].life = jobs[k].life
                                    /\ jobs'[k].act = jobs[k].act /\ jobs'[k].fp = jobs[k].fp
                                 \/ jobs'[k].pc = "start",
              daemon \in {"up", "closing"}
       PROVE  SafetyInv'
  <2>1. watcher' = next /\ disk' = next BY <1>10 DEF Written
  <2>2. TypeOK' BY <1>3, <1>6, <1>10, <2>1, TypeWhole
  <2>3. SnapshotInv' BY <1>10, SnapshotsKept
  <2>4. MachineInv'
    <3>1. CASE r = None BY <1>1, <1>3, <1>10, <2>1, <3>1 DEF MachineInv
    <3>2. CASE r # None BY <1>1, <1>3, <1>10, <2>1, <3>2 DEF MachineInv
    <3> QED BY <3>1, <3>2
  <2>5. Engaged' \subseteq Engaged /\ Pending' \subseteq Pending BY <1>10 DEF Engaged, Pending
  <2>6. JobInv'
    <3>1. AtWork => AtWork' BY <1>3, <2>1 DEF AtWork
    <3>2. daemon' # "down" BY <1>4, <1>10
    <3> QED BY <1>3, <1>4, <2>1, <2>5, <3>1, <3>2, JobsKept
  <2>7. CountInv' BY <1>3, <1>7, <1>9, <2>1, <2>5, CountKept
  <2> QED BY <2>2, <2>3, <2>4, <2>6, <2>7 DEF SafetyInv, CountInv
<1>11. CASE Unwritten(next) /\ UNCHANGED <<jobs, observed>>
  <2>1. watcher' = watcher /\ disk' \in {disk, next} BY <1>11 DEF Unwritten
  <2>2. TypeOK' BY <1>1, <1>3, <1>6, <1>11, <2>1, TypeWhole
  <2>3. SnapshotInv' BY <1>4, <1>11, <2>1, SnapshotsKept
  <2>4. MachineInv' /\ (AtWork => AtWork') BY <1>11, <2>1, MachineKept
  <2>5. Engaged' = Engaged /\ Pending' = Pending BY <1>11 DEF Engaged, Pending
  <2>6. JobInv' BY <1>4, <1>11, <2>1, <2>4, <2>5, JobsKept
  <2>7. CountInv' BY <1>1, <1>3, <1>7, <1>9, <2>1, <2>5, CountKept
  <2> QED BY <2>2, <2>3, <2>4, <2>6, <2>7 DEF SafetyInv, CountInv
<1>12. ASSUME NEW j \in Jobs, jobs' = [Stale(jobs) EXCEPT
                  ![j] = [Idle EXCEPT !.pc = "start", !.fp = next.event, !.mark = next.mark]]
       PROVE  /\ jobs' \in [Jobs -> JobStates]
              /\ \A k \in Jobs : /\ ~jobs'[k].fresh
                                 /\ \/ jobs'[k].pc = jobs[k].pc /\ jobs'[k].life = jobs[k].life
                                       /\ jobs'[k].act = jobs[k].act /\ jobs'[k].fp = jobs[k].fp
                                    \/ jobs'[k].pc = "start"
  <2> DEFINE f == [Idle EXCEPT !.pc = "start", !.fp = next.event, !.mark = next.mark]
  <2>1. f \in JobStates /\ f.pc = "start" /\ ~f.fresh
    BY <1>3 DEF Idle, JobStates, Stages, Lifecycles, Watchers
  <2> HIDE DEF f
  <2>2. jobs' = [Stale(jobs) EXCEPT ![j] = f] BY <1>12 DEF f
  <2> QED BY <1>1, <2>1, <2>2, StaleFacts
<1>13. CASE Written(next) /\ observed' = observed \cup ({r} \ {None})
            /\ \/ /\ daemon = "up"
                  /\ \E j \in Jobs : jobs' = [Stale(jobs) EXCEPT
                        ![j] = [Idle EXCEPT !.pc = "start", !.fp = next.event, !.mark = next.mark]]
               \/ daemon = "closing" /\ jobs' = Stale(jobs)
  <2>1. CASE daemon = "closing" /\ jobs' = Stale(jobs)
    BY <1>1, <1>10, <1>13, <2>1, StaleFacts
  <2>2. CASE daemon = "up" /\ \E j \in Jobs : jobs' = [Stale(jobs) EXCEPT
                        ![j] = [Idle EXCEPT !.pc = "start", !.fp = next.event, !.mark = next.mark]]
    BY <1>10, <1>12, <1>13, <2>2
  <2> QED BY <1>13, <2>1, <2>2
<1> QED BY <1>11, <1>13 DEF Commit, next

-----------------------------------------------------------------------------
(***************************************************************************)
(* The recovery jobs.                                                      *)
(***************************************************************************)
\* A job ends or gets past its dispatch, and nothing else changes.
LEMMA WindDown ==
    ASSUME SafetyInv, NEW j \in Jobs, RestOK', jobs' \in [Jobs -> JobStates],
           \A k \in Jobs : k # j => jobs'[k] = jobs[k],
           \/ jobs'[j].pc = "idle" /\ ~jobs'[j].fresh
           \/ /\ jobs[j].pc \in {"run", "ready", "sent", "done"}
              /\ jobs'[j].pc = "failed" /\ ~jobs'[j].fresh
           \/ /\ jobs[j].pc \in {"run", "ready", "sent", "done"}
              /\ jobs'[j].pc \in {"sent", "done"} /\ jobs'[j].fp = jobs[j].fp
              /\ jobs'[j].life = jobs[j].life /\ jobs'[j].fresh = jobs[j].fresh,
           UNCHANGED <<watcher, disk, review, observed, performed, daemon>>
    PROVE  SafetyInv'
<1>1. TypeOK' BY TypeParts, TypeWhole DEF SafetyInv
<1>2. SnapshotInv' BY SnapshotsKept
<1>3. MachineInv' /\ (AtWork => AtWork') BY MachineKept
<1>4. Engaged' \subseteq Engaged /\ Pending' \subseteq Pending BY DEF Engaged, Pending
<1>5. JobInv' BY <1>3, <1>4, JobsKept
<1>6. CountInv'
  <2>1. performed \in Nat /\ watcher \in Watchers /\ disk \in Watchers BY DEF SafetyInv, TypeOK
  <2>2. \A v \in {watcher, disk} : v.machine # None => v.machine.attempts \in Nat
    BY <2>1 DEF Watchers, Machines
  <2> QED BY <1>4, <2>1, <2>2, CountKept
<1> QED BY <1>1, <1>2, <1>3, <1>5, <1>6 DEF SafetyInv, CountInv

\* A job that ends without having written anything.
LEMMA QuitStep ==
    ASSUME SafetyInv, NEW j \in Jobs, Quit(j)
    PROVE  SafetyInv'
<1>1. RestOK /\ jobs \in [Jobs -> JobStates] BY TypeParts DEF SafetyInv
<1>2. RestOK' BY <1>1 DEF RestOK, Quit, JobAlone
<1>3. /\ jobs' \in [Jobs -> JobStates] /\ jobs'[j] = Idle
      /\ \A k \in Jobs : k # j => jobs'[k] = jobs[k]
  BY <1>1, IdleFacts DEF Quit, End
<1> QED BY <1>2, <1>3, IdleFacts, WindDown DEF Quit, JobAlone

\* A job that fails drops its snapshot and is left to its hand-off.
LEMMA FailsStep ==
    ASSUME SafetyInv, NEW j \in Jobs, Fails(j), jobs[j].pc \in {"run", "ready", "sent", "done"}
    PROVE  SafetyInv'
<1>1. RestOK /\ jobs \in [Jobs -> JobStates] BY TypeParts DEF SafetyInv
<1>2. RestOK' BY <1>1 DEF RestOK, Fails, JobAlone
<1> QED BY <1>1, <1>2, FailingFacts, WindDown DEF Fails, JobAlone

\* A job begins on a machine that was confirmed, so while no other is at work.
LEMMA BeginStep ==
    ASSUME SafetyInv, NEW j \in Jobs, JobBegin(j)
    PROVE  SafetyInv'
<1> DEFINE fp == jobs[j].fp
           m == watcher.machine
           w1 == [watcher EXCEPT !.machine = Begun(m, 0)]
           w2 == [w1 EXCEPT !.mark = fp]
           next(w) == [Stale(jobs)[j] EXCEPT !.pc = "run", !.act = w.event, !.mark = w.mark, !.life = w.life,
                          !.left = (w.machine.attempts < MaxAttempts), !.fresh = TRUE]
<1>1. CASE Quit(j) BY <1>1, QuitStep
<1>2. CASE ~Quit(j)
  <2>1. /\ watcher \in Watchers /\ disk \in Watchers /\ jobs \in [Jobs -> JobStates] /\ RestOK
        /\ SnapshotInv /\ MachineInv /\ JobInv /\ CountInv
    BY TypeParts DEF SafetyInv, CountInv
  <2>2. /\ m # None /\ CanBegin(m, fp, 0) /\ Proposed(fp, jobs[j].mark)
        /\ UNCHANGED <<keys, review, typed, performed, loop, daemon, issued, restarts, commands, paused, observed>>
    BY <1>2 DEF JobBegin, JobAlone
  <2>3. m \in Machines /\ m.st = "Confirmed" /\ fp \in Evidence
    BY <2>1, <2>2 DEF CanBegin, CanMove, Transitions, Watchers, JobStates, Proposed
  <2>4. /\ Begun(m, 0) \in Machines /\ Begun(m, 0).st = "Acting"
        /\ Begun(m, 0).attempts = m.attempts + 1 /\ m.attempts \in Nat
    BY <2>3, CommandTypes DEF Machines
  <2>5. /\ w1 \in Watchers /\ w1.machine = Begun(m, 0) /\ w1.life = watcher.life /\ w1.event = watcher.event
        /\ w2 \in Watchers /\ w2.machine = Begun(m, 0) /\ w2.life = watcher.life /\ w2.event = watcher.event
    BY <2>1, <2>3, <2>4 DEF Watchers
  <2>6. /\ watcher.event \in observed /\ watcher.life # "Restarted"
        /\ Engaged = {} /\ Pending = {} /\ ~(review /\ daemon = "up") /\ daemon # "down"
    <3>1. watcher.event \in observed /\ watcher.life # "Restarted" BY <2>1, <2>2, <2>3 DEF MachineInv
    <3>2. ~AtWork BY <2>2, <2>3 DEF AtWork
    <3>3. Engaged = {} /\ ~(review /\ daemon = "up") /\ daemon # "down"
      BY <2>1, <3>2 DEF JobInv, JobBegin
    <3> QED BY <3>1, <3>3 DEF Engaged, Pending
  <2> USE DEF fp, m
  <2>7. /\ faults' \in {faults, faults + 1}
        /\ \/ /\ watcher' \in {w1, w2} /\ disk' \in {w1, w2}
              /\ jobs' = [Stale(jobs) EXCEPT ![j] = next(watcher')]
           \/ /\ watcher' = watcher /\ disk' \in {disk, w1} /\ End(j)
    BY <1>2 DEF JobBegin, Written, Unwritten
  <2>8. RestOK' BY <2>1, <2>2, <2>7 DEF RestOK
  <2> HIDE DEF w1, w2
  <2>9. CASE watcher' \in {w1, w2} /\ disk' \in {w1, w2} /\ jobs' = [Stale(jobs) EXCEPT ![j] = next(watcher')]
    <3>1. /\ watcher' \in Watchers /\ disk' \in Watchers
          /\ watcher'.machine = Begun(m, 0) /\ disk'.machine = Begun(m, 0)
          /\ watcher'.life = watcher.life /\ watcher'.event = watcher.event
      BY <2>5, <2>9
    <3> DEFINE f == next(watcher')
    <3>2. /\ f \in JobStates /\ f.pc = "run" /\ f.act = watcher.event
          /\ f.life = watcher.life /\ f.fp = fp
      <4>1. Stale(jobs)[j] \in JobStates /\ Stale(jobs)[j].fp = fp BY <2>1, StaleFacts
      <4>2. (watcher'.machine.attempts < MaxAttempts) \in BOOLEAN OBVIOUS
      <4> QED BY <3>1, <4>1, <4>2 DEF JobStates, Stages, Watchers
    <3> HIDE DEF next, f
    <3>3. /\ jobs' \in [Jobs -> JobStates] /\ jobs'[j] = f
          /\ \A k \in Jobs : k # j => jobs'[k] = Stale(jobs)[k]
      <4>1. jobs' = [Stale(jobs) EXCEPT ![j] = f] BY <2>9 DEF f
      <4> QED BY <2>1, <3>2, <4>1, StaleFacts
    <3>4. TypeOK' BY <2>8, <3>1, <3>3, TypeWhole
    <3>5. SnapshotInv'
      <4> SUFFICES ASSUME NEW k \in Jobs
                   PROVE  /\ jobs'[k].fresh => watcher'.life = jobs'[k].life /\ jobs'[k].pc # "idle"
                          /\ jobs'[k].pc = "ready" => jobs'[k].life \notin Held
                          /\ jobs'[k].pc = "ready" /\ jobs'[k].fresh => ~review'
                          /\ jobs'[k].pc \in {"run", "ready"} => jobs'[k].act \in observed'
                          /\ jobs'[k].pc \in {"run", "ready", "sent", "done"} => jobs'[k].fp \in Evidence
        BY DEF SnapshotInv
      <4>1. CASE k = j BY <2>2, <2>3, <2>6, <3>1, <3>2, <3>3, <4>1
      <4>2. CASE k # j BY <2>1, <2>2, <3>3, <4>2, StaleFacts DEF SnapshotInv
      <4> QED BY <4>1, <4>2
    <3>6. MachineInv' BY <2>2, <2>6, <3>1 DEF MachineInv
    <3>7. \A k \in Engaged' : k = j
      BY <2>1, <2>6, <3>3, StaleFacts DEF Engaged
    <3>8. AtWork' BY <2>4, <3>1 DEF AtWork
    <3>9. JobInv' BY <2>2, <2>6, <3>1, <3>7, <3>8 DEF JobInv
    <3>10. CountInv'
      <4>1. performed \in Nat /\ performed <= m.attempts
        BY <2>1, <2>2, <2>6 DEF RestOK, CountInv, Counted
      <4>2. performed' < Begun(m, 0).attempts BY <2>2, <2>4, <4>1
      <4>3. performed' \in Nat /\ Begun(m, 0).attempts \in Nat BY <2>2, <2>4, <4>1
      <4> QED BY <3>1, <4>2, <4>3 DEF CountInv, Counted
    <3> QED BY <3>4, <3>5, <3>6, <3>9, <3>10 DEF SafetyInv, CountInv
  <2>10. CASE watcher' = watcher /\ disk' \in {disk, w1} /\ End(j)
    <3>1. /\ jobs' \in [Jobs -> JobStates] /\ jobs'[j] = Idle
          /\ \A k \in Jobs : k # j => jobs'[k] = jobs[k]
      BY <2>1, <2>10, IdleFacts DEF End
    <3>2. watcher' \in Watchers /\ disk' \in Watchers BY <2>1, <2>5, <2>10
    <3>3. TypeOK' BY <2>8, <3>1, <3>2, TypeWhole
    <3>4. SnapshotInv' BY <2>2, <2>10, <3>1, IdleFacts, SnapshotsKept
    <3>5. MachineInv' /\ (AtWork => AtWork') BY <2>2, <2>10, MachineKept
    <3>6. Engaged' \subseteq Engaged /\ Pending' \subseteq Pending
      BY <3>1, IdleFacts DEF Engaged, Pending
    <3>7. JobInv' BY <2>2, <2>10, <3>1, <3>5, <3>6, IdleFacts, JobsKept
    <3>8. CountInv'
      <4>1. \A v \in {watcher, disk} : v.machine # None => v.machine.attempts \in Nat
        BY <2>1 DEF Watchers, Machines
      <4>2. w1.machine.attempts >= watcher.machine.attempts BY <2>4, <2>5
      <4>3. \A w \in {watcher', disk'} : w.machine # None =>
               \E v \in {watcher, disk} : v.machine # None /\ w.machine.attempts >= v.machine.attempts
        BY <2>2, <2>10, <4>1, <4>2
      <4>4. performed' \in Nat /\ performed' <= performed BY <2>1, <2>2 DEF RestOK
      <4> QED BY <3>2, <3>6, <4>3, <4>4, CountKept
    <3> QED BY <3>3, <3>4, <3>5, <3>7, <3>8 DEF SafetyInv, CountInv
  <2> QED BY <2>7, <2>9, <2>10
<1> QED BY <1>1, <1>2

\* A job claims in a daemon that is up, which is handed over to nobody while the
\* job is at work.
LEMMA RunStep ==
    ASSUME SafetyInv, NEW j \in Jobs, JobRun(j)
    PROVE  SafetyInv'
<1>1. /\ watcher \in Watchers /\ disk \in Watchers /\ jobs \in [Jobs -> JobStates] /\ RestOK
      /\ SnapshotInv /\ MachineInv /\ JobInv /\ CountInv
  BY TypeParts DEF SafetyInv, CountInv
<1>2. CASE Quit(j) BY <1>2, QuitStep
<1>3. CASE jobs' = Failing(j, jobs) /\ UNCHANGED <<watcher, disk, faults, keys, review, typed, performed>>
           /\ JobAlone
  BY <1>3, FailsStep DEF Fails, JobRun
<1>4. CASE /\ Proposed(jobs[j].act, jobs[j].mark) /\ Stable(j)
           /\ keys' = keys \cup {jobs[j].act}
           /\ jobs' = Enters(j, jobs, "ready")
           /\ UNCHANGED <<watcher, disk, faults, review, typed, performed>>
           /\ JobAlone
  <2>1. jobs[j].pc = "run" BY DEF JobRun
  <2>2. RestOK'
    <3>1. jobs[j].act \in Evidence BY <1>1, <1>4 DEF JobStates, Proposed
    <3> QED BY <1>1, <1>4, <3>1 DEF RestOK, JobAlone
  <2>3. /\ jobs' \in [Jobs -> JobStates]
        /\ \A k \in Jobs : k # j => jobs'[k] = jobs[k]
        /\ \/ /\ daemon = "up" /\ jobs'[j].pc = "ready" /\ jobs'[j].act = jobs[j].act
              /\ jobs'[j].life = jobs[j].life /\ jobs'[j].fresh = jobs[j].fresh /\ jobs'[j].fp = jobs[j].fp
           \/ jobs'[j].pc = "failed" /\ ~jobs'[j].fresh
    BY <1>1, <1>4, EntersFacts DEF Stages
  <2>4. CASE jobs'[j].pc = "failed" /\ ~jobs'[j].fresh
    BY <1>4, <2>1, <2>2, <2>3, <2>4, WindDown DEF JobAlone
  <2>5. CASE /\ daemon = "up" /\ jobs'[j].pc = "ready" /\ jobs'[j].act = jobs[j].act
             /\ jobs'[j].life = jobs[j].life /\ jobs'[j].fresh = jobs[j].fresh /\ jobs'[j].fp = jobs[j].fp
    <3>1. UNCHANGED <<watcher, disk, review, observed, performed, daemon>> BY <1>4 DEF JobAlone
    <3>2. TypeOK' BY <1>1, <2>2, <2>3, <3>1, TypeWhole
    <3>3. j \in Engaged BY <2>1 DEF Engaged
    <3>4. ~review BY <1>1, <2>5, <3>3 DEF JobInv
    <3>5. jobs[j].life \notin Held BY <1>4 DEF Stable
    <3>6. SnapshotInv'
      <4> SUFFICES ASSUME NEW k \in Jobs
                   PROVE  /\ jobs'[k].fresh => watcher'.life = jobs'[k].life /\ jobs'[k].pc # "idle"
                          /\ jobs'[k].pc = "ready" => jobs'[k].life \notin Held
                          /\ jobs'[k].pc = "ready" /\ jobs'[k].fresh => ~review'
                          /\ jobs'[k].pc \in {"run", "ready"} => jobs'[k].act \in observed'
                          /\ jobs'[k].pc \in {"run", "ready", "sent", "done"} => jobs'[k].fp \in Evidence
        BY DEF SnapshotInv
      <4>1. CASE k = j BY <1>1, <2>1, <2>5, <3>1, <3>4, <3>5, <4>1 DEF SnapshotInv
      <4>2. CASE k # j BY <1>1, <2>3, <3>1, <4>2 DEF SnapshotInv
      <4> QED BY <4>1, <4>2
    <3>7. MachineInv' /\ (AtWork => AtWork') BY <3>1, MachineKept
    <3>8. Engaged' = Engaged /\ Pending' = Pending BY <2>1, <2>3, <2>5 DEF Engaged, Pending
    <3>9. JobInv' BY <1>1, <2>5, <3>1, <3>7, <3>8, JobsKept
    <3>10. CountInv' BY <1>1, <3>1, <3>8 DEF CountInv, Counted
    <3> QED BY <3>2, <3>6, <3>7, <3>9, <3>10 DEF SafetyInv, CountInv
  <2> QED BY <2>3, <2>4, <2>5
<1> QED BY <1>2, <1>3, <1>4 DEF JobRun

\* What a pending job performs, it was counted for; no other job is pending.
LEMMA PerformedStep ==
    ASSUME SafetyInv, NEW j \in Pending, watcher' \in Watchers, disk' \in Watchers,
           performed' \in {performed, performed + 1},
           \A k \in Jobs : k # j => jobs'[k].pc = jobs[k].pc,
           jobs'[j].pc \notin {"run", "ready"},
           watcher'.machine = watcher.machine, disk'.machine \in {disk.machine, watcher.machine}
    PROVE  CountInv'
<1>1. performed \in Nat /\ watcher \in Watchers /\ disk \in Watchers BY DEF SafetyInv, TypeOK
<1>2. \A v \in {watcher, disk} : v.machine # None => v.machine.attempts \in Nat
  BY <1>1 DEF Watchers, Machines
<1>3. \A v \in {watcher, disk} : v.machine # None => performed < v.machine.attempts
  BY DEF SafetyInv, Counted
<1>4. \A v \in {watcher, disk} : v.machine # None => performed' <= v.machine.attempts
  BY <1>1, <1>2, <1>3
<1>5. Pending' = {}
  <2>1. \A k \in Pending : k = j BY DEF SafetyInv, JobInv, Pending, Engaged
  <2> QED BY <2>1 DEF Pending
<1> QED BY <1>4, <1>5 DEF CountInv, Counted

\* A job types once, with the attempt that was counted for it.
LEMMA TypesStep ==
    ASSUME SafetyInv, NEW j \in Jobs, jobs[j].pc = "ready", JobTypes(j)
    PROVE  SafetyInv'
<1>1. /\ watcher \in Watchers /\ disk \in Watchers /\ jobs \in [Jobs -> JobStates] /\ RestOK
      /\ SnapshotInv /\ MachineInv /\ JobInv /\ CountInv
  BY TypeParts DEF SafetyInv, CountInv
<1>2. /\ UNCHANGED <<watcher, disk, review, observed, daemon>>
      /\ performed' = performed + 1
  BY DEF JobTypes, JobAlone
<1>3. RestOK'
  <2>1. jobs[j].act \in Evidence BY <1>1 DEF SnapshotInv, RestOK
  <2> QED BY <1>1, <2>1 DEF RestOK, JobTypes, JobAlone
<1>4. /\ jobs' \in [Jobs -> JobStates]
      /\ \A k \in Jobs : k # j => jobs'[k] = jobs[k]
      /\ \/ /\ jobs'[j].pc = "sent" /\ jobs'[j].fp = jobs[j].fp
            /\ jobs'[j].life = jobs[j].life /\ jobs'[j].fresh = jobs[j].fresh
         \/ jobs'[j].pc = "failed" /\ ~jobs'[j].fresh
  <2>1. "sent" \in Stages BY DEF Stages
  <2>2. CASE jobs' = Enters(j, jobs, "sent") BY <1>1, <2>1, <2>2, EntersFacts
  <2>3. CASE jobs' = Failing(j, jobs) BY <1>1, <2>3, FailingFacts
  <2> QED BY <2>2, <2>3 DEF JobTypes
<1>5. TypeOK' BY <1>1, <1>2, <1>3, <1>4, TypeWhole
<1>6. SnapshotInv' BY <1>2, <1>4, SnapshotsKept
<1>7. MachineInv' /\ (AtWork => AtWork') BY <1>2, MachineKept
<1>8. Engaged' \subseteq Engaged /\ j \in Pending BY <1>4 DEF Engaged, Pending
<1>9. JobInv' BY <1>2, <1>4, <1>7, <1>8, JobsKept
<1>10. CountInv' BY <1>1, <1>2, <1>4, <1>8, PerformedStep
<1> QED BY <1>5, <1>6, <1>7, <1>9, <1>10 DEF SafetyInv, CountInv

\* A wait is scheduled by the job it was counted for.
LEMMA SchedulesStep ==
    ASSUME SafetyInv, NEW j \in Jobs, jobs[j].pc = "ready", JobSchedules(j)
    PROVE  SafetyInv'
<1> DEFINE w1 == [watcher EXCEPT !.wake = FALSE]
           w2 == [w1 EXCEPT !.life = "Waiting"]
<1>1. /\ watcher \in Watchers /\ disk \in Watchers /\ jobs \in [Jobs -> JobStates] /\ RestOK
      /\ SnapshotInv /\ MachineInv /\ JobInv /\ CountInv
  BY TypeParts DEF SafetyInv, CountInv
<1>2. /\ w1 \in Watchers /\ w1.machine = watcher.machine /\ w1.event = watcher.event /\ w1.life = watcher.life
      /\ w2 \in Watchers /\ w2.machine = watcher.machine /\ w2.event = watcher.event /\ w2.life = "Waiting"
  BY <1>1 DEF Watchers, Lifecycles
<1>3. /\ UNCHANGED <<keys, review, typed, loop, daemon, issued, restarts, commands, paused, observed>>
      /\ performed' \in {performed, performed + 1}
      /\ faults' \in {faults, faults + 1}
      /\ disk' \in {disk, w1, w2}
      /\ \/ watcher' \in {w1, w2} /\ jobs' \in {Enters(j, Stale(jobs), "done"), Failing(j, Stale(jobs))}
         \/ watcher' = watcher /\ jobs' = Failing(j, jobs)
  BY DEF JobSchedules, JobAlone, Written, Unwritten
<1> HIDE DEF w1, w2
<1>4. RestOK' BY <1>1, <1>3 DEF RestOK
<1>5. /\ watcher' \in Watchers /\ disk' \in Watchers
      /\ watcher'.machine = watcher.machine /\ watcher'.event = watcher.event
      /\ watcher'.life \in {watcher.life, "Waiting"}
      /\ disk'.machine \in {disk.machine, watcher.machine}
  BY <1>1, <1>2, <1>3
<1>6. /\ jobs' \in [Jobs -> JobStates]
      /\ \A k \in Jobs : k # j => /\ jobs'[k].pc = jobs[k].pc /\ jobs'[k].life = jobs[k].life
                                  /\ jobs'[k].act = jobs[k].act /\ jobs'[k].fp = jobs[k].fp
                                  /\ jobs'[k].fresh => jobs[k].fresh /\ watcher' = watcher
      /\ jobs'[j].pc \in {"done", "failed"} /\ ~jobs'[j].fresh
      /\ jobs'[j].pc = "done" => jobs'[j].fp = jobs[j].fp
  <2>1. "done" \in Stages BY DEF Stages
  <2>2. CASE jobs' = Enters(j, Stale(jobs), "done") BY <1>1, <2>1, <2>2, StaleFacts, EntersFacts
  <2>3. CASE jobs' = Failing(j, Stale(jobs)) BY <1>1, <2>3, StaleFacts, FailingFacts
  <2>4. CASE watcher' = watcher /\ jobs' = Failing(j, jobs) BY <1>1, <2>4, FailingFacts
  <2> QED BY <1>3, <2>2, <2>3, <2>4
<1>7. TypeOK' BY <1>4, <1>5, <1>6, TypeWhole
<1>8. SnapshotInv' BY <1>3, <1>6, SnapshotsKept
<1>9. MachineInv' /\ (AtWork => AtWork') BY <1>3, <1>5, MachineKept
<1>10. Engaged' \subseteq Engaged /\ j \in Pending BY <1>6 DEF Engaged, Pending
<1>11. JobInv' BY <1>3, <1>5, <1>6, <1>9, <1>10, JobsKept
<1>12. CountInv' BY <1>3, <1>5, <1>6, <1>10, PerformedStep
<1> QED BY <1>7, <1>8, <1>9, <1>11, <1>12 DEF SafetyInv, CountInv

\* Both kinds of dispatch, and the refusal of one.
LEMMA DispatchStep ==
    ASSUME SafetyInv, NEW j \in Jobs, JobDispatch(j)
    PROVE  SafetyInv'
  BY TypesStep, SchedulesStep, FailsStep DEF JobDispatch

\* Verification moves the job on, or winds it down.
LEMMA VerifyStep ==
    ASSUME SafetyInv, NEW j \in Jobs, JobVerify(j)
    PROVE  SafetyInv'
<1>1. RestOK /\ jobs \in [Jobs -> JobStates] /\ jobs[j].pc = "sent" BY TypeParts DEF SafetyInv, JobVerify
<1>2. CASE Fails(j) BY <1>1, <1>2, FailsStep
<1>3. CASE jobs' = Enters(j, jobs, "done") /\ JobAlone
           /\ UNCHANGED <<watcher, disk, faults, keys, review, typed, performed>>
  <2>1. RestOK' BY <1>1, <1>3 DEF RestOK, JobAlone
  <2>2. "done" \in Stages BY DEF Stages
  <2> QED BY <1>1, <1>3, <2>1, <2>2, EntersFacts, WindDown DEF JobAlone
<1> QED BY <1>2, <1>3 DEF JobVerify

\* A job that ended is idle, and the others are as they were.
LEMMA EndedFacts ==
    ASSUME jobs \in [Jobs -> JobStates], NEW j \in Jobs
    PROVE  /\ Ended(j) \in [Jobs -> JobStates] /\ Ended(j)[j] = Idle
           /\ \A k \in Jobs : k # j => Ended(j)[k] = jobs[k]
  BY IdleFacts DEF Ended

\* A job that is done completes the action of its machine, or leaves the machine
\* at work.
LEMMA DoneStep ==
    ASSUME SafetyInv, NEW j \in Jobs, JobDone(j)
    PROVE  SafetyInv'
<1> DEFINE m == watcher.machine
           fp == jobs[j].fp
           next == [watcher EXCEPT !.machine = Succeeded(m, fp)]
<1>1. /\ watcher \in Watchers /\ disk \in Watchers /\ jobs \in [Jobs -> JobStates] /\ RestOK
      /\ SnapshotInv /\ MachineInv /\ JobInv /\ CountInv
  BY TypeParts DEF SafetyInv, CountInv
<1>2. jobs[j].pc = "done" /\ fp \in Evidence BY <1>1 DEF JobDone, SnapshotInv
<1>3. CASE End(j) /\ UNCHANGED <<watcher, disk, faults>>
  BY <1>3, QuitStep DEF JobDone, Quit
<1>4. CASE /\ m # None /\ CanSucceed(m, fp)
           /\ \/ Written(next) /\ jobs' = Stale(Ended(j))
              \/ Unwritten(next) /\ End(j)
  <2>1. /\ UNCHANGED <<keys, review, typed, performed, loop, daemon, issued, restarts, commands, paused, observed>>
        /\ faults' \in {faults, faults + 1}
    BY <1>4 DEF JobDone, JobAlone, Written, Unwritten
  <2>2. m \in Machines /\ m.st = "Acting"
    BY <1>1, <1>4 DEF Watchers, CanSucceed, CanMove, Transitions
  <2>3. Succeeded(m, fp) \in Machines /\ Succeeded(m, fp).attempts = m.attempts
    BY <1>2, <2>2, CommandTypes
  <2>4. /\ next \in Watchers /\ next.machine = Succeeded(m, fp)
        /\ next.life = watcher.life /\ next.event = watcher.event
    BY <1>1, <2>3 DEF Watchers
  <2>5. /\ disk' \in {disk, next} /\ watcher' \in {watcher, next}
        /\ jobs' = Stale(Ended(j)) \/ (jobs' = Ended(j) /\ watcher' = watcher)
    BY <1>4 DEF Written, Unwritten, End, Ended
  <2> HIDE DEF next
  <2>6. RestOK' BY <1>1, <2>1 DEF RestOK
  <2>7. /\ jobs' \in [Jobs -> JobStates]
        /\ jobs'[j].pc = "idle" /\ ~jobs'[j].fresh
        /\ \A k \in Jobs : k # j => /\ jobs'[k].pc = jobs[k].pc /\ jobs'[k].life = jobs[k].life
                                    /\ jobs'[k].act = jobs[k].act /\ jobs'[k].fp = jobs[k].fp
                                    /\ jobs'[k].fresh => jobs[k].fresh /\ watcher' = watcher
    BY <1>1, <2>5, IdleFacts, EndedFacts, StaleFacts
  <2>8. watcher' \in Watchers /\ disk' \in Watchers BY <1>1, <2>4, <2>5
  <2>9. TypeOK' BY <2>6, <2>7, <2>8, TypeWhole
  <2>10. SnapshotInv' BY <2>1, <2>7, SnapshotsKept
  <2>11. MachineInv' BY <1>1, <1>4, <2>1, <2>2, <2>4, <2>5 DEF MachineInv
  <2>12. Engaged' = {} /\ Pending' = {} /\ j \in Engaged
    <3>1. j \in Engaged /\ \A k \in Engaged : k = j BY <1>1, <1>2 DEF JobInv, Engaged
    <3> QED BY <2>7, <3>1 DEF Engaged, Pending
  <2>13. ~(review /\ daemon = "up") /\ daemon # "down" BY <1>1, <1>2, <2>12 DEF JobInv
  <2>14. JobInv' BY <2>1, <2>12, <2>13 DEF JobInv
  <2>15. CountInv'
    <3>1. \A v \in {watcher, disk} : v.machine # None => v.machine.attempts \in Nat
      BY <1>1 DEF Watchers, Machines
    <3>2. \A w \in {watcher', disk'} : w.machine # None =>
             \E v \in {watcher, disk} : v.machine # None /\ w.machine.attempts >= v.machine.attempts
      BY <1>4, <2>3, <2>4, <2>5, <3>1
    <3>3. performed' \in Nat /\ performed' <= performed BY <1>1, <2>1 DEF RestOK
    <3> QED BY <2>8, <2>12, <3>2, <3>3, CountKept
  <2> QED BY <2>9, <2>10, <2>11, <2>14, <2>15 DEF SafetyInv, CountInv
<1> QED BY <1>3, <1>4 DEF JobDone

\* A hand-off leaves the machine at work and nobody to go on with it.
LEMMA FailedStep ==
    ASSUME SafetyInv, NEW j \in Jobs, JobFailed(j)
    PROVE  SafetyInv'
<1> DEFINE next == InLife("HumanRequired")
<1>1. /\ watcher \in Watchers /\ disk \in Watchers /\ jobs \in [Jobs -> JobStates] /\ RestOK
      /\ SnapshotInv /\ MachineInv /\ JobInv /\ CountInv
  BY TypeParts DEF SafetyInv, CountInv
<1>2. /\ next \in Watchers /\ next.machine = watcher.machine
      /\ next.event = watcher.event /\ next.life = "HumanRequired"
  BY <1>1, LifeTypes DEF InLife, Lifecycles
<1>3. /\ UNCHANGED <<keys, typed, performed, loop, daemon, issued, restarts, commands, paused, observed>>
      /\ faults' \in {faults, faults + 1}
      /\ watcher' \in {watcher, next} /\ disk' \in {disk, next}
      /\ \/ jobs' = Stale(Ended(j)) /\ review' = TRUE
         \/ jobs' = Ended(j) /\ watcher' = watcher /\ review' = review
  BY DEF JobFailed, JobAlone, HandOff, Written, Unwritten
<1> HIDE DEF next
<1>4. RestOK'
  <2>1. review' \in BOOLEAN BY <1>1, <1>3 DEF RestOK
  <2> QED BY <1>1, <1>3, <2>1 DEF RestOK
<1>5. /\ Ended(j) \in [Jobs -> JobStates]
      /\ \A k \in Jobs : Ended(j)[k] = Idle \/ Ended(j)[k] = jobs[k]
  BY <1>1, EndedFacts
<1>6. /\ watcher' \in Watchers /\ disk' \in Watchers /\ jobs' \in [Jobs -> JobStates]
      /\ SnapshotInv' /\ MachineInv' /\ CountInv'
  BY <1>2, <1>3, <1>5, AsideStep
<1>7. TypeOK' BY <1>4, <1>6, TypeWhole
<1>8. JobInv'
  <2>1. j \in Engaged /\ \A k \in Engaged : k = j BY <1>1 DEF JobFailed, JobInv, Engaged
  <2>2. /\ jobs'[j].pc = "idle"
        /\ \A k \in Jobs : k # j => jobs'[k].pc = jobs[k].pc
    BY <1>1, <1>3, IdleFacts, EndedFacts, StaleFacts
  <2>3. Engaged' = {} BY <2>1, <2>2 DEF Engaged
  <2>4. AtWork' BY <1>1, <1>2, <1>3, <2>1 DEF JobInv, AtWork
  <2>5. daemon # "down" BY <1>1 DEF JobInv, JobFailed
  <2> QED BY <1>3, <2>3, <2>4, <2>5 DEF JobInv
<1> QED BY <1>6, <1>7, <1>8 DEF SafetyInv, CountInv

\* A job that outlives the grace has its watcher handed off, and goes on.
LEMMA GraceStep ==
    ASSUME SafetyInv, NEW j \in Jobs, GraceExpired(j)
    PROVE  SafetyInv'
<1> DEFINE next == InLife("HumanRequired")
           js == [jobs EXCEPT ![j].graced = TRUE]
<1>1. /\ watcher \in Watchers /\ disk \in Watchers /\ jobs \in [Jobs -> JobStates] /\ RestOK
  BY TypeParts DEF SafetyInv, CountInv
<1>2. /\ next \in Watchers /\ next.machine = watcher.machine
      /\ next.event = watcher.event /\ next.life = "HumanRequired"
  BY <1>1, LifeTypes DEF InLife, Lifecycles
<1>3. /\ js \in [Jobs -> JobStates]
      /\ \A k \in Jobs : /\ js[k].pc = jobs[k].pc /\ js[k].act = jobs[k].act /\ js[k].fp = jobs[k].fp
                         /\ js[k].life = jobs[k].life /\ js[k].fresh = jobs[k].fresh
  BY <1>1 DEF JobStates
<1>4. /\ UNCHANGED <<keys, typed, performed, loop, daemon, issued, restarts, commands, paused, observed>>
      /\ faults' \in {faults, faults + 1} /\ daemon = "closing"
      /\ watcher' \in {watcher, next} /\ disk' \in {disk, next}
      /\ \/ jobs' = Stale(js) /\ review' = TRUE
         \/ jobs' = js /\ watcher' = watcher /\ review' = review
  BY DEF GraceExpired, JobAlone, HandOff, Written, Unwritten
<1> HIDE DEF next, js
<1>5. RestOK'
  <2>1. review' \in BOOLEAN BY <1>1, <1>4 DEF RestOK
  <2> QED BY <1>1, <1>4, <2>1 DEF RestOK
<1>6. /\ watcher' \in Watchers /\ disk' \in Watchers /\ jobs' \in [Jobs -> JobStates]
      /\ SnapshotInv' /\ MachineInv' /\ CountInv' /\ JobInv'
  BY <1>2, <1>3, <1>4, AsideStep
<1>7. TypeOK' BY <1>5, <1>6, TypeWhole
<1> QED BY <1>6, <1>7 DEF SafetyInv, CountInv

-----------------------------------------------------------------------------
(***************************************************************************)
(* The end of a daemon and the start of another.                           *)
(***************************************************************************)
LEMMA DownStep ==
    ASSUME SafetyInv, Exit \/ Crash
    PROVE  SafetyInv'
<1>1. /\ watcher \in Watchers /\ disk \in Watchers /\ jobs \in [Jobs -> JobStates] /\ RestOK
  BY TypeParts DEF SafetyInv
<1>2. /\ UNCHANGED <<watcher, disk, review, observed, performed>> /\ daemon' = "down"
  BY DEF Exit, Crash
<1>3. RestOK' BY <1>1 DEF RestOK, Exit, Crash, bounds
<1>4. /\ jobs' \in [Jobs -> JobStates]
      /\ \A k \in Jobs : jobs'[k].pc = "idle" /\ (jobs'[k].fresh => jobs'[k] = jobs[k])
  BY <1>1, IdleFacts DEF Exit, Crash
<1>5. TypeOK' BY <1>1, <1>2, <1>3, <1>4, TypeWhole
<1>6. SnapshotInv' BY <1>2, <1>4, SnapshotsKept
<1>7. MachineInv' BY <1>2, MachineKept
<1>8. Engaged' = {} /\ Pending' = {} BY <1>4 DEF Engaged, Pending
<1>9. JobInv' BY <1>2, <1>4, <1>8 DEF JobInv
<1>10. CountInv'
  <2>1. \A v \in {watcher, disk} : v.machine # None => v.machine.attempts \in Nat
    BY <1>1 DEF Watchers, Machines
  <2>2. performed' \in Nat /\ performed' <= performed BY <1>1, <1>2 DEF RestOK
  <2> QED BY <1>1, <1>2, <1>8, <2>1, <2>2, CountKept
<1> QED BY <1>5, <1>6, <1>7, <1>9, <1>10 DEF SafetyInv, CountInv

\* A watcher read from the file keeps its attempts and is to be revalidated.
LEMMA LoadedFacts ==
    ASSUME NEW d \in Watchers
    PROVE  /\ Loaded(d) \in Watchers
           /\ d.machine = None => Loaded(d).machine = None
           /\ d.machine # None => /\ Loaded(d).machine.st = "NeedsRevalidation"
                                  /\ Loaded(d).machine.attempts = d.machine.attempts
<1> DEFINE life == IF d.life \in {"Stopped", "TargetTerminated", "HumanRequired", "Restarted"}
                   THEN d.life ELSE "Restarted"
           m == IF d.machine = None THEN None ELSE Restored(d.machine)
<1>1. life \in Lifecycles BY DEF Watchers, Lifecycles
<1>2. /\ m \in Machines \cup {None}
      /\ d.machine # None => m.st = "NeedsRevalidation" /\ m.attempts = d.machine.attempts
  <2>1. CASE d.machine = None BY <2>1
  <2>2. CASE d.machine # None
    <3>1. d.machine \in Machines BY <2>2 DEF Watchers
    <3>2. Restored(d.machine) \in Machines BY <3>1 DEF Machines, RecoveryStates, Restored
    <3>3. Restored(d.machine).st = "NeedsRevalidation" /\ Restored(d.machine).attempts = d.machine.attempts
      BY <3>1 DEF Machines, Restored
    <3> QED BY <2>2, <3>2, <3>3
  <2> QED BY <2>1, <2>2
<1>3. Loaded(d) = [d EXCEPT !.life = life, !.machine = m] BY DEF Loaded
<1>4. d.machine = None => m = None OBVIOUS
<1> HIDE DEF life, m
<1> QED BY <1>1, <1>2, <1>3, <1>4 DEF Watchers

\* A new daemon has observed nothing and handed nothing over, and every machine
\* is to be revalidated.
LEMMA StartStep ==
    ASSUME SafetyInv, Start
    PROVE  SafetyInv'
<1>1. /\ watcher \in Watchers /\ disk \in Watchers /\ jobs \in [Jobs -> JobStates] /\ RestOK
      /\ SnapshotInv /\ JobInv /\ CountInv
  BY TypeParts DEF SafetyInv, CountInv
<1>2. /\ watcher' = Loaded(disk) /\ disk' = Loaded(disk) /\ ~review'
      /\ UNCHANGED <<jobs, performed>> /\ daemon' = "up"
  BY DEF Start
<1>3. RestOK'
  <2>1. review' \in BOOLEAN BY DEF Start
  <2> QED BY <1>1, <2>1 DEF RestOK, Start
<1>4. watcher' \in Watchers /\ disk' \in Watchers BY <1>1, <1>2, LoadedFacts
<1>5. TypeOK' BY <1>1, <1>2, <1>3, <1>4, TypeWhole
<1>6. \A j \in Jobs : jobs'[j].pc = "idle" BY <1>1, <1>2 DEF JobInv, Start
<1>7. Engaged' = {} /\ Pending' = {} BY <1>6 DEF Engaged, Pending
<1>8. MachineInv' BY <1>1, <1>2, LoadedFacts DEF MachineInv
<1>9. JobInv' BY <1>2, <1>7 DEF JobInv
<1>10. CountInv'
  <2>1. disk.machine # None => disk.machine.attempts \in Nat BY <1>1 DEF Watchers, Machines
  <2>2. performed \in Nat BY <1>1 DEF RestOK
  <2> QED BY <1>1, <1>2, <1>7, <2>1, <2>2, LoadedFacts DEF CountInv, Counted
<1>11. \A j \in Jobs : ~jobs'[j].fresh BY <1>1, <1>2, <1>6 DEF SnapshotInv
<1>12. SnapshotInv' BY <1>6, <1>11 DEF SnapshotInv
<1> QED BY <1>5, <1>8, <1>9, <1>10, <1>12 DEF SafetyInv, CountInv

-----------------------------------------------------------------------------
(***************************************************************************)
(* The theorems.                                                           *)
(***************************************************************************)
LEMMA CommandStep ==
    ASSUME SafetyInv, Command
    PROVE  SafetyInv'
<1>1. CASE Stop \/ Pause \/ Resume
  <2>1. {"Stopped", "Paused", "Observing"} \subseteq Lifecycles \ {"Restarted"} BY DEF Lifecycles
  <2> QED BY <1>1, <2>1, RequestStep DEF Stop, Pause, Resume
<1> QED BY <1>1, OutsideStep, PromoteStep, ReregisterStep DEF Command

\* Every step of a job.
LEMMA JobStep ==
    ASSUME SafetyInv, NEW j \in Jobs, Job(j) \/ GraceExpired(j)
    PROVE  SafetyInv'
  BY BeginStep, RunStep, DispatchStep, VerifyStep, DoneStep, FailedStep, GraceStep DEF Job

\* Every step keeps the invariant.
LEMMA NextStep == SafetyInv /\ [Next]_vars => SafetyInv'
<1> SUFFICES ASSUME SafetyInv, [Next]_vars PROVE SafetyInv' OBVIOUS
<1>1. CASE Command BY <1>1, CommandStep
<1>2. CASE TargetTerminated BY <1>2, OutsideStep
<1>3. CASE Poll \/ ObserveFails \/ Shutdown BY <1>3, LoopStep
<1>4. ASSUME NEW r \in Evidence \cup {None}, Commit(r) PROVE SafetyInv' BY <1>4, CommitStep
<1>5. ASSUME NEW j \in Jobs, Job(j) \/ GraceExpired(j) PROVE SafetyInv' BY <1>5, JobStep
<1>6. CASE Exit \/ Crash BY <1>6, DownStep
<1>7. CASE Start BY <1>7, StartStep
<1>8. CASE UNCHANGED vars
  <2>1. RestOK' BY <1>8, TypeParts DEF SafetyInv, RestOK, vars
  <2> QED BY <1>8, <2>1, QuietStep DEF vars
<1> QED BY <1>1, <1>2, <1>3, <1>4, <1>5, <1>6, <1>7, <1>8 DEF Next, Observe

-----------------------------------------------------------------------------
(***************************************************************************)
(* The count of screens.                                                   *)
(***************************************************************************)
\* A watcher with another's schedule counts as that one does.
LEMMA SameCount ==
    ASSUME NEW w, NEW n, CountsScreen(w), n.screen = w.screen, n.count = w.count
    PROVE  CountsScreen(n)
  BY DEF CountsScreen

\* A write, or a write that fails, leaves in memory and in the file what was there
\* or the new watcher.
LEMMA WriteCounts ==
    ASSUME ScreenInv, NEW next, CountsScreen(next), Written(next) \/ Unwritten(next)
    PROVE  CountsScreen(watcher)' /\ CountsScreen(disk)'
<1>1. watcher' \in {watcher, next} /\ disk' \in {disk, next} BY DEF Written, Unwritten
<1> QED BY <1>1 DEF ScreenInv, CountsScreen

\* The count after an observation, whatever the clone had.
LEMMA CommittedCounts ==
    ASSUME NEW w \in Watchers, NEW c \in Clones, CountsScreen(c), NEW r \in Evidence \cup {None}
    PROVE  CountsScreen(Committed(w, c, r))
<1> DEFINE s == CountScreen(c, r)
           scheduled == [w EXCEPT !.wake = FALSE, !.screen = s.screen, !.count = s.count]
           walked == IF r = None \/ w.machine = None THEN scheduled ELSE Consider(scheduled, r)
<1>1. CountsScreen(s)
  <2>2. CASE r \notin Screens
    <3>1. s = [screen |-> c.screen, count |-> c.count] BY <2>2 DEF CountScreen
    <3> QED BY <3>1, SameCount
  <2>3. CASE r \in Screens /\ ~Actionable(r) BY <2>3 DEF CountScreen, CountsScreen
  <2>4. CASE r \in Screens /\ Actionable(r)
    <3>1. CASE c.screen = r
      <4>1. c.count \in {1, 2} BY <2>4, <3>1, ScreensAssumption, AbsentAssumption DEF CountsScreen
      <4>2. s = [screen |-> r, count |-> IF c.count < 2 THEN c.count + 1 ELSE 2]
        BY <2>4, <3>1 DEF CountScreen
      <4> QED BY <2>4, <4>1, <4>2 DEF CountsScreen
    <3>2. CASE c.screen # r
      <4>1. s = [screen |-> r, count |-> 1] BY <2>4, <3>2 DEF CountScreen
      <4> QED BY <2>4, <4>1 DEF CountsScreen
    <3> QED BY <3>1, <3>2
  <2> QED BY <2>2, <2>3, <2>4
<1>2. scheduled.screen = s.screen /\ scheduled.count = s.count
      /\ DOMAIN scheduled = {"life", "machine", "event", "mark", "wake", "screen", "count", "rich"}
  BY DEF Watchers
<1> HIDE DEF s, scheduled
<1>3. walked.screen = s.screen /\ walked.count = s.count
      /\ DOMAIN walked = {"life", "machine", "event", "mark", "wake", "screen", "count", "rich"}
  BY <1>2 DEF Consider
<1>4. Committed(w, c, r) = IF r = None THEN walked ELSE [walked EXCEPT !.event = r, !.mark = None]
  BY DEF Committed, s, scheduled
<1> HIDE DEF walked
<1>5. Committed(w, c, r).screen = s.screen /\ Committed(w, c, r).count = s.count BY <1>3, <1>4
<1> QED BY <1>1, <1>5, SameCount

\* Every step keeps the counts: an observation counts on, a restart and every
\* other write leave the schedule's screen alone.
LEMMA ScreenStep ==
    ASSUME TypeOK, ScreenInv, [Next]_vars
    PROVE  ScreenInv'
<1>1. watcher \in Watchers /\ disk \in Watchers /\ loop \in Clones \cup {None} BY DEF TypeOK
<1>2. CountsScreen(watcher) /\ CountsScreen(disk) /\ (loop # None => CountsScreen(loop)) BY DEF ScreenInv
<1>3. ASSUME NEW life PROVE CountsScreen(InLife(life))
  <2>1. InLife(life).screen = watcher.screen /\ InLife(life).count = watcher.count
    BY <1>1 DEF InLife, Watchers
  <2> QED BY <1>2, <2>1, SameCount
<1>4. CountsScreen([watcher EXCEPT !.wake = TRUE]) /\ CountsScreen([watcher EXCEPT !.wake = FALSE])
      /\ CountsScreen([[watcher EXCEPT !.wake = FALSE] EXCEPT !.life = "Waiting"])
  <2>1. /\ [watcher EXCEPT !.wake = TRUE].screen = watcher.screen
        /\ [watcher EXCEPT !.wake = TRUE].count = watcher.count
        /\ [watcher EXCEPT !.wake = FALSE].screen = watcher.screen
        /\ [watcher EXCEPT !.wake = FALSE].count = watcher.count
        /\ [[watcher EXCEPT !.wake = FALSE] EXCEPT !.life = "Waiting"].screen = watcher.screen
        /\ [[watcher EXCEPT !.wake = FALSE] EXCEPT !.life = "Waiting"].count = watcher.count
    BY <1>1 DEF Watchers
  <2> QED BY <1>2, <2>1, SameCount
<1>5. ASSUME NEW m, NEW fp
      PROVE  /\ CountsScreen([watcher EXCEPT !.machine = m])
             /\ CountsScreen([[watcher EXCEPT !.machine = m] EXCEPT !.mark = fp])
             /\ CountsScreen([watcher EXCEPT !.life = "Registered", !.machine = m])
  <2>1. /\ [watcher EXCEPT !.machine = m].screen = watcher.screen
        /\ [watcher EXCEPT !.machine = m].count = watcher.count
        /\ [[watcher EXCEPT !.machine = m] EXCEPT !.mark = fp].screen = watcher.screen
        /\ [[watcher EXCEPT !.machine = m] EXCEPT !.mark = fp].count = watcher.count
        /\ [watcher EXCEPT !.life = "Registered", !.machine = m].screen = watcher.screen
        /\ [watcher EXCEPT !.life = "Registered", !.machine = m].count = watcher.count
    BY <1>1 DEF Watchers
  <2> QED BY <1>2, <2>1, SameCount
<1>6. ASSUME Stop \/ Pause \/ Resume \/ TargetTerminated PROVE ScreenInv'
  <2>1. PICK life : Written(InLife(life)) \/ Unwritten(InLife(life))
    BY <1>6 DEF Stop, Pause, Resume, Request, TargetTerminated
  <2>2. loop' = loop BY <1>6 DEF Stop, Pause, Resume, Request, TargetTerminated, Serves
  <2> QED BY <1>2, <1>3, <2>1, <2>2, WriteCounts DEF ScreenInv
<1>7. ASSUME WakeObservation PROVE ScreenInv'
  <2>1. Written([watcher EXCEPT !.wake = TRUE]) \/ Unwritten([watcher EXCEPT !.wake = TRUE])
    BY <1>7 DEF WakeObservation
  <2>2. loop' = loop BY <1>7 DEF WakeObservation, Serves
  <2> QED BY <1>2, <1>4, <2>1, <2>2, WriteCounts DEF ScreenInv
<1>8. ASSUME NEW m, Reregister(m) PROVE ScreenInv'
  <2> DEFINE next == [watcher EXCEPT !.life = "Registered", !.machine = m]
  <2>1. (Written(next) \/ Unwritten(next)) /\ loop' = loop BY <1>8 DEF Reregister, Request, Serves
  <2>2. CountsScreen(next) BY <1>5
  <2> QED BY <1>2, <2>1, <2>2, WriteCounts DEF ScreenInv
<1>9. ASSUME Promote PROVE ScreenInv'
  <2> DEFINE next == [watcher EXCEPT !.life = "Registered", !.machine = None, !.event = None,
                                     !.mark = None, !.wake = TRUE, !.rich = TRUE]
  <2>1. (Written(next) \/ Unwritten(next)) /\ loop' = loop BY <1>9 DEF Promote, Request, Serves
  <2>2. next.screen = watcher.screen /\ next.count = watcher.count BY <1>1 DEF Watchers
  <2>3. CountsScreen(next) BY <1>2, <2>2, SameCount
  <2> QED BY <1>2, <2>1, <2>3, WriteCounts DEF ScreenInv
<1>10. ASSUME Poll PROVE ScreenInv'
  <2>1. /\ loop'.screen = watcher.screen /\ loop'.count = watcher.count /\ UNCHANGED <<watcher, disk>>
    BY <1>10 DEF Poll
  <2>2. CountsScreen(loop)' BY <1>2, <2>1 DEF CountsScreen
  <2> QED BY <1>2, <2>1, <2>2 DEF ScreenInv, CountsScreen
<1>11. ASSUME NEW r \in Evidence \cup {None}, Commit(r) PROVE ScreenInv'
  <2> DEFINE next == Committed(watcher, loop, r)
  <2>1. (Written(next) \/ Unwritten(next)) /\ loop # None /\ loop' = None BY <1>11 DEF Commit
  <2>2. CountsScreen(next) BY <1>1, <1>2, <2>1, CommittedCounts
  <2> QED BY <2>1, <2>2, WriteCounts DEF ScreenInv
<1>12. ASSUME UNCHANGED <<watcher, disk>>, loop' = loop \/ loop' = None PROVE ScreenInv'
  BY <1>2, <1>12 DEF ScreenInv, CountsScreen
<1>13. ASSUME NEW j \in Jobs, JobBegin(j) PROVE ScreenInv'
  <2> DEFINE w1 == [watcher EXCEPT !.machine = Begun(watcher.machine, 0)]
             w2 == [w1 EXCEPT !.mark = jobs[j].fp]
  <2>1. CountsScreen(w1) /\ CountsScreen(w2) BY <1>5
  <2>2. loop' = loop /\ watcher' \in {watcher, w1, w2} /\ disk' \in {disk, w1, w2}
    BY <1>13 DEF JobBegin, Quit, JobAlone, Written, Unwritten
  <2> HIDE DEF w1, w2
  <2> QED BY <1>2, <2>1, <2>2 DEF ScreenInv, CountsScreen
<1>14. ASSUME NEW j \in Jobs, JobRun(j) \/ JobVerify(j) PROVE ScreenInv'
  BY <1>12, <1>14 DEF JobRun, JobVerify, Quit, Fails, JobAlone
<1>15. ASSUME NEW j \in Jobs, JobDispatch(j) PROVE ScreenInv'
  <2> DEFINE w1 == [watcher EXCEPT !.wake = FALSE]
             w2 == [w1 EXCEPT !.life = "Waiting"]
  <2>1. CountsScreen(w1) /\ CountsScreen(w2) BY <1>4
  <2>2. loop' = loop /\ watcher' \in {watcher, w1, w2} /\ disk' \in {disk, w1, w2}
    BY <1>15 DEF JobDispatch, JobTypes, JobSchedules, Fails, JobAlone, Written, Unwritten
  <2> HIDE DEF w1, w2
  <2> QED BY <1>2, <2>1, <2>2 DEF ScreenInv, CountsScreen
<1>16. ASSUME NEW j \in Jobs, JobDone(j) PROVE ScreenInv'
  <2> DEFINE next == [watcher EXCEPT !.machine = Succeeded(watcher.machine, jobs[j].fp)]
  <2>1. CountsScreen(next) BY <1>5
  <2>2. loop' = loop /\ watcher' \in {watcher, next} /\ disk' \in {disk, next}
    BY <1>16 DEF JobDone, JobAlone, Written, Unwritten
  <2> HIDE DEF next
  <2> QED BY <1>2, <2>1, <2>2 DEF ScreenInv, CountsScreen
<1>17. ASSUME NEW j \in Jobs, JobFailed(j) \/ GraceExpired(j) PROVE ScreenInv'
  <2>1. loop' = loop /\ (Written(InLife("HumanRequired")) \/ Unwritten(InLife("HumanRequired")))
    BY <1>17 DEF JobFailed, GraceExpired, HandOff, JobAlone
  <2> QED BY <1>2, <1>3, <2>1, WriteCounts DEF ScreenInv
<1>18. ASSUME Start PROVE ScreenInv'
  <2>1. Loaded(disk).screen = disk.screen /\ Loaded(disk).count = disk.count BY <1>1 DEF Loaded, Watchers
  <2>2. CountsScreen(Loaded(disk)) BY <1>2, <2>1, SameCount
  <2>3. watcher' = Loaded(disk) /\ disk' = Loaded(disk) /\ loop' = loop BY <1>18 DEF Start
  <2> QED BY <1>2, <2>2, <2>3 DEF ScreenInv, CountsScreen
<1>19. ASSUME ObserveFails \/ Shutdown \/ Exit \/ Crash \/ UNCHANGED vars PROVE ScreenInv'
  BY <1>12, <1>19 DEF ObserveFails, Shutdown, Exit, Crash, vars
<1> QED BY <1>6, <1>7, <1>8, <1>9, <1>10, <1>11, <1>13, <1>14, <1>15, <1>16, <1>17, <1>18, <1>19
        DEF Next, Command, Observe, Job

\* The inductive invariant of a watcher, its file, its jobs, what they did, and
\* the screens its schedule counts.
THEOREM WatcherInvariant == Spec => []IInv
<1>1. Init => IInv
  <2>1. Init => ScreenInv BY DEF Init, ScreenInv, CountsScreen
  <2> QED BY <2>1, InitInv DEF IInv
<1>2. IInv /\ [Next]_vars => IInv'
  BY NextStep, ScreenStep DEF IInv, SafetyInv
<1> QED BY <1>1, <1>2, PTL DEF Spec

\* Its part about jobs and input.
LEMMA WatcherSafe == Spec => []SafetyInv
<1>1. IInv => SafetyInv BY DEF IInv
<1> QED BY <1>1, WatcherInvariant, PTL

\* No action is performed that the file does not count (registry.rs, begin_action
\* is saved before the executor runs), whatever fails, crashes or restarts.
THEOREM AttemptsCounted == Spec => []AttemptsOnRecord
<1>1. SafetyInv => AttemptsOnRecord
  <2> SUFFICES ASSUME SafetyInv, disk.machine # None PROVE performed <= disk.machine.attempts
    BY DEF AttemptsOnRecord
  <2>1. performed \in Nat /\ disk.machine.attempts \in Nat BY DEF SafetyInv, TypeOK, Watchers, Machines
  <2> QED BY <2>1 DEF SafetyInv, Counted
<1> QED BY <1>1, WatcherSafe, PTL

\* Input is typed by one kind of step alone: a claimed job whose snapshot is fresh.
LEMMA TypedByJob ==
    ASSUME SafetyInv, Next, typed' # typed
    PROVE  \E j \in Jobs : /\ jobs[j].pc = "ready" /\ jobs[j].fresh
                           /\ typed' = typed \cup {jobs[j].act}
<1>1. ASSUME Command \/ TargetTerminated PROVE typed' = typed
  BY <1>1 DEF Command, Stop, Pause, Resume, WakeObservation, Promote, Reregister, Request, TargetTerminated
<1>2. ASSUME Poll \/ Observe PROVE typed' = typed BY <1>2 DEF Poll, Observe, ObserveFails, Commit
<1>3. ASSUME Shutdown \/ Exit \/ Crash \/ Start PROVE typed' = typed
  BY <1>3 DEF Shutdown, Exit, Crash, Start
<1>4. ASSUME NEW j \in Jobs, GraceExpired(j) \/ JobBegin(j) \/ JobRun(j) \/ JobVerify(j) \/ JobDone(j) \/ JobFailed(j)
      PROVE  typed' = typed
  BY <1>4 DEF GraceExpired, JobBegin, JobRun, JobVerify, JobDone, JobFailed, Fails, Quit
<1>5. ASSUME NEW j \in Jobs, JobDispatch(j)
      PROVE  \/ typed' = typed
             \/ jobs[j].pc = "ready" /\ jobs[j].fresh /\ typed' = typed \cup {jobs[j].act}
  BY <1>5 DEF JobDispatch, JobTypes, JobSchedules, Fails
<1> QED BY <1>1, <1>2, <1>3, <1>4, <1>5 DEF Next, Job

\* The comparison under the registry lock (locked_snapshot_watcher) keeps keys
\* from a watcher that is paused, stopped, handed over or gone.
THEOREM HeldIsUntouched == Spec => NoInputWhileHeld
<1>1. SafetyInv /\ [Next]_vars => [typed' # typed => watcher.life \notin Held]_vars
  <2> SUFFICES ASSUME SafetyInv, Next, typed' # typed PROVE watcher.life \notin Held OBVIOUS
  <2> QED BY TypedByJob DEF SafetyInv, SnapshotInv
<1> QED BY <1>1, WatcherSafe, PTL DEF Spec, NoInputWhileHeld

\* After a restart nothing is typed for what a former daemon saw: load_inner makes
\* every machine wait for an observation of the new one.
THEOREM InputIsRevalidated == Spec => RevalidatedBeforeInput
<1>1. SafetyInv /\ [Next]_vars => [typed' \ typed \subseteq observed]_vars
  <2> SUFFICES ASSUME SafetyInv, Next PROVE typed' \ typed \subseteq observed OBVIOUS
  <2>1. CASE typed' = typed BY <2>1
  <2>2. CASE typed' # typed BY <2>2, TypedByJob DEF SafetyInv, SnapshotInv
  <2> QED BY <2>1, <2>2
<1> QED BY <1>1, WatcherSafe, PTL DEF Spec, RevalidatedBeforeInput

\* A watcher that a job handed to a person (recovery_jobs.rs) is typed into by no
\* other job of this daemon before somebody has answered.
THEOREM HandOffIsFinal == Spec => HandOffHolds
<1>1. SafetyInv /\ [Next]_vars => [typed' # typed => ~review]_vars
  <2> SUFFICES ASSUME SafetyInv, Next, typed' # typed PROVE ~review OBVIOUS
  <2> QED BY TypedByJob DEF SafetyInv, SnapshotInv
<1> QED BY <1>1, WatcherSafe, PTL DEF Spec, HandOffHolds
=============================================================================
