------------------------------ MODULE Watcher ------------------------------
(***************************************************************************)
(* One watcher of the daemon and everyone who writes to it: the observation *)
(* loop (daemon/recovery_jobs.rs), the recovery jobs it schedules           *)
(* (daemon/recovery_runtime.rs), the IPC commands (daemon/ipc_service.rs),  *)
(* the process monitor (daemon/lifecycle.rs), shutdown, crash and restart   *)
(* (daemon/mod.rs, daemon/registry.rs).  Each registry operation is one     *)
(* step, since it runs under the registry lock, and ends in a write that    *)
(* may fail.  The transaction of recovery/transaction.rs, which has a       *)
(* module of its own, appears as a job's claim, dispatch and verification.  *)
(***************************************************************************)
EXTENDS RecoveryMachine

CONSTANTS Kind,         \* Evidence -> what its category and recipe make of it
          Screens,      \* evidence read off a screen
          Jobs,         \* slots for recovery jobs alive at one time
          MaxRestarts,  \* bound on daemon restarts
          MaxCommands,  \* bound on what comes from outside: IPC and the monitor
          MaxFaults     \* bound on failed registry writes

\* menu: Claude's labelled wait menu; limit: a Claude limit with a reset time;
\* resume: Claude's reset elapsed; capacity: Codex is out of capacity; goal:
\* Codex's backoff elapsed; quiet: nothing to act on.
Kinds == {"menu", "limit", "resume", "capacity", "goal", "quiet"}
Inputs == {"menu", "resume", "goal"}   \* recipes that type into the pane

ASSUME KindsAssumption == Kind \in [Evidence -> Kinds]
ASSUME ScreensAssumption == Screens \subseteq Evidence
ASSUME LimitAssumption == MaxRestarts \in Nat /\ MaxCommands \in Nat /\ MaxFaults \in Nat
\* Time is left out: that a cooldown is active is a choice of JobBegin.
ASSUME TimelessAssumption == Cooldown = 0

VARIABLES watcher,   \* the WatcherState in memory
          disk,      \* the WatcherState in the registry file
          loop,      \* the clone an observation in flight started from, or None
          jobs,      \* the recovery jobs
          daemon,    \* "up", "closing" after begin_shutdown, "down"
          keys,      \* evidence whose action was ever claimed in the ledger
          issued,    \* goal candidates so far: each has a new fingerprint
          restarts,
          commands,
          faults,
          paused,    \* history: the last request of a person was to pause
          review,    \* history: a hand-off this daemon made and nobody answered
          observed,  \* history: evidence this daemon has committed
          typed,     \* history: evidence for which input was typed
          performed  \* history: actions performed under the present machine

bounds == <<restarts, commands, faults>>
vars == <<watcher, disk, loop, jobs, daemon, keys, issued, restarts,
          commands, faults, paused, review, observed, typed, performed>>

\* WatcherLifecycle; Restarted is HumanRequired with RESTART_REVALIDATION_REASON.
Lifecycles == {"Registered", "Observing", "Paused", "Waiting", "HumanRequired",
               "Restarted", "TargetTerminated", "Stopped"}
Held == {"Paused", "HumanRequired", "Restarted", "TargetTerminated", "Stopped"}

Watchers == [life : Lifecycles, machine : Machines \cup {None},
             event : Evidence \cup {None}, mark : Evidence \cup {None},
             wake : BOOLEAN, screen : Evidence \cup {None}, count : 0..2,
             rich : BOOLEAN]

\* What the observation loop uses of the watcher it cloned.
Clones == [life : Lifecycles, event : Evidence \cup {None},
           screen : Evidence \cup {None}, count : 0..2]

\* A job: the evidence it was scheduled for, and of its dispatch snapshot the
\* evidence, the marker, the lifecycle and whether the budget leaves an attempt.
\* Every registry operation bumps the revision, so the snapshot still equals the
\* watcher (fresh) exactly while none has been written since.
Stages == {"idle", "start", "run", "ready", "sent", "done", "failed"}
JobStates == [pc : Stages, fp : Evidence \cup {None}, act : Evidence \cup {None},
              mark : Evidence \cup {None}, life : Lifecycles, left : BOOLEAN,
              fresh : BOOLEAN, graced : BOOLEAN]
Idle == [pc |-> "idle", fp |-> None, act |-> None, mark |-> None,
         life |-> "Registered", left |-> FALSE, fresh |-> FALSE, graced |-> FALSE]

TypeOK ==
    /\ watcher \in Watchers
    /\ disk \in Watchers
    /\ loop \in Clones \cup {None}
    /\ jobs \in [Jobs -> JobStates]
    /\ daemon \in {"up", "closing", "down"}
    /\ keys \in SUBSET Evidence
    /\ issued \in SUBSET Evidence
    /\ restarts \in Nat
    /\ commands \in Nat
    /\ faults \in Nat
    /\ paused \in BOOLEAN
    /\ review \in BOOLEAN
    /\ observed \in SUBSET Evidence
    /\ typed \in SUBSET Evidence
    /\ performed \in Nat

\* A watcher registered with a machine and with no attachment yet.
Init ==
    /\ watcher = [life |-> "Registered", machine |-> NewMachine, event |-> None,
                  mark |-> None, wake |-> FALSE, screen |-> None, count |-> 0,
                  rich |-> FALSE]
    /\ disk = watcher
    /\ loop = None
    /\ jobs = [j \in Jobs |-> Idle]
    /\ daemon = "up"
    /\ keys = {}
    /\ issued = {}
    /\ restarts = 0
    /\ commands = 0
    /\ faults = 0
    /\ paused = FALSE
    /\ review = FALSE
    /\ observed = {}
    /\ typed = {}
    /\ performed = 0

-----------------------------------------------------------------------------
Stale(js) == [j \in Jobs |-> [js[j] EXCEPT !.fresh = FALSE]]

\* A registry operation whose write succeeds, and one whose write fails: the
\* memory is kept, the file may already hold the new state.
Written(next) ==
    /\ watcher' = next
    /\ disk' = next
    /\ UNCHANGED faults
Unwritten(next) ==
    /\ faults < MaxFaults
    /\ faults' = faults + 1
    /\ disk' \in {disk, next}
    /\ UNCHANGED watcher

InLife(life) == [watcher EXCEPT !.life = life]
Serving == daemon \in {"up", "closing"}
\* Something from outside is served.
Serves ==
    /\ Serving
    /\ commands < MaxCommands
    /\ commands' = commands + 1
    /\ UNCHANGED <<loop, daemon, keys, issued, restarts>>
End(j) == jobs' = [jobs EXCEPT ![j] = Idle]

-----------------------------------------------------------------------------
\* IPC: stop, pause and resume are transitions from whatever the lifecycle is;
\* an operation that fails answers an error and changes nothing.
Request(next, ask) ==
    /\ Serves
    /\ \/ /\ Written(next)
          /\ jobs' = Stale(jobs)
          /\ paused' = (ask = "pause")
          /\ review' = (review /\ ask # "run")
       \/ Unwritten(next) /\ UNCHANGED <<jobs, paused, review>>
    /\ UNCHANGED <<observed, typed>>

Stop == Request(InLife("Stopped"), "stop") /\ UNCHANGED performed
Pause == Request(InLife("Paused"), "pause") /\ UNCHANGED performed
Resume == Request(InLife("Observing"), "run") /\ UNCHANGED performed

\* wake_observation: a wake that is pending or repeats within its cooldown is
\* acknowledged and changes nothing.
WakeObservation ==
    /\ Serves
    /\ ~watcher.wake
    /\ LET next == [watcher EXCEPT !.wake = TRUE]
       IN  \/ Written(next) /\ jobs' = Stale(jobs)
           \/ Unwritten(next) /\ UNCHANGED jobs
    /\ UNCHANGED <<paused, review, observed, typed, performed>>

\* refresh_existing after a replay: the recovery state is the client's, which
\* has none or a new one.
Reregister(m) ==
    /\ watcher.life = "Restarted"
    /\ Request([watcher EXCEPT !.life = "Registered", !.machine = m], "run")
    /\ performed' = IF disk'.machine = m THEN 0 ELSE performed

\* refresh_existing with a richer target or a new attachment.
Promote ==
    /\ ~watcher.rich
    /\ Request([watcher EXCEPT !.life = "Registered", !.machine = None,
                               !.event = None, !.mark = None, !.wake = TRUE,
                               !.rich = TRUE], "run")
    /\ performed' = IF disk'.rich THEN 0 ELSE performed

\* monitor_process_lifecycles: the target is gone.
TargetTerminated ==
    /\ Serves
    /\ watcher.life \notin {"Stopped", "TargetTerminated"}
    /\ LET next == InLife("TargetTerminated")
       IN  \/ Written(next) /\ jobs' = Stale(jobs)
           \/ Unwritten(next) /\ UNCHANGED jobs
    /\ UNCHANGED <<paused, review, observed, typed, performed>>

-----------------------------------------------------------------------------
\* run_observation_loop: the watcher is cloned when it is due; the lock is then
\* released for as long as the observer takes.
Poll ==
    /\ daemon = "up"
    /\ loop = None
    /\ watcher.life \notin {"Paused", "Stopped", "TargetTerminated"}
    /\ loop' = [life |-> watcher.life, event |-> watcher.event,
                screen |-> watcher.screen, count |-> watcher.count]
    /\ UNCHANGED <<watcher, disk, jobs, daemon, keys, issued, paused, review,
                   observed, typed, performed>>
    /\ UNCHANGED bounds

\* The observer failed, took longer than its five seconds, or was aborted.
ObserveFails ==
    /\ loop # None
    /\ loop' = None
    /\ UNCHANGED <<watcher, disk, jobs, daemon, keys, issued, paused, review,
                   observed, typed, performed>>
    /\ UNCHANGED bounds

\* Resume and goal candidates need a waiting watcher whose last observation
\* started the wait, as the clone has it; a goal candidate's fingerprint covers
\* the time and is always new.
Follows(c, kind) == c.life = "Waiting" /\ c.event # None /\ Kind[c.event] = kind
Observable(c, e) ==
    CASE Kind[e] = "resume" -> Follows(c, "limit")
      [] Kind[e] = "goal"   -> Follows(c, "capacity") /\ e \notin issued
      [] OTHER              -> TRUE

Actionable(e) == Kind[e] # "quiet"

\* Mutant: another screen takes over the count of the one before.
CountScreenOn(c, r) ==
    CASE r \notin Screens -> [screen |-> c.screen, count |-> c.count]
      [] r \in Screens /\ ~Actionable(r) -> [screen |-> None, count |-> 0]
      [] r \in Screens /\ Actionable(r) /\ c.screen = r ->
           [screen |-> r, count |-> IF c.count < 2 THEN c.count + 1 ELSE 2]
      [] OTHER -> [screen |-> r, count |-> c.count]

\* commit_and_schedule counts the screens in a row on its own clone.  The code
\* counts on up to the width of the counter; the model stops at two, as no
\* decision tells more than two apart.
CountScreen(c, r) ==
    CASE r \notin Screens -> [screen |-> c.screen, count |-> c.count]
      [] r \in Screens /\ ~Actionable(r) -> [screen |-> None, count |-> 0]
      [] r \in Screens /\ Actionable(r) /\ c.screen = r ->
           [screen |-> r, count |-> IF c.count < 2 THEN c.count + 1 ELSE 2]
      [] OTHER -> [screen |-> r, count |-> 1]

\* commit_observation's walk of the machine for the evidence e.  Mutant (Anew):
\* every observation counts as the first one after a restart.
Rearms(life, m, e) ==
    /\ m.st = "Recovered"
    /\ \/ life = "Waiting" /\ Kind[e] \in {"resume", "goal"}
       \/ Kind[e] = "limit" /\ m.current # e
ConsiderAnew(w, e) ==
    LET m1 == Revalidated(w.machine)
        confirms == Actionable(e) /\ (e \in Screens => w.count >= 2)
    IN  [w EXCEPT !.life = "Observing",
                  !.machine = IF confirms THEN Confirmed(m1, e) ELSE m1]
Consider(w, e) ==
    LET revalidates == w.machine.st = "NeedsRevalidation"
        m1 == IF revalidates THEN Revalidated(w.machine) ELSE w.machine
        life == IF revalidates THEN "Observing" ELSE w.life
        m2 == IF Rearms(life, m1, e) THEN Rearmed(m1) ELSE m1
        confirms == /\ Actionable(e)
                    /\ e \in Screens => w.count >= 2
                    /\ m2.st = "Observing"
    IN  [w EXCEPT !.life = life,
                  !.machine = IF confirms THEN Confirmed(m2, e) ELSE m2]

\* The watcher commit_observation leaves: its schedule is the clone's.
Committed(w, c, r) ==
    LET scheduled == [w EXCEPT !.wake = FALSE, !.screen = CountScreen(c, r).screen,
                               !.count = CountScreen(c, r).count]
        walked == IF r = None \/ w.machine = None THEN scheduled ELSE Consider(scheduled, r)
    IN  IF r = None THEN walked ELSE [walked EXCEPT !.event = r, !.mark = None]

\* The observation is committed and, unless the supervisor no longer accepts
\* jobs, a job is scheduled for the watcher just committed.
Commit(r) ==
    /\ Serving
    /\ loop # None
    /\ r # None => Observable(loop, r)
    /\ LET next == Committed(watcher, loop, r)
       IN  \/ /\ Written(next)
              /\ \/ /\ daemon = "up"
                    /\ \E j \in Jobs :
                         /\ jobs[j].pc = "idle"
                         /\ jobs' = [Stale(jobs) EXCEPT
                              ![j] = [Idle EXCEPT !.pc = "start", !.fp = next.event,
                                                  !.mark = next.mark]]
                 \/ daemon = "closing" /\ jobs' = Stale(jobs)
              /\ observed' = observed \cup ({r} \ {None})
           \/ Unwritten(next) /\ UNCHANGED <<jobs, observed>>
    /\ issued' = IF r # None /\ Kind[r] = "goal" THEN issued \cup {r} ELSE issued
    /\ loop' = None
    /\ UNCHANGED <<daemon, keys, restarts, commands, paused, review, typed, performed>>

-----------------------------------------------------------------------------
\* action_for: what the recipes propose for an observation.  A goal candidate
\* whose marker names it has been sent already.
Proposed(e, mark) ==
    /\ e # None
    /\ Kind[e] # "quiet"
    /\ Kind[e] = "goal" => mark # e

\* Nothing of a failed job is read any more.
Failing(j, js) == [js EXCEPT ![j] = [Idle EXCEPT !.pc = "failed", !.graced = js[j].graced]]

\* A stage that is entered unless a shutdown has begun: cancellation_requested.
Enters(j, js, stage) ==
    IF daemon = "up" THEN [js EXCEPT ![j].pc = stage] ELSE Failing(j, js)

JobAlone == UNCHANGED <<loop, daemon, issued, restarts, commands, paused, observed>>

\* A job that ends without having written anything.
Quit(j) ==
    /\ End(j)
    /\ UNCHANGED <<watcher, disk, faults, keys, review, typed, performed>>
    /\ JobAlone

\* execute_recovery_action up to engine.execute.  A job that looked before the
\* shutdown began may begin after it.  The job was scheduled with a clone of the
\* watcher, but begins on the watcher there is now; then the resume marker is
\* written onto a goal candidate (a failure is ignored), and the snapshot is
\* taken before the lock is released.
JobBegin(j) ==
    /\ jobs[j].pc = "start"
    /\ LET fp == jobs[j].fp
           m == watcher.machine
           begins == m # None /\ CanBegin(m, fp, 0)
           w1 == [watcher EXCEPT !.machine = Begun(m, 0)]
           w2 == [w1 EXCEPT !.mark = fp]
           marks == watcher.event # None /\ Kind[watcher.event] = "goal"
           Snapshot(w) == [Stale(jobs) EXCEPT ![j] =
                [@ EXCEPT !.pc = "run", !.act = w.event, !.mark = w.mark, !.life = w.life,
                          !.left = (w.machine.attempts < MaxAttempts), !.fresh = TRUE]]
       IN  \/ /\ \/ daemon = "closing"
                 \/ ~Proposed(fp, jobs[j].mark)
                 \/ ~begins
                 \/ begins /\ m.attempts > 0   \* the cooldown is not over
              /\ Quit(j)
           \/ /\ Proposed(fp, jobs[j].mark)
              /\ begins
              /\ \/ /\ Written(IF marks THEN w2 ELSE w1)
                    /\ jobs' = Snapshot(watcher')
                 \/ /\ marks
                    /\ faults < MaxFaults
                    /\ faults' = faults + 1
                    /\ watcher' = w1
                    /\ disk' \in {w1, w2}
                    /\ jobs' = Snapshot(watcher')
                 \/ Unwritten(w1) /\ End(j)
              /\ UNCHANGED <<keys, review, typed, performed>>
              /\ JobAlone

\* target_and_lifecycle_are_stable, and nobody has intervened.  A wait that was
\* replaced by another one counts as the same; Fails covers the other outcome.
Stable(j) == watcher.life = jobs[j].life /\ watcher.life \notin Held

\* Mutant: a job that waits for its evidence to come back.
JobRunPatient(j) ==
    /\ jobs[j].pc = "run"
    /\ LET e == jobs[j].act
       IN  \/ ~Proposed(e, jobs[j].mark) /\ Quit(j)
           \/ /\ Proposed(e, jobs[j].mark)
              /\ jobs[j].left /\ Stable(j) /\ watcher.event = e /\ e \notin keys
              /\ keys' = keys \cup {e}
              /\ jobs' = Enters(j, jobs, "ready")
              /\ UNCHANGED <<watcher, disk, faults, review, typed, performed>>
              /\ JobAlone

\* The transaction up to its claim.  engine.execute asks the recipes again, for
\* the snapshot; then the evidence is read from the registry as it is now.  The
\* policy, the pane, the process or the composer may refuse, and so does the
\* executor when a shutdown has begun.
JobRun(j) ==
    /\ jobs[j].pc = "run"
    /\ LET e == jobs[j].act
           claims == /\ jobs[j].left
                     /\ Stable(j)
                     /\ watcher.event = e
                     /\ e \notin keys
                     /\ \A k \in Jobs : jobs[k].pc \notin {"ready", "sent"}
       IN  \/ ~Proposed(e, jobs[j].mark) /\ Quit(j)
           \/ /\ Proposed(e, jobs[j].mark)
              /\ \/ /\ claims
                    /\ keys' = keys \cup {e}
                    /\ jobs' = Enters(j, jobs, "ready")
                 \/ jobs' = Failing(j, jobs) /\ UNCHANGED keys
              /\ UNCHANGED <<watcher, disk, faults, review, typed, performed>>
              /\ JobAlone

\* The transaction's Failed, Uncertain or store error.
Fails(j) ==
    /\ jobs' = Failing(j, jobs)
    /\ UNCHANGED <<watcher, disk, faults, keys, review, typed, performed>>
    /\ JobAlone

\* Mutant: the snapshot is not compared.
JobTypesBlind(j) ==
    /\ typed' = typed \cup {jobs[j].act}
    /\ performed' = performed + 1
    /\ jobs' = Enters(j, jobs, "sent")
    /\ UNCHANGED <<watcher, disk, faults, keys, review>>
    /\ JobAlone

\* The mux command, under the registry lock and only while the snapshot still is
\* the watcher.  Shutdown may have begun since the executor looked; the mux may
\* fail before or after it has typed.
JobTypes(j) ==
    /\ jobs[j].fresh
    /\ typed' = typed \cup {jobs[j].act}
    /\ performed' = performed + 1
    /\ jobs' \in {Enters(j, jobs, "sent"), Failing(j, jobs)}
    /\ UNCHANGED <<watcher, disk, faults, keys, review>>
    /\ JobAlone

\* A wait is scheduled by two writes, with no look at the snapshot; the record
\* succeeds with the receipt.  Of two failures the first leaves nothing.
JobSchedules(j) ==
    LET w1 == [watcher EXCEPT !.wake = FALSE]
        w2 == [w1 EXCEPT !.life = "Waiting"]
    IN  /\ \/ Written(w2) /\ jobs' = Enters(j, Stale(jobs), "done") /\ performed' = performed + 1
           \/ /\ faults < MaxFaults
              /\ faults' = faults + 1
              /\ watcher' = w1
              /\ disk' \in {w1, w2}
              /\ jobs' = Failing(j, Stale(jobs))
              /\ UNCHANGED performed
           \/ Unwritten(w1) /\ jobs' = Failing(j, jobs) /\ UNCHANGED performed
        /\ UNCHANGED <<keys, review, typed>>
        /\ JobAlone

\* DaemonActionExecutor::execute.
JobDispatch(j) ==
    /\ jobs[j].pc = "ready"
    /\ \/ Kind[jobs[j].act] \in Inputs /\ JobTypes(j)
       \/ Kind[jobs[j].act] \notin Inputs /\ JobSchedules(j)
       \/ Fails(j)

\* The polls of the verification, as one step: proved by a later observation
\* (for resume and goal by evidence read on the spot), or failed by a change of
\* lifecycle, a lost observation or the timeout.
JobVerify(j) ==
    /\ jobs[j].pc = "sent"
    /\ \/ Fails(j)
       \/ /\ Stable(j)
          /\ watcher.event # None
          /\ Kind[jobs[j].act] = "menu" =>
                watcher.event # jobs[j].act /\ Kind[watcher.event] \in {"quiet", "limit"}
          /\ jobs' = Enters(j, jobs, "done")
          /\ UNCHANGED <<watcher, disk, faults, keys, review, typed, performed>>
          /\ JobAlone

\* A transition to HumanRequired whose error, if any, is dropped.
HandOff(others) ==
    \/ /\ Written(InLife("HumanRequired"))
       /\ jobs' = Stale(others)
       /\ review' = TRUE
    \/ /\ Unwritten(InLife("HumanRequired"))
       /\ jobs' = others
       /\ UNCHANGED review

Ended(j) == [jobs EXCEPT ![j] = Idle]

\* After a success: the coordinator is told, under the fingerprint the job was
\* scheduled for.  In a shutdown the watcher is handed over instead, which is
\* what Enters makes of the job.
JobDone(j) ==
    /\ jobs[j].pc = "done"
    /\ LET m == watcher.machine
           fp == jobs[j].fp
           succeeds == m # None /\ CanSucceed(m, fp)
           next == [watcher EXCEPT !.machine = Succeeded(m, fp)]
       IN  \/ succeeds /\ Written(next) /\ jobs' = Stale(Ended(j))
           \/ succeeds /\ Unwritten(next) /\ End(j)
           \/ ~succeeds /\ End(j) /\ UNCHANGED <<watcher, disk, faults>>
    /\ UNCHANGED <<keys, review, typed, performed>>
    /\ JobAlone

\* After an error: whatever the lifecycle is by now, it becomes HumanRequired.
JobFailed(j) ==
    /\ jobs[j].pc = "failed"
    /\ HandOff(Ended(j))
    /\ UNCHANGED <<keys, typed, performed>>
    /\ JobAlone

-----------------------------------------------------------------------------
\* begin_shutdown.
Shutdown ==
    /\ daemon = "up"
    /\ daemon' = "closing"
    /\ UNCHANGED <<watcher, disk, loop, jobs, keys, issued, paused, review,
                   observed, typed, performed>>
    /\ UNCHANGED bounds

\* wait_for_terminal_jobs: the observation task is gone; a job that outlives its
\* grace hands the watcher over and is then waited for without a limit.
GraceExpired(j) ==
    /\ daemon = "closing"
    /\ loop = None
    /\ jobs[j].pc # "idle"
    /\ ~jobs[j].graced
    /\ HandOff([jobs EXCEPT ![j].graced = TRUE])
    /\ UNCHANGED <<keys, typed, performed>>
    /\ JobAlone

Exit ==
    /\ daemon = "closing"
    /\ loop = None
    /\ \A j \in Jobs : jobs[j].pc = "idle"
    /\ daemon' = "down"
    /\ UNCHANGED <<watcher, disk, loop, jobs, keys, issued, paused, review,
                   observed, typed, performed>>
    /\ UNCHANGED bounds

Crash ==
    /\ Serving
    /\ daemon' = "down"
    /\ loop' = None
    /\ jobs' = [j \in Jobs |-> Idle]
    /\ UNCHANGED <<watcher, disk, keys, issued, paused, review, observed, typed,
                   performed>>
    /\ UNCHANGED bounds

\* Mutant: a watcher is loaded as it was saved.
LoadedAsIs(d) == d

\* load_inner, for a target that is not of the format that had no fingerprint.
Loaded(d) ==
    [d EXCEPT !.life = IF @ \in {"Stopped", "TargetTerminated", "HumanRequired", "Restarted"}
                       THEN @ ELSE "Restarted",
              !.machine = IF @ = None THEN None ELSE Restored(@)]

\* A new daemon; recover_after_restart has closed what the ledger left open.
Start ==
    /\ daemon = "down"
    /\ restarts < MaxRestarts
    /\ restarts' = restarts + 1
    /\ daemon' = "up"
    /\ watcher' = Loaded(disk)
    /\ disk' = Loaded(disk)
    /\ observed' = {}
    /\ review' = FALSE
    /\ UNCHANGED <<loop, jobs, keys, issued, commands, faults, paused, typed, performed>>

-----------------------------------------------------------------------------
Command ==
    \/ Stop \/ Pause \/ Resume \/ WakeObservation \/ Promote
    \/ \E m \in {NewMachine, None} : Reregister(m)
Job(j) == JobBegin(j) \/ JobRun(j) \/ JobDispatch(j) \/ JobVerify(j)
          \/ JobDone(j) \/ JobFailed(j)
Observe == ObserveFails \/ \E r \in Evidence \cup {None} : Commit(r)

Next ==
    \/ Command
    \/ TargetTerminated
    \/ Poll \/ Observe
    \/ \E j \in Jobs : Job(j) \/ GraceExpired(j)
    \/ Shutdown \/ Exit \/ Crash \/ Start

Spec == Init /\ [][Next]_vars

\* Jobs are threads, the observation ends within its five seconds or is aborted,
\* and the main task goes through with a shutdown.
FairSpec ==
    /\ Spec
    /\ \A j \in Jobs : WF_vars(Job(j))
    /\ WF_vars(Poll)
    /\ WF_vars(Observe)
    /\ WF_vars(Exit)

-----------------------------------------------------------------------------
\* No keys are pressed while the watcher is paused, stopped, handed to a person,
\* or its target is gone: the snapshot comparison of locked_snapshot_watcher
\* closes every window a command, a hand-off or the monitor could slip through.
NoInputWhileHeld == [][typed' # typed => watcher.life \notin Held]_vars

\* What is typed answers evidence that this very daemon has observed and
\* committed: nothing a former daemon saw is acted on after a restart.
RevalidatedBeforeInput == [][typed' \ typed \subseteq observed]_vars

\* Every action performed under a machine is counted in the file before it is
\* performed, so no crash, failed write or restart gives an attempt back.
AttemptsOnRecord == disk.machine # None => performed <= disk.machine.attempts

\* Once a job has handed the watcher to a person, nothing is typed in this
\* daemon until somebody resumes or registers it again.
HandOffHolds == [][typed' # typed => ~review]_vars

\* A shutdown ends: no job keeps the daemon for ever.
ShutdownCompletes == daemon = "closing" ~> daemon = "down"

\* docs/commands.md: pause pauses observation and recovery, so until somebody
\* resumes the watcher nothing is typed.
PauseHolds == [][typed' # typed => ~paused]_vars

\* The Codex design: the marker is persisted before the dispatch it announces,
\* and the outcome is verified or the watcher becomes human_required, unless the
\* daemon ends first.
GoalResumeDispatched ==
    \A e \in Evidence : watcher.mark = e ~> (e \in typed \/ watcher.life \in Held \/ daemon # "up")

-----------------------------------------------------------------------------
(***************************************************************************)
(* The inductive invariant behind the safety properties.                   *)
(***************************************************************************)
Engaged == {j \in Jobs : jobs[j].pc \notin {"idle", "start"}}
Pending == {j \in Jobs : jobs[j].pc \in {"run", "ready"}}
AtWork == watcher.machine = None \/ watcher.machine.st = "Acting"

\* A snapshot that is fresh has the lifecycle there is, a job that has claimed was
\* not held when it did, a job acts on what this daemon has observed, for evidence
\* it was scheduled for, and a hand-off leaves no claimed job a fresh snapshot.
SnapshotInv ==
    \A j \in Jobs :
        /\ jobs[j].fresh => watcher.life = jobs[j].life /\ jobs[j].pc # "idle"
        /\ jobs[j].pc = "ready" => jobs[j].life \notin Held
        /\ jobs[j].pc = "ready" /\ jobs[j].fresh => ~review
        /\ jobs[j].pc \in {"run", "ready"} => jobs[j].act \in observed
        /\ jobs[j].pc \in {"run", "ready", "sent", "done"} => jobs[j].fp \in Evidence

\* A machine that has been revalidated was so by an observation of this daemon.
MachineInv ==
    watcher.machine # None /\ watcher.machine.st # "NeedsRevalidation"
       => watcher.life # "Restarted" /\ watcher.event \in observed

\* At most one job has begun and not ended; meanwhile the machine stays Acting,
\* unless a promotion drops it, and it stays so after a hand-off.
JobInv ==
    /\ daemon = "down" => \A j \in Jobs : jobs[j].pc = "idle"
    /\ \A j, k \in Engaged : j = k
    /\ Engaged # {} => AtWork /\ watcher.life # "Restarted"
    /\ review /\ daemon = "up" => Engaged = {} /\ AtWork

\* What was performed, and what a job that has begun may still perform, is counted
\* in memory and in the file.
Counted(m) ==
    m # None => IF Pending = {} THEN performed <= m.attempts ELSE performed < m.attempts

SafetyInv == TypeOK /\ SnapshotInv /\ MachineInv /\ JobInv
             /\ Counted(disk.machine) /\ Counted(watcher.machine)

\* A schedule counts the looks at a screen that asks for something, from the first
\* one on, or it counts nothing: so in memory, in the file and in the clone of an
\* observation, whatever was committed, refused or reloaded in between.
CountsScreen(s) ==
    \/ s.screen = None /\ s.count = 0
    \/ s.screen \in Screens /\ Actionable(s.screen) /\ s.count \in {1, 2}
ScreenInv == CountsScreen(watcher) /\ CountsScreen(disk) /\ (loop # None => CountsScreen(loop))

IInv == SafetyInv /\ ScreenInv
=============================================================================
