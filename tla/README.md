# A TLA+ model of watchme

watchme is a per-user daemon that watches coding agents (Claude, Codex) in
terminal panes and, when one is stuck on a limit or a capacity block, waits and
then types a short, policy-approved input into its pane. Its central risk is
acting wrongly: twice, on old evidence, while a person is in control, or without
a record. This directory models that core and the parts around it (the daemon's
own life, the panes, processes and files it reads and writes), checks them with TLC
and proves every safety property that the passing runs check with TLAPS. `PROJECT.json` links
every definition to its lines.

## 1. Inventory

| Part | State | Operations | Talks to |
|---|---|---|---|
| Action ledger (`recovery/action_store.rs`) | active record per target, audit list, known keys; memory and `actions.json` | claim, append, escalate, load | transaction |
| Transaction (`recovery/transaction.rs`, `engine.rs`) | phase of the action in hand | run, recover_after_restart, recover_stale | ledger, evidence reader, executor, clock |
| Recovery machine (`recovery/state_machine.rs`) | state, attempts, waits, completed fingerprints, last attempt | eight commands, restore_for_restart | inside a watcher |
| Coordinator (`recovery/coordinator.rs`) | none | clone, apply, persist | registry |
| Registry (`daemon/registry.rs`) | the watchers; memory and `watchers.json` | register, transition, commit_observation, wake, retarget, snapshots | everyone, under one lock |
| Observation loop and supervisor (`daemon/recovery_jobs.rs`) | due times, job handles, accepting and cancellation flags | poll, commit, schedule, shut down | observer, registry, jobs |
| Recovery job (`daemon/recovery_runtime.rs`) | dispatch snapshot | begin, mark, execute, report | registry, engine, multiplexer |
| Runtime services (`daemon/runtime_services.rs`) | process-wide clock origin | schedule, notify, clocks, start-up and stale recovery | registry, ledger |
| IPC service (`daemon/ipc_service.rs`, `ipc/`) | connections, shutdown signals | one handler per request | registry, scheduler, main loop |
| Scheduler, main loop, lock (`daemon/scheduler.rs`, `mod.rs`, `lock.rs`) | map of watchers, lock file | idle exit, shutdown, single instance | all tasks |
| Process monitor (`daemon/lifecycle.rs`, `process/mod.rs`) | missing-since per watcher | terminate, accept a re-exec | registry |
| Adapters (`agents/`, `hooks/`) | none, or metadata on the event | classify, propose an action | observer, engine |
| Policy (`policy.rs`) | none | authorize | transaction |
| Readers and multiplexers (`observe/`, `mux/`) | file cursors, sockets | read, validate, type | observer, executor |
| Process discovery (`process/`, `registration_context.rs`) | none | resolve the agent among one's ancestors | command line, monitor |
| Hook markers, Claude's settings, audit log (`hooks/claude.rs`, `audit.rs`) | files others write too | append, install, retain | hooks, Claude, command line |
| Planner broker (`planner/`) | budgets | route, call, validate a plan | planner processes; not called by the daemon yet |
| Client (`daemon_client.rs`, `cli.rs`) | the daemon it started | connect, start, retry, give up | daemon |
| Configuration, manifests, reset times, notification, redaction | none | | |

What is hard here:

* *Concurrency.* Jobs are native threads, several of one watcher may be alive at
  once, and the observation loop keeps committing while a job verifies. Commands,
  monitor and jobs share the registry only through a lock that is released between
  any two looks.
* *Failure.* A write may fail before or after its rename, so that memory and file
  disagree; most callers drop the error. A crash may fall between an effect and
  its record.
* *Time.* Cooldowns use a monotonic clock that starts at zero in every daemon
  while the time of the last attempt is durable.
* *Shutdown.* Jobs are cancelled cooperatively and waited for without a limit.
* *A world that moves.* A pane, a process table, a log or a goal is read by several
  requests, and the person, the agent or another program acts between any two.
* *Files without locks.* Hooks, Claude and watchme append to and rewrite the same
  files.

What makes each part correct: the ledger and the transaction perform an action at
most once and never lose or falsify its verdict; the machine and the coordinator
keep budgets and cooldowns across restarts; the watcher is never typed into while
somebody or something else holds it, nor on what a former daemon saw; a shutdown
ends, and says so after the last job; one daemon holds the lock and its socket;
input goes to the recorded process with a free composer, as far as the checks can
see, and its outcome is reported truly; a watcher ends with its process and keeps
its agent through a re-exec; evidence is what its source said; and no file loses
what others wrote except in the gap between a read and its write.

## 2. Modules

### ActionStore, Transaction, ActionPromise

`ActionStore` has the ledger as a value and its operations as operators.
`Transaction` has workers that run `Transaction::run` over one shared ledger in
memory (`mem`) and in the file (`disk`). Each stage of `run`, of the stale sweep
and of the start-up recovery is an action; `pc` is the place between two of the
code's calls to the store, the evidence reader or the executor. A write is one
step that succeeds, or fails and leaves the file old or new. `Crash` drops the
workers and loads the file. `effects` and `reported` are history: what really
happened in the pane, and what `run` answered.

`ActionPromise` says what a client may rely on for one idempotency key: opened once
and alone on its target, at most one effect, one verdict, which is not Failed for
input that was sent. `Transaction!KeepsPromise` is the refinement: `Promise == INSTANCE ActionPromise WITH
verdict <- Verdict, effects <- effects`, with the verdict read off the ledger in
memory.

### RecoveryMachine, Coordinator

`RecoveryMachine` is the machine of `state_machine.rs` as pure operators: a guard
and a result per command. `Coordinator` drives it as `coordinator.rs` does, clone,
apply and persist, with the machine in memory and in the file, true time `now`, and
the clock's `origin`, which is set by the first read in each daemon. Ticks are whole
seconds; the code truncates milliseconds to seconds on both sides of the
comparison, so the real distance may be up to a second shorter than the model's.

### Watcher

One watcher and everyone who writes to it. `watcher` and `disk` are the registry's
entry in memory and in the file. `Poll` clones the watcher; `Commit` is
`commit_and_schedule` with the whole of `commit_observation`, including the walk of
the machine and the schedule that is the clone's. A job goes through `JobBegin`
(begin, marker and snapshot under one lock), `JobRun` (the recipes asked again,
revalidation, policy, claim), `JobDispatch`, `JobVerify`, and `JobDone` or
`JobFailed`. The ledger is reduced to what `Transaction` shows about it: a key is
claimed once and one job at a time is past the claim. `Stop`, `Pause`, `Resume`,
`WakeObservation`, `Reregister` and `Promote` are the IPC requests,
`TargetTerminated` the process monitor; `Shutdown`, `GraceExpired`, `Exit`, `Crash`
and `Start` the daemon. Evidence is a model value whose `Kind` says what the
adapters make of it. A job's `fresh` stands for the equality of its snapshot with
the watcher: every registry operation bumps the revision, so equality holds exactly
until the next write. A job's look at the cancellation flag is part of the step
before it (`Enters`), so that a shutdown may fall between the look and the act.

`Init` is a watcher that was registered with a recovery machine. `WatcherState::new` has none
(`model/state.rs:157`), and a watcher without one never acts (`registry.rs:356`): a machine
comes with an IPC Register whose client supplies it, which the command line does not do, or
from the load of a registry in the format that had no target fingerprint (`registry.rs:97`).
`Reregister(None)` and `Promote` lead to watchers without a machine. The number of equal
screens in a row stops at two in the model, since nothing asks for more; the code counts on.

Not in this module: due times (an observation may be due at any time), cooldowns
(a refusal by cooldown is a choice of `JobBegin`), the re-exec of a target (module
Targets), and watchers in the file format that had no target fingerprint.

### Daemon

Processes that are started as the daemon, and clients that start them and talk to
them. The lock file is absent, empty or holds an identity; `Create`, `FlockNew`,
`ReadLock`, `TakeOver`, `Truncate` and `WriteIdentity` are the system calls of
`lock.rs`, one step each. `Bind` removes and binds the socket, `Accept` takes a
connection if a permit is free, `Serve` and `Reply` are one connection, `IdleGrace`
and `IdleCheck` the scheduler's end and the main loop's answer to it (leave, or a
new scheduler), `Drain`, `Acknowledge`, `Leave`, `Unlink` and `Release` the way out.
The scheduler is the set of watchers it counts, whether it runs, and whether the
process monitor's handle is to this scheduler or to a former one; a connection's
`current` is the same for its handle. `Ask`, `Connect`, `Timeout`, `Spawn`, `Retry`
and `GiveUp` are the client, which kills the daemon it started when it gives up.
A recovery job is only alive or not: what it does is in Watcher.

### Delivery

One call of `execute_mux_action`: text, keys or a capture, on tmux, Herdr's bridge or
native Herdr. A call is the opening check of the actuator, or a capture, and then one
unit after the other: a text, or each of the keys. A unit is a plan, the sequence of
requests the code makes to the multiplexer for it (identity, the pinned revision, the
lines, the judgement of the composer, the input), run one at a time (`call.unit`,
`call.place`; `call.at` counts them all); between two of them the human types, the pane
gets another process, an answer is lost. `pane.typed` is history: what was really typed and
how long ago process and composer had changed. A capture keeps the first bytes of
what tmux prints (`tmux.rs:375`), so that a tall screen is cut off above its composer
and is judged by whatever line is last.

### Targets

The process table (numbers are reused, start times are not), the command line that
resolves the agent among its ancestors by their scores, `register` with its merge and
refusals, and the process monitor with grace and re-exec. `world.excused` records
the processes that an inspection error or a replaced executable hit: the code
terminates their watchers although they run, and the property says so.

### Rollout, Cursor, Observer

`Rollout`: the goal's status, then the end of the rollout, while Codex appends to it.
The scan is the sequence of what the loop knows after each record.
`Cursor`: `JsonlCursor` over a log of cells that is extended, truncated or replaced
between calls; a record's text is its identity, its place and its length. No two
records have the same identity: agents date their records, and a log that replaced
another and had the same cells where the guard samples would pass for it. One call cuts what it has
read at the newlines and takes the lines one after the other (`Taken`).
`Observer`: `GenericObserver::observe` from the strongest source to the weakest, one
question a step. A text is the set of features the classifiers look for. A screen is
its rows; a menu's rows say which one waits and where the cursor is. The module also
has the recipes that turn an event into an action (`ClaudeRecipes`, `CodexRecipes`),
so that its properties speak of the keys pressed and the resume sent.

`Places` has the filters that these modules and Files share: what is left of a sequence
is given by the set of the places that are kept.

### Files

The marker file (a record and its newline are two writes), Claude's settings and the
audit log, with writers, a command that reads and rewrites, and kills between any two
writes. `job.lost` records what was added between the command's read and its write,
which the code loses since nothing is locked.

### Planner

The broker: routing by probes and families, budgets, an optional second opinion, the
bounded planner process, validation of the plan, and `authorize` as a decision table.
The daemon does not call it in this version: its callers are the clients of the
module's interface.

### MCEdges

Delivery, Targets, Rollout, Cursor, Observer, Files and Planner share no state with
each other in the code (they meet in the registry, which Watcher has), so that one
run checks them side by side: `part` chooses the one that moves, and the state space
is the sum of theirs, not the product. Its type invariant is the inductive
invariant of each part that the proofs use.

## 3. Runs

| Run | Instance | Shows |
|---|---|---|
| `transaction` | 1 target, 2 actions (input, wait), 2 workers, 1 crash, 2 failed writes | at most one effect, one owner, honest, unique, durable and final verdicts, and the inductive invariant |
| `transaction_promise` | 2 targets, 2 workers, 1 crash, 1 failed write | the refinement of `ActionPromise`, also when a failed write for one target meets the other's record |
| `transaction_liveness` | as the first, 1 failed write | every effect gets a durable verdict unless a write fails |
| `coordinator` | 2 fingerprints, 2 attempts, 3 units of wait, cooldown 2, 5 ticks, 2 restarts, 1 failed write | budgets, cooldown in true time, no repetition of a success |
| `watcher` | Claude: menu, limit, resume; 2 jobs, 3 attempts, 2 requests, 1 restart | no input while held, on old evidence, or after an unanswered hand-off; the inductive invariant |
| `watcher_codex` | Codex: capacity, goal, quiet; 2 jobs, 1 failed write, 1 request, 1 restart | every performed action is counted in the file; a shutdown ends |
| `watcher_pause` | 1 menu, 1 job, 1 request | violated: a pause is lost (section 6) |
| `watcher_goal` | capacity and goal, 1 job, no crash | violated: the resume is never sent (section 6) |
| `daemon` | 3 processes, 2 clients, 1 target, 1 connection permit, 3 requests | one owner of the lock, a socket that is its own, and a shutdown answered after the last job; the inductive invariant |
| `daemon_idle` | 1 process, otherwise the same | violated: an empty daemon stays (section 6) |
| `edges` | the seven parts of MCEdges (bounds below) | the fourteen properties of those parts |
| `tmux_digest` | Delivery alone | violated: the registered process is refused (section 6) |

*Why the bounds are enough.* A race needs two workers or jobs; a third meets the
same lock. The ledger compares keys only for equality, and two keys on one target
and two targets give both outcomes. One crash separates two incarnations, and the
state a second finds differs from the first's only in counters. Two failed writes
let the write that reports a failure fail too. In `coordinator` a cooldown of two
with two restarts lets the new clock be behind, equal to and ahead of the recorded
time. In `watcher` two requests allow a pause and a resume within one job, the case
in which comparing lifecycles would not be enough, and three attempts leave two that
can be dispatched, so that a limit is followed by its resume. The larger instance
with a failed write as well (17.7 million states) passes too, beyond the time a
regular run should take. In `daemon` a third process meets what two have left of the
lock file, and one permit is the limit that the second client reaches; three requests
are enough for register, stop and one in between.

In `edges` (3.5 million states): *delivery* two keys, so that the second can ride on
the first one's checks, three disturbances, screens of two to five lines and a composer
check that fits two, so that one is read whole and others are cut; *targets* one agent
and two processes more on three numbers, so that a number is used again and a lost
process may have two that look like it, two kinds of executable, two watchers, a grace
of zero, which is the smallest that separates lost from late, and one inspection error
or replaced executable (a registry write may fail at any time); *rollout* five records
of which four fit into the part that is read, over two turns; *cursor* reads of two
cells and records of up to three where two are allowed, so that a record is split,
skipped and followed by one that fits, in two logs; *observer* three rows of which two
are looked at and one change of the world at any point of one observation; *files* four
writers, two rewrites, two records in memory; *planner* three callers, so that one can
come between the end of a call and its count and one after, two events, one call per
event, two per day, one slot. Each part was also run alone with larger or different
bounds (a longer grace, shorter tails and reads, two changes per observation, two slots,
among others) with the same results.

Bounded counters are `MaxCrashes`, `MaxFaults`, `MaxNow`,
`MaxRestarts`, `MaxCommands`, `MaxAsks`, `MaxHuman`, `MaxFirst`, `MaxSpawn`, `MaxTime`,
`MaxWatchers`, `MaxUpsets`, `MaxRecords`, `MaxIds`, `MaxSize`, `MaxCells`, `MaxLogs`,
`MaxRows`, `MaxChanges`, `MaxPens` and `MaxJobs`; the proofs do not depend on the values
of those that are theirs. The code's own limits are constants too (`MaxConnections`,
`Cap`, `Far`, `Grace`, `TailLen`, `MaxRead`, `MaxRecord`, `MaxBatch`, `Bottom`, `MaxKept`,
`MaxLines`, `MaxPerEvent`, `MaxPerDay`, `MaxConcurrent`), made small so that they are met.

*Symmetry* is used for workers, jobs, fingerprints, daemon processes and clients, in
runs without liveness.

*Deadlock* is not checked in `coordinator`, whose steps are calls from outside under
bounds, nor in the `watcher` runs, where a daemon that has exited stays down
once the bound on restarts is used up, nor in `daemon`, whose clients end with their
commands, nor in `edges`, whose parts are single calls that return.

*Fairness.* `Transaction!FairSpec`: a worker is a thread whose steps are bounded
calls (evidence reads, writes, mux commands with timeouts, a poll with a deadline),
and the start-up recovery is straight-line code; nobody owes a new job, a crash or
a failed write. `Watcher!FairSpec`: the same for jobs; an observation is cut off
after five seconds or aborted; the loop polls every second; the main task goes on
to `Exit` once the jobs are gone. Requests, crashes and restarts are not fair.
`Daemon!FairSpec`: the tasks of the daemon run, a job ends, a connection is served, and
a client's attempt times out and its command ends; nobody owes a request or a crash.

## 4. Proofs

The `...Proofs` modules are checked by TLAPS for every value of the constants: any
number of workers, jobs, processes, clients, targets, callers, crashes, failed writes
and restarts. Each proves that an inductive invariant holds, one lemma per action, and
draws the properties from it. TLC checks the same invariants in the runs.

| Module | Inductive invariant | Theorems |
|---|---|---|
| `TransactionProofs` | `SafetyInv` | `TypeCorrect`, `EffectsAtMostOnce`, `SingleOwner`, `FailureIsHonest`, `NoLostAttempt`, `VerdictUnique`, `ReportDurable`, `SettledForGood` |
| | `IInv` of Transaction | `Inductive`, `OrphansFirst`, `PromiseKept` |
| `CoordinatorProofs` | `BudgetInv` | `Remembered`, `BudgetRespected`, `CooldownRespected`, `SuccessNotRepeated` |
| `WatcherProofs` | `IInv` of Watcher | `WatcherInvariant`, `AttemptsCounted`, `HeldIsUntouched`, `InputIsRevalidated`, `HandOffIsFinal` |
| `DaemonProofs` | `IInv` of Daemon | `DaemonInvariant`, `LockHasOneOwner`, `SocketIsServing`, `ShutdownDrains` |
| `DeliveryProofs` | `DeliveryInv` | `DeliveryInductive`, `InputIsChecked`, `OutcomeTrue`, `SeenOfTarget` |
| `EvidenceProofs` | `ObserverInv` | `ObserverSafe`, `ResumeBacked`, `KeysSelectWait` |
| | `RolloutInv` | `RolloutSafe`, `CapacityLatest` |
| | `FilesInv` | `FilesSafe`, `MarkerFound`, `RewritesKeep` |
| `CursorProofs` | `CursorInv` | `CursorSafe`, `RecordsOrdered` |
| `EdgesProofs` | `TargetsInv` | `TargetsInductive`, `EndsWithTarget`, `AgentKept`, `WatchersDistinct` |
| | `PlannerInv` | `PlannerInductive`, `PlannerBudgets` |
| | `EdgesTypeOK` | `EdgesParts`, `EdgesSafe` |

*Transaction.* `AtMostOnce` alone is not inductive: it needs to know what the ledger
says of each key. `SafetyInv` says that each copy of the ledger accounts for the effects
(`Accounts`: an active record is of a known key; a verdict is unique, ends the
activity and agrees with the number of effects), that a worker past the claim owns
the active record in both copies in a phase that fits its stage (`WorkerInv`), that
a record about to be settled as stale belongs to a former daemon and has not moved
(`OrphanInv`), that the file is never behind the memory (`DiskAhead`), and who owns
what during the start-up recovery (`BootInv`, `OwnersInv`). Lemmas show that claim,
append, escalate and an effect keep `Accounts`, and that a step of one worker leaves the
others' invariants alone. `SettledForGood`, an action property, follows since the audit
only grows.

*The promise.* The refinement needs one fact more. A crash replaces the memory, from
which the verdict is read, by the file; if the file could be several operations ahead,
a crash would open or close several keys at once, and no step of `ActionPromise` does
that. `OneWriteAhead` says that the file is at most one operation ahead however many
writes failed, as every failed write was tried on the same memory: so a crash is one
step of the promise. `OrphansAtBoot` says that, unless a write failed, the records of
former daemons are those the start-up recovery has yet to visit, which gives
`OrphansFirst`. `PromiseKept` is `Spec => KeepsPromise`, the refinement itself.

*Coordinator.* `BudgetInv` says that both copies of the machine remember at least
what was granted (`Remembers`), and that the recorded time of the last attempt, read
on this daemon's clock, is not before the attempt (`ClockInv`): a clock that restarts
at zero can make the code wait longer, never shorter.

*Watcher.* `IInv` is `SafetyInv`, about jobs and what they did, and `ScreenInv`, about the
count of equal screens: in memory, in the file and in the clone of an observation a
screen that asks for something is counted from its first look on, or nothing is, so that
no screen starts with the count of another. In `SafetyInv` four things have to be known
together. `JobInv`: at most one job has begun
and not ended, and while there is one the machine is Acting, unless a promotion took it
away, and the watcher is not one that a restart holds; this is why a second job cannot
begin, since nothing but the job itself takes the machine out of Acting. `Counted`: what
was performed, and what that one job may still perform, is counted in memory and in the
file. `SnapshotInv`: a fresh snapshot has the lifecycle of the watcher, a job that has
claimed was not held, acts on what this daemon observed, and has no fresh snapshot after
a hand-off. `MachineInv`: a machine that needs no revalidation was revalidated by this
daemon. The last three theorems are action properties: only a dispatch with a fresh
snapshot types (`TypedByJob`).

*Daemon.* `LockInv`: a process past the lock holds the flock and one that listens has
the socket, which is why one owner is enough for both. `ShutdownDrains` is about one
step, the answer, but needs to know where an answer can come from: `ConnectionInv` gives
every client at most one connection, on which it waits for the request it made, and
`DrainInv` says that a shutdown is answered by the acknowledgement alone, and that a
daemon that acknowledges has no job and gets none.

*Delivery.* The plans are finite and written out once (`TmuxPlan`, `BridgePlan`,
`SubmitPlan`), and what is needed of them is read off: an input has an identity check and
a judged read of the lines within its windows (`Guarded`), there is one input in the plan
of a unit (`OneSend`), and on tmux and the bridge lines are followed by an identity check
(`Confirmed`). `IdentityInv` and `ComposerInv` then say of every request answered so far
in this plan that what has gone wrong since came after it, so that the number of actions,
keys and disturbances no longer matters; a draft on a screen that is read whole is never
judged a free composer (`DraftIsSeen`). `TypedInv` counts what was typed by the unit and
whether its input was sent, from which the outcome follows.

*Targets.* `TableInv`: start times tell a process from every later one with its number.
`KnownInv`: while the process of a watcher lives, it is what the watcher says, unless its
executable was replaced. `FollowInv`: monitor and registry speak of the same process, of
the kind of agent that was registered.

*Planner.* The counter of active calls is the number of callers with a slot, and the
counter of an event the number of its calls that returned (`PlannerInv`), so that the
guards on the counters limit the calls themselves.

*Loops and filters.* What a loop over records returns is proved by induction over the set
of the places up to which the claim holds: a set of natural numbers with 0 and with the
successor of each of its elements is `Nat` (`SetInduction`, from the least element of a
set). What a filter returns is proved by ranks: `Pick(s, S)` has at `k` what `s` has at the
place of `S` with `k - 1` places below it, so that the order is kept and nothing is
repeated.

*Observer.* `ResumeBacked` needs that the goal of the moment is always among the
observation's (`obs.truths`) and that an event with a resume was made from one of them;
the question about a resume is asked of the event, several steps later. For
`KeysSelectWait` the keys are a distance between two places of the bottom of the screen,
while the menu is that of the whole screen: the lemmas show that the option at a place of
the one is found at the place of the other with the same rank, and that pressing a key
moves the cursor by one of them and never over the edge.

*Rollout.* The proof follows the scan: after `n` records of the tail, what the loop knows
says which record was the capacity message, which turn it was of, and that no turn or
user came after. The records before the tail do not matter, since the claim is about
the last turn and its start has to be in the tail.

*Files.* `OnlyLastIsOpen` is why an appended record is glued to at most one other;
`MarkersInv` finds each marker that nobody wrote into on a line of its own, and
`EachOnce` counts no record twice. For the rewrites, `BaseInv` says that what was read has
all that must be kept but what was added since (`job.lost`), and `RewriteInv` which lines
are the rewrite's own and that no other is a copy of one of them, although others append
while it writes.

*Cursor.* `LogInv`: a log is rows of whole records whose identities grow, the last one
perhaps unfinished. `GuardInv`: the sample at the first cell is what tells a log from one
that replaced it, so that a log that passes all checks starts with everything the cursor
read. `ProgressInv`: up to the place `z` the records are taken as `RecordsInOrder` says
(`TakenUpTo`), and what is kept as partial is the cells after `z`; a line that ends in the
newly read part therefore starts at `z`, and is whole unless its start was discarded as too
long. `RecordsOrdered` then compares two strictly growing sequences with the same elements.

*The edges together.* `EdgesParts`: in every behaviour of `EdgesSpec` each part behaves
as its own module specifies, since a step of another part leaves its variables alone. So
the theorems about the parts hold of what the run `edges` checks, and `EdgesSafe` is that
run's invariant.

*Assumptions.* `KindAssumption`, `ProgressAssumption`: actions that type are verified
by progress, and are actions. `NoneAssumption`, `AbsentAssumption`,
`LockFileAssumption`: `None` is not a value, nor is the state of a lock file a process.
`ProposalAssumption`: proposals are keys. `BudgetAssumption`, `WaitAssumption`,
`BoundAssumption`, `CapAssumption`, `AsksAssumption`, `TargetBoundsAssumption`: budgets,
waits and bounds are natural numbers. `Watcher` adds `KindsAssumption`,
`ScreensAssumption`, `LimitAssumption`, and `TimelessAssumption`, as it leaves time out.
`CallersAssumption`: there are finitely many callers. `TurnsAssumption`: `NoTurn` is no
turn. `PartsAssumption`: the parts that move in MCEdges are the seven. The other modules assume that
their limits are natural numbers, positive where the code's constant is.

## 5. Only model-checked

* Liveness (`AttemptsAreSettled`, `ShutdownCompletes`), which the prover does not
  reach. All other properties of passing runs are theorems.
* The four violations of section 6, which are counterexamples.

The theorems are about the models: that a definition says what its lines of code do rests on
reading them side by side, by the map in `PROJECT.json`.

## 6. Findings

* `watcher_pause`: `commit_observation` sets the lifecycle to Observing whenever the
  machine needs revalidation, so a pause requested while that observation was in
  flight is overwritten, the screen is confirmed and keys are pressed.
  `docs/commands.md:26` says that pause pauses observation and recovery. Pausing
  before a restart ends the same way.
* `watcher_goal`: a job persists Codex's exactly-once marker and then takes the
  snapshot for which the engine asks the recipes again; these propose nothing for a
  marked candidate. Nothing is sent, nobody is told, and the machine stays in
  Acting. The design document (`2026-07-17-codex-native-herdr-recovery-design.md`,
  lines 193-197) wants the marker, one dispatch and its verification.

* `daemon_idle`: the process monitor and every connection keep the scheduler handle they
  were started with. When the idle grace expires while a client is connected, or while
  a watcher is being registered, the main loop replaces the scheduler, and a stop that
  is later sent through an old handle is lost. The new scheduler counts the watcher for
  ever and the empty daemon never exits, where `docs/commands.md:42` says that it does.
* `tmux_digest`: `process_matches` compares whole process identities, and the recorded
  one carries a digest of its parents that the one built for the comparison does not
  have. A watcher of a tmux pane that the command line registered is refused as another
  target, for captures and for input, where `docs/compatibility.md:119` names only the
  pane's identifiers and the start time.

Properties that hold say in their statement what the code does not promise: on tmux the
composer check reads the first 1024 bytes of a capture of the whole pane, so that on a
longer screen the line it judges is not the composer's, and what a person has begun to
type there is not seen (`NoBlindInput` excepts this, `Cutoff`; the design document,
`2026-07-11-watchme-design.md:49`, wants composer safety revalidated before every input,
and the checklist, `docs/release-checklist.md:61`, has it ticked); a call of a
planner may exceed its budget when requests overlap (`CallsAreBudgeted`), the record
right after one that was too long may be dropped although it is valid and short
(`RecordsInOrder`: when the read at which the long record was given up ended just before
its newline, nothing is left of it to drop, an empty line does not count, and the mark
takes the next line instead, `jsonl.rs:128-133`; no test has this case), the status of a
goal may be older than the rollout that is read after it (`CapacityIsLatest`), markers of two
hooks may be glued together (`MarkerIsFound`; the comment at `hooks/claude.rs:300` speaks
of a single append), what is added during a rewrite is lost (`RewriteKeeps`), a watcher of
a running process ends when its executable is replaced or an inspection fails
(`TerminatedIsGone`), a resume is sent on the wait alone when no source can be read
(`ResumeIsBacked`), and a re-exec may bring two watchers to one process
(`OneWatcherPerProcess`).

A process that found the identity of a dead daemon in the lock file takes the file over
without reading it again (`lock.rs:49`). If another daemon has come and gone in between,
and lingers in the shutdown of its runtime with a job, the job and the new daemon
overlap. `OneOwner` is about processes that hold the lock, and does not exclude this.

`PROJECT.json` lists further hazards the model has but no property states, among
them: a stop overwritten by a failing job or a scheduled wait, the last attempt of a
budget that is begun and always refused, a wake cleared by a commit that began before
it, a job that acts on a newer screen than the one that was seen twice, and an idle
exit that cuts a job off.

## 7. Not modelled

* Text: what wording makes a feature, formatting, redaction, control sequences, manifests
  (`agents/manifest.rs`, string matching over a format) and the parsing of `/proc`. They
  have no state, and the decision that follows from each outcome is modelled.
* Encodings of messages to multiplexers, planners and clients, and the sizes of frames.
* Reset times (`recovery/reset_time.rs`): a calendar with time zones is all there is to
  it, and a small instance would leave just that out. `Observer` has whether a text
  carries a time.
* Configuration (`config.rs`): defaults, merging and range checks, read once at start.
* Due times, jitter and backoff lengths: an observation may be due at any time, a wait
  is over or not.
* A file at the 4 MiB limit of the store, where every write fails from then on.
* A corrupt registry, which refuses every start and adds a copy each time; a marker file
  beyond 1 MiB is never read again (in `Files` the bound is `MaxLines`).
* macOS, the fakes and the test wiring.

## 8. Plan

1. ActionStore, Transaction, ActionPromise with proofs: done.
2. RecoveryMachine, Coordinator with proofs: done.
3. Watcher, with its violation runs: done.
4. Daemon (lock, socket, scheduler, connections, shutdown handshake, clients): done.
5. Delivery, Targets, Rollout, Cursor, Observer, Files, Planner: done.
6. Proofs of Transaction's refinement, Watcher, Daemon, Delivery, Targets and Planner: done.
   Proofs of Observer, Rollout, Files and Cursor, and of the parts together: done.
7. Left to state: input on a screen that was seen twice (`docs/threat-model.md:7`),
   and which fingerprint a success is recorded for.
