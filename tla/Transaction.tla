---------------------------- MODULE Transaction ----------------------------
(***************************************************************************)
(* recovery/transaction.rs: the workers of one daemon each run              *)
(* Transaction::run for an action proposed by a recipe, over one shared    *)
(* ledger.  A worker first sweeps stale records (recover_stale), takes a   *)
(* baseline of live evidence, passes policy, confirms the evidence, claims *)
(* the idempotency key, rechecks, crosses the commit boundary, executes    *)
(* and verifies.  Between any two steps another worker may run, a write    *)
(* may fail before or after the rename, and the daemon may crash; a        *)
(* restarted daemon settles every orphaned record before it observes.      *)
(***************************************************************************)
EXTENDS ActionStore

CONSTANTS Proposals,    \* the keys of the actions the recipes may propose
          Workers,      \* native threads spawned by the recovery supervisor
          Identities,   \* live target identities an evidence read can report
          Sources,      \* evidence source and confidence of the event
          MaxCrashes,   \* bound on daemon crashes
          MaxFaults     \* bound on failed ledger writes

ASSUME ProposalAssumption == Proposals \subseteq Keys
ASSUME BoundAssumption == MaxCrashes \in Nat /\ MaxFaults \in Nat

VARIABLES mem,      \* the ledger behind the mutex
          disk,     \* the ledger file a restarted daemon loads
          pc,       \* where each worker is in Transaction::run
          job,      \* the key each worker works for
          base,     \* identity and source of the worker's baseline evidence
          todo,     \* targets whose active record the worker has yet to sweep
          orphan,   \* the stale record the worker is about to settle
          boot,     \* targets recover_durable_actions_after_restart has yet to visit
          epoch,    \* incarnation of the daemon, the owner of its records
          faults,   \* failed writes so far
          effects,  \* history: side effects performed for each key
          reported  \* history: keys run() answered Ok(Succeeded) for

workerVars == <<pc, job, base, todo, orphan>>
vars == <<mem, disk, pc, job, base, todo, orphan, boot, epoch, faults,
          effects, reported>>

\* The stages of run() that follow a successful claim.
Owning == {"recheck", "begin", "execute", "sent", "receipt", "verify", "poll",
           "succeed", "terminate", "escalate"}
Stages == {"idle", "sweep", "settle", "baseline", "confirm", "claim"} \cup Owning

\* LiveEvidence.  usable is the conjunction of the facts only a revalidation
\* requires: target revalidated, process alive, pane matches, evidence current
\* and, for a Claude resume, the same session.
Evidence == [usable : BOOLEAN, human : BOOLEAN, composer : BOOLEAN,
             fp : Fingerprints, id : Identities, src : Sources]
Baselines == [id : Identities, src : Sources]

TypeOK ==
    /\ mem \in Ledgers
    /\ disk \in Ledgers
    /\ pc \in [Workers -> Stages]
    /\ job \in [Workers -> Keys \cup {None}]
    /\ base \in [Workers -> Baselines \cup {None}]
    /\ todo \in [Workers -> SUBSET Targets]
    /\ orphan \in [Workers -> Records \cup {None}]
    /\ boot \in SUBSET Targets
    /\ epoch \in Nat
    /\ faults \in Nat
    /\ effects \in [Keys -> Nat]
    /\ reported \in SUBSET Keys

Init ==
    /\ mem = EmptyLedger
    /\ disk = EmptyLedger
    /\ pc = [w \in Workers |-> "idle"]
    /\ job = [w \in Workers |-> None]
    /\ base = [w \in Workers |-> None]
    /\ todo = [w \in Workers |-> {}]
    /\ orphan = [w \in Workers |-> None]
    /\ boot = {}
    /\ epoch = 0
    /\ faults = 0
    /\ effects = [k \in Keys |-> 0]
    /\ reported = {}

-----------------------------------------------------------------------------
\* JsonStore::write followed by the swap of the in-memory state.  A write can
\* fail before the rename, or after it when syncing the directory fails: then
\* the file already holds the new ledger and the memory still the old one.
WriteOk(next) == mem' = next /\ disk' = next /\ UNCHANGED faults

\* Mutant: the memory is swapped although the write failed.
WriteFailsSwapped(next) ==
    /\ faults < MaxFaults
    /\ faults' = faults + 1
    /\ mem' = next
    /\ disk' \in {disk, next}

WriteFails(next) ==
    /\ faults < MaxFaults
    /\ faults' = faults + 1
    /\ mem' = mem
    /\ disk' \in {disk, next}

GoTo(w, stage) ==
    /\ pc' = [pc EXCEPT ![w] = stage]
    /\ UNCHANGED <<job, base, todo, orphan>>

\* run() returns: the worker thread ends and its slot is free again.
Return(w) ==
    /\ pc' = [pc EXCEPT ![w] = "idle"]
    /\ job' = [job EXCEPT ![w] = None]
    /\ base' = [base EXCEPT ![w] = None]
    /\ todo' = [todo EXCEPT ![w] = {}]
    /\ orphan' = [orphan EXCEPT ![w] = None]

Unwritten == UNCHANGED <<mem, disk, faults>>
Steady == UNCHANGED <<boot, epoch>>
NoEffect == UNCHANGED <<effects, reported>>

ActiveTargets(l) == {t \in Targets : l.active[t] # None}

\* revalidate(): the evidence is usable, fits the action and does not
\* contradict the baseline's identity, source or confidence.
Revalidates(k, ev, old) ==
    /\ ev.usable
    /\ ~ev.human
    /\ k.action \in InputActions => ev.composer
    /\ ev.fp = k.fp
    /\ old # None => ev.id = old.id /\ ev.src = old.src

-----------------------------------------------------------------------------
\* The job scheduled after a committed observation; the ledger snapshot of
\* active_records() is the first thing it takes.
StartJob(w, k) ==
    /\ pc[w] = "idle"
    /\ boot = {}
    /\ pc' = [pc EXCEPT ![w] = "sweep"]
    /\ job' = [job EXCEPT ![w] = k]
    /\ todo' = [todo EXCEPT ![w] = ActiveTargets(mem)]
    /\ UNCHANGED <<base, orphan>>
    /\ Unwritten /\ Steady /\ NoEffect

SweepDone(w) ==
    /\ pc[w] = "sweep"
    /\ todo[w] = {}
    /\ GoTo(w, "baseline")
    /\ Unwritten /\ Steady /\ NoEffect

\* recover_stale leaves a record alone when it is gone, its owner is this very
\* process or its lease has not expired.
SweepSkip(w, t) ==
    /\ pc[w] = "sweep"
    /\ t \in todo[w]
    /\ todo' = [todo EXCEPT ![w] = @ \ {t}]
    /\ UNCHANGED <<pc, job, base, orphan>>
    /\ Unwritten /\ Steady /\ NoEffect

\* Mutant: the sweep does not compare the owner's identity.
SweepStaleAnyOwner(w, t) ==
    /\ pc[w] = "sweep"
    /\ t \in todo[w]
    /\ mem.active[t] # None
    /\ todo' = [todo EXCEPT ![w] = @ \ {t}]
    /\ orphan' = [orphan EXCEPT ![w] = mem.active[t]]
    /\ pc' = [pc EXCEPT ![w] = "settle"]
    /\ UNCHANGED <<job, base>>
    /\ Unwritten /\ Steady /\ NoEffect

\* The lease deadline is in milliseconds of the writer's monotonic clock, which
\* starts again at zero in every daemon: for the record of an earlier
\* incarnation the comparison may answer either way.
SweepStale(w, t) ==
    /\ pc[w] = "sweep"
    /\ t \in todo[w]
    /\ mem.active[t] # None
    /\ mem.active[t].owner # epoch
    /\ todo' = [todo EXCEPT ![w] = @ \ {t}]
    /\ orphan' = [orphan EXCEPT ![w] = mem.active[t]]
    /\ pc' = [pc EXCEPT ![w] = "settle"]
    /\ UNCHANGED <<job, base>>
    /\ Unwritten /\ Steady /\ NoEffect

\* The append of recover_stale.  The mutex was released since the record was
\* read: the CAS may fail, and every error is ignored by the sweep.
Settle(w) ==
    /\ pc[w] = "settle"
    /\ LET verdict == InPhase(orphan[w], OrphanVerdict(orphan[w]))
       IN  \/ /\ OwnsActive(mem, verdict)
              /\ \/ WriteOk(AppendRecord(mem, verdict))
                 \/ WriteFails(AppendRecord(mem, verdict))
           \/ ~OwnsActive(mem, verdict) /\ Unwritten
    /\ pc' = [pc EXCEPT ![w] = "sweep"]
    /\ orphan' = [orphan EXCEPT ![w] = None]
    /\ UNCHANGED <<job, base, todo>>
    /\ Steady /\ NoEffect

\* The first evidence read, and the policy, which may deny on its own account.
Baseline(w) ==
    /\ pc[w] = "baseline"
    /\ \/ \E ev \in Evidence :
            /\ Revalidates(job[w], ev, None)
            /\ base' = [base EXCEPT ![w] = [id |-> ev.id, src |-> ev.src]]
            /\ pc' = [pc EXCEPT ![w] = "confirm"]
            /\ UNCHANGED <<job, todo, orphan>>
       \/ Return(w)
    /\ Unwritten /\ Steady /\ NoEffect

Confirm(w) ==
    /\ pc[w] = "confirm"
    /\ \/ \E ev \in Evidence : Revalidates(job[w], ev, base[w]) /\ GoTo(w, "claim")
       \/ \E ev \in Evidence : ~Revalidates(job[w], ev, base[w]) /\ Return(w)
    /\ Unwritten /\ Steady /\ NoEffect

Claim(w) ==
    /\ pc[w] = "claim"
    /\ LET next == ClaimPrepared(mem, Prepared(job[w], epoch))
       IN  \/ CanClaim(mem, job[w]) /\ WriteOk(next) /\ GoTo(w, "recheck")
           \/ CanClaim(mem, job[w]) /\ WriteFails(next) /\ Return(w)
           \/ ~CanClaim(mem, job[w]) /\ Unwritten /\ Return(w)
    /\ Steady /\ NoEffect

\* The revalidation under the claim: evidence that moved aborts it as Failed.
Recheck(w) ==
    /\ pc[w] = "recheck"
    /\ \/ \E ev \in Evidence : Revalidates(job[w], ev, base[w]) /\ GoTo(w, "begin")
       \/ \E ev \in Evidence : ~Revalidates(job[w], ev, base[w]) /\ GoTo(w, "terminate")
    /\ Unwritten /\ Steady /\ NoEffect

\* persist(): append the worker's own record in the next phase.
MyRecord(w, phase) == [key |-> job[w], owner |-> epoch, phase |-> phase]

Persist(w, phase, onOk, onError) ==
    LET r == MyRecord(w, phase)
    IN  \/ /\ OwnsActive(mem, r)
           /\ \/ WriteOk(AppendRecord(mem, r)) /\ onOk
              \/ WriteFails(AppendRecord(mem, r)) /\ onError
        \/ ~OwnsActive(mem, r) /\ Unwritten /\ onError

\* The commit boundary: without a durable Begun the executor is never called.
Begin(w) ==
    /\ pc[w] = "begin"
    /\ Persist(w, "Begun", GoTo(w, "execute"), Return(w))
    /\ Steady /\ NoEffect

Performs(k, n) == effects' = [effects EXCEPT ![k] = @ + n]

\* DaemonActionExecutor::execute.  An input action is refused before anything
\* is sent (cancelled, evidence or snapshot changed, identity invalid), or the
\* multiplexer reports an error or cancellation arrives after the dispatch, in
\* which case it may or may not have happened, or it is sent.  A failing
\* service call of a non-input action may have persisted half of its work.
Execute(w) ==
    /\ pc[w] = "execute"
    /\ LET k == job[w]
           input == k.action \in InputActions
       IN  \/ /\ \E n \in {0} \cup (IF input THEN {} ELSE {1}) : Performs(k, n)
              /\ GoTo(w, "terminate")
           \/ input /\ (\E n \in {0, 1} : Performs(k, n)) /\ GoTo(w, "escalate")
           \/ Performs(k, 1) /\ GoTo(w, "sent")
    /\ UNCHANGED reported
    /\ Unwritten /\ Steady

PersistSent(w) ==
    /\ pc[w] = "sent"
    /\ Persist(w, "Sent", GoTo(w, "receipt"), GoTo(w, "escalate"))
    /\ Steady /\ NoEffect

\* receipt_outcomes_hold, then needs_progress_verification.
Receipt(w) ==
    /\ pc[w] = "receipt"
    /\ \/ GoTo(w, "escalate")
       \/ job[w].action \notin ProgressActions /\ GoTo(w, "succeed")
       \/ job[w].action \in ProgressActions /\ GoTo(w, "verify")
    /\ Unwritten /\ Steady /\ NoEffect

BeginVerification(w) ==
    /\ pc[w] = "verify"
    /\ Persist(w, "Verifying", GoTo(w, "poll"), GoTo(w, "escalate"))
    /\ Steady /\ NoEffect

\* The verification loop.  A poll that neither proves nor refutes the outcome
\* changes nothing and is a stuttering step; the deadline ends the loop.
PollVerified(w) ==
    /\ pc[w] = "poll"
    /\ \E ev \in Evidence :
         /\ ~ev.human
         /\ ev.id = base[w].id
         /\ ev.fp # job[w].fp
    /\ GoTo(w, "succeed")
    /\ Unwritten /\ Steady /\ NoEffect

\* Evidence unavailable, human intervention, another identity or the deadline.
PollGivesUp(w) ==
    /\ pc[w] = "poll"
    /\ GoTo(w, "escalate")
    /\ Unwritten /\ Steady /\ NoEffect

\* Mutant: run() answers Ok although the Succeeded record was not written.
SucceedRegardless(w) ==
    /\ pc[w] = "succeed"
    /\ Persist(w, "Succeeded", Return(w), Return(w))
    /\ reported' = reported \cup {job[w]}
    /\ UNCHANGED effects
    /\ Steady

\* run() answers Ok only when the Succeeded record is durable.
Succeed(w) ==
    /\ pc[w] = "succeed"
    /\ Persist(w, "Succeeded",
               Return(w) /\ reported' = reported \cup {job[w]},
               Return(w) /\ UNCHANGED reported)
    /\ UNCHANGED effects
    /\ Steady

Terminate(w) ==
    /\ pc[w] = "terminate"
    /\ Persist(w, "Failed", Return(w), Return(w))
    /\ Steady /\ NoEffect

\* uncertain(): a failing write leaves the active record for a restart.
Escalate(w) ==
    /\ pc[w] = "escalate"
    /\ LET r == MyRecord(w, "Uncertain")
       IN  \/ /\ OwnsActive(mem, r)
              /\ \/ WriteOk(EscalateUncertain(mem, r))
                 \/ WriteFails(EscalateUncertain(mem, r))
           \/ ~OwnsActive(mem, r) /\ Unwritten
    /\ Return(w)
    /\ Steady /\ NoEffect

-----------------------------------------------------------------------------
WorkersGone ==
    /\ pc' = [w \in Workers |-> "idle"]
    /\ job' = [w \in Workers |-> None]
    /\ base' = [w \in Workers |-> None]
    /\ todo' = [w \in Workers |-> {}]
    /\ orphan' = [w \in Workers |-> None]

\* Mutants: a restart that skips the recovery of durable actions, and one whose
\* load loses the idempotency keys.
CrashUnrecovered ==
    /\ epoch < MaxCrashes
    /\ epoch' = epoch + 1
    /\ mem' = disk
    /\ boot' = {}
    /\ WorkersGone
    /\ UNCHANGED <<disk, faults, effects, reported>>
CrashForgetsKeys ==
    /\ epoch < MaxCrashes
    /\ epoch' = epoch + 1
    /\ mem' = [disk EXCEPT !.idempotency = {}]
    /\ boot' = ActiveTargets(disk)
    /\ WorkersGone
    /\ UNCHANGED <<disk, faults, effects, reported>>

\* The daemon dies and is started again: the ledger is loaded from the file and
\* every worker is gone.
Crash ==
    /\ epoch < MaxCrashes
    /\ epoch' = epoch + 1
    /\ mem' = disk
    /\ boot' = ActiveTargets(disk)
    /\ WorkersGone
    /\ UNCHANGED <<disk, faults, effects, reported>>

\* recover_durable_actions_after_restart: errors are ignored, so a failing
\* write leaves the orphan to recover_stale.
RecoverAfterRestart(t) ==
    /\ t \in boot
    /\ boot' = boot \ {t}
    /\ LET verdict == InPhase(mem.active[t], OrphanVerdict(mem.active[t]))
       IN  \/ WriteOk(AppendRecord(mem, verdict))
           \/ WriteFails(AppendRecord(mem, verdict))
    /\ UNCHANGED workerVars
    /\ UNCHANGED epoch
    /\ NoEffect

WorkerStep(w) ==
    \/ SweepDone(w)
    \/ \E t \in Targets : SweepSkip(w, t) \/ SweepStale(w, t)
    \/ Settle(w)
    \/ Baseline(w) \/ Confirm(w) \/ Claim(w) \/ Recheck(w) \/ Begin(w)
    \/ Execute(w) \/ PersistSent(w) \/ Receipt(w) \/ BeginVerification(w)
    \/ PollVerified(w) \/ PollGivesUp(w)
    \/ Succeed(w) \/ Terminate(w) \/ Escalate(w)

Next ==
    \/ \E w \in Workers : WorkerStep(w) \/ \E k \in Proposals : StartJob(w, k)
    \/ Crash
    \/ \E t \in Targets : RecoverAfterRestart(t)

Spec == Init /\ [][Next]_vars

\* A worker thread and the start-up sequence run to their end; that a new job
\* is scheduled, that the daemon crashes or that a write fails is never owed.
FairSpec ==
    /\ Spec
    /\ \A w \in Workers : WF_vars(WorkerStep(w))
    /\ \A t \in Targets : WF_vars(RecoverAfterRestart(t))
-----------------------------------------------------------------------------
(***************************************************************************)
(* Properties.                                                             *)
(***************************************************************************)
InputKeys == {k \in Keys : k.action \in InputActions}

\* No key has two side effects, however many workers propose the same action,
\* whatever write fails and wherever the daemon crashes (Transaction::run,
\* claim_prepared).
AtMostOnce == \A k \in Keys : effects[k] <= 1

\* Two workers are never past the claim for one target: the sweep for stale
\* records never takes a record from a worker that is still running
\* (claim_prepared, recover_stale).
OneOwner ==
    \A v, w \in Workers :
        /\ pc[v] \in Owning
        /\ pc[w] \in Owning
        /\ job[v].target = job[w].target
        => v = w

\* An input that reached the pane is never filed as Failed, in memory or in the
\* file, by the worker, by a restart or by the sweep (run, recover_after_restart,
\* recover_stale): Failed licenses the reader to try again.
FailedMeansUnsent ==
    \A k \in InputKeys : \A l \in {mem, disk} :
        Audited(l, k, "Failed") => effects[k] = 0

\* A key with a side effect is on record in memory and in the file, as the
\* active transaction or with a verdict: no failed write and no crash loses it,
\* so that a restart never mistakes it for untouched (ActionStore::escalate_uncertain).
AttemptOnRecord ==
    \A k \in Keys : \A l \in {mem, disk} :
        effects[k] > 0 => IsActive(l, k) \/ Settled(l, k)

\* A key gets one verdict: a worker, the restart and a sweep that raced them
\* never file two different ones (append's compare against the active record).
OneVerdict ==
    \A k \in Keys : \A l \in {mem, disk} : \A p, q \in Terminal :
        Audited(l, k, p) /\ Audited(l, k, q) => p = q

\* What run() answered as Succeeded stays Succeeded in the file for good
\* (the ActionStore trait: "Ok means the record is durable, never merely queued").
ReportedIsDurable == \A k \in reported : Audited(disk, k, "Succeeded")

\* Unless a write failed, no job starts while a record of an earlier incarnation
\* is still active (recover_durable_actions_after_restart precedes observation).
NoOrphanAtWork ==
    \A t \in Targets : \A w \in Workers :
        /\ faults = 0
        /\ pc[w] # "idle"
        /\ mem.active[t] # None
        => mem.active[t].owner = epoch

\* A key with a verdict never becomes the active transaction again, across
\* crashes and failed writes: no blind retry (claim_prepared, load).
NeverReopened ==
    [][\A k \in Keys : Settled(mem, k) => Settled(mem', k) /\ ~IsActive(mem', k)]_vars

\* Unless a write fails, every side effect ends in a durable verdict, although
\* the daemon may crash at any step in between (run, recover_after_restart).
AttemptsAreSettled ==
    \A k \in Proposals : effects[k] > 0 ~> Settled(disk, k) \/ faults > 0

\* Where a key stands in a ledger, as the promise sees it.
VerdictIn(l, k) ==
    CASE IsActive(l, k)                  -> "open"
      [] Audited(l, k, "Succeeded")      -> "Succeeded"
      [] Audited(l, k, "Failed")         -> "Failed"
      [] Audited(l, k, "HumanRequired")  -> "HumanRequired"
      [] OTHER                           -> "none"

Verdict == [k \in Keys |-> VerdictIn(mem, k)]

Promise == INSTANCE ActionPromise WITH Keys <- Keys, InputKeys <- InputKeys, verdict <- Verdict, effects <- effects

\* The transaction implements the promise: each worker, restart or sweep step
\* maps to opening, performing or closing one key, or to nothing.
KeepsPromise == Promise!Spec
-----------------------------------------------------------------------------
(***************************************************************************)
(* The inductive invariant behind the safety properties.                   *)
(***************************************************************************)

\* The active records of a ledger are open claims of keys it knows; a Prepared
\* one stands for no side effect.
ActiveAccounted(l, e, t) ==
    l.active[t] # None =>
        /\ l.active[t].key.target = t
        /\ l.active[t].key \in l.idempotency
        /\ l.active[t].phase \in OpenPhases
        /\ l.active[t].phase = "Prepared" => e[l.active[t].key] = 0

\* The verdict of a key is unique, ends its activity and agrees with the number
\* of its side effects; a key with a side effect is known and on record.
KeyAccounted(l, e, k) ==
    /\ \A p \in Phases : Audited(l, k, p) => k \in l.idempotency
    /\ \A p \in Terminal : Audited(l, k, p) => ~IsActive(l, k)
    /\ \A p, q \in Terminal : Audited(l, k, p) /\ Audited(l, k, q) => p = q
    /\ e[k] > 0 => k \in l.idempotency /\ (IsActive(l, k) \/ Settled(l, k))
    /\ k \in InputKeys /\ Audited(l, k, "Failed") => e[k] = 0
    /\ Audited(l, k, "Succeeded") => e[k] = 1

\* The ledger l accounts for the side effects e.
Accounts(l, e) ==
    /\ \A t \in Targets : ActiveAccounted(l, e, t)
    /\ \A k \in Keys : KeyAccounted(l, e, k)

Unbegun == {"recheck", "begin"}                              \* record Prepared
Performed == {"sent", "receipt", "verify", "poll", "succeed"} \* effect happened

\* A worker past the claim owns the active record of its target, in memory and
\* in the file, in a phase that fits its stage.
WorkerInv(w) ==
    /\ pc[w] # "idle" => job[w] \in Keys
    /\ pc[w] \in Owning =>
         /\ \A l \in {mem, disk} :
              /\ IsActive(l, job[w])
              /\ pc[w] \in Performed \cup {"execute", "escalate"} =>
                   l.active[job[w].target].phase # "Prepared"
         /\ mem.active[job[w].target].owner = epoch
         /\ effects[job[w]] <= 1
         /\ pc[w] \in Unbegun \cup {"execute"} => effects[job[w]] = 0
         /\ pc[w] \in Performed => effects[job[w]] = 1
         /\ pc[w] = "terminate" /\ job[w] \in InputKeys => effects[job[w]] = 0

\* A record about to be settled as stale belongs to an earlier incarnation, and
\* if its key is still active the record has not moved since it was read.
OrphanInv(w) ==
    pc[w] = "settle" =>
        /\ orphan[w] # None
        /\ orphan[w].owner # epoch
        /\ orphan[w].key \in mem.idempotency
        /\ IsActive(mem, orphan[w].key) => mem.active[orphan[w].key.target] = orphan[w]

BootInv ==
    /\ boot # {} => \A w \in Workers : pc[w] = "idle"
    /\ \A t \in boot : mem.active[t] # None /\ mem.active[t].owner # epoch

OwnersInv == \A t \in Targets : \A l \in {mem, disk} :
    l.active[t] # None => l.active[t].owner <= epoch

\* The file is never behind the memory: a write that failed may have reached it.
DiskAhead == \A k \in Keys, p \in Phases : Audited(mem, k, p) => Audited(disk, k, p)

\* The ledgers account for the effects, the workers own what they work on, and
\* what was reported is on record.
SafetyInv ==
    /\ TypeOK
    /\ Accounts(mem, effects)
    /\ Accounts(disk, effects)
    /\ \A w \in Workers : WorkerInv(w) /\ OrphanInv(w)
    /\ OneOwner
    /\ BootInv
    /\ OwnersInv
    /\ DiskAhead
    /\ \A k \in reported : Audited(mem, k, "Succeeded") /\ Audited(disk, k, "Succeeded")
    /\ AtMostOnce

\* Unless a write failed, the records of earlier incarnations are the ones the
\* start-up sequence has yet to visit.
OrphansAtBoot ==
    faults = 0 =>
        \A t \in Targets : mem.active[t] # None /\ mem.active[t].owner # epoch => t \in boot

\* The ledger m is l after at most one key was opened, alone on its target, or
\* closed.
OneStepOn(l, m) ==
    \E k \in Keys :
        /\ \A j \in Keys \ {k} : VerdictIn(m, j) = VerdictIn(l, j)
        /\ \/ VerdictIn(m, k) = VerdictIn(l, k)
           \/ /\ VerdictIn(l, k) = "none" /\ VerdictIn(m, k) = "open"
              /\ l.active[k.target] = None
           \/ VerdictIn(l, k) = "open" /\ VerdictIn(m, k) \in Terminal

\* The file is at most one operation ahead of the memory, however many writes
\* failed in a row: each was an operation on the same ledger in memory.
OneWriteAhead == disk = mem \/ OneStepOn(mem, disk)

\* Transaction's inductive invariant: what the safety properties need, and what
\* the restart needs to find the orphans and to stay within the promise.
IInv ==
    /\ SafetyInv
    /\ OrphansAtBoot
    /\ OneWriteAhead
=============================================================================
