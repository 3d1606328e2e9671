---------------------------- MODULE Coordinator ----------------------------
(***************************************************************************)
(* recovery/coordinator.rs over Registry::apply_recovery_transition: each  *)
(* command is applied to a clone of the watcher, the clone is written, and *)
(* only then does it replace the one in memory.  The clock is the          *)
(* process's monotonic clock, which starts at zero on its first use in     *)
(* every daemon, while the machine's last_attempt_mono is durable.         *)
(***************************************************************************)
EXTENDS RecoveryMachine

CONSTANTS Waits,        \* waits ActionFailed may ask for
          MaxNow,       \* bound on elapsed time
          MaxRestarts,  \* bound on daemon restarts
          MaxFaults     \* bound on failed registry writes

ASSUME WaitAssumption == Waits \subseteq Nat
ASSUME CapAssumption == MaxNow \in Nat /\ MaxRestarts \in Nat /\ MaxFaults \in Nat

VARIABLES machine,    \* watcher.recovery in memory
          disk,       \* watcher.recovery in the registry file
          now,        \* true time
          origin,     \* true time of the clock's zero; None before its first use
          restarts,
          faults,
          begins,     \* history: begin_action answered Ok this often
          attempted,  \* history: true time of the last one
          granted,    \* history: waits action_failed answered Ok for
          done        \* history: fingerprints action_succeeded answered Ok for

history == <<begins, attempted, granted, done>>
vars == <<machine, disk, now, origin, restarts, faults, begins, attempted, granted, done>>

TypeOK ==
    /\ machine \in Machines
    /\ disk \in Machines
    /\ now \in Nat
    /\ origin \in Nat \cup {None}
    /\ restarts \in Nat
    /\ faults \in Nat
    /\ begins \in Nat
    /\ attempted \in Nat \cup {None}
    /\ granted \in Nat
    /\ done \in SUBSET Evidence

Init ==
    /\ machine = NewMachine
    /\ disk = NewMachine
    /\ now = 0
    /\ origin = None
    /\ restarts = 0
    /\ faults = 0
    /\ begins = 0
    /\ attempted = None
    /\ granted = 0
    /\ done = {}

\* RECOVERY_CLOCK_ORIGIN.elapsed(), in whole ticks.
Mono == IF origin = None THEN 0 ELSE now - origin
ClockRead == origin' = IF origin = None THEN now ELSE origin

-----------------------------------------------------------------------------
\* apply_recovery_transition: a write that fails may have reached the file.
Persisted(next) ==
    /\ machine' = next
    /\ disk' = next
    /\ UNCHANGED faults
Unpersisted(next) ==
    /\ faults < MaxFaults
    /\ faults' = faults + 1
    /\ disk' \in {disk, next}
    /\ UNCHANGED machine

Apply(next) ==
    /\ Persisted(next) \/ Unpersisted(next)
    /\ UNCHANGED <<now, origin, restarts>>
    /\ UNCHANGED history

Revalidate == CanRevalidate(machine) /\ Apply(Revalidated(machine))
Confirm(fp) == CanConfirm(machine) /\ Apply(Confirmed(machine, fp))
RearmAfterWait == CanRearm(machine) /\ Apply(Rearmed(machine))
ReservePlanner == CanReserve(machine) /\ Apply(Reserved(machine))

BeginAction(fp) ==
    /\ CanBegin(machine, fp, Mono)
    /\ LET next == Begun(machine, Mono)
       IN  \/ /\ Persisted(next)
              /\ begins' = begins + 1
              /\ attempted' = now
           \/ Unpersisted(next) /\ UNCHANGED <<begins, attempted>>
    /\ ClockRead
    /\ UNCHANGED <<now, restarts, granted, done>>

ActionFailed(fp, wait) ==
    /\ CanFail(machine, fp, wait)
    /\ LET next == Failed(machine, wait)
       IN  \/ Persisted(next) /\ granted' = granted + wait
           \/ Unpersisted(next) /\ UNCHANGED granted
    /\ UNCHANGED <<now, origin, restarts, begins, attempted, done>>

ActionSucceeded(fp) ==
    /\ CanSucceed(machine, fp)
    /\ LET next == Succeeded(machine, fp)
       IN  \/ Persisted(next) /\ done' = done \cup {fp}
           \/ Unpersisted(next) /\ UNCHANGED done
    /\ UNCHANGED <<now, origin, restarts, begins, attempted, granted>>

\* Any other recovery work of the process may be the first to read the clock.
StartClock ==
    /\ origin = None
    /\ ClockRead
    /\ UNCHANGED <<machine, disk, now, restarts, faults>>
    /\ UNCHANGED history

Tick ==
    /\ now < MaxNow
    /\ now' = now + 1
    /\ UNCHANGED <<machine, disk, origin, restarts, faults>>
    /\ UNCHANGED history

\* The daemon ends at any point and load_inner restores the machine and writes
\* it back; a start whose write fails leaves no daemon and is tried again.
Restart ==
    /\ restarts < MaxRestarts
    /\ restarts' = restarts + 1
    /\ machine' = Restored(disk)
    /\ disk' = Restored(disk)
    /\ origin' = None
    /\ UNCHANGED <<now, faults>>
    /\ UNCHANGED history

Next ==
    \/ Revalidate
    \/ \E fp \in Evidence : Confirm(fp) \/ BeginAction(fp) \/ ActionSucceeded(fp)
    \/ \E fp \in Evidence, wait \in Waits : ActionFailed(fp, wait)
    \/ RearmAfterWait
    \/ ReservePlanner
    \/ StartClock
    \/ Tick
    \/ Restart

Spec == Init /\ [][Next]_vars

-----------------------------------------------------------------------------
\* The attempts and waits that were answered Ok stay within the budget through
\* restarts and failed writes: none is forgotten by the file (begin_action,
\* action_failed, restore_for_restart).
BudgetHolds ==
    /\ begins <= MaxAttempts
    /\ granted <= MaxWait

\* Two attempts are a cooldown of true time apart although the clock starts at
\* zero in every daemon while the time of the last attempt is durable
\* (threat-model.md: "monotonic time governs cooldowns").
CooldownHolds ==
    [][begins' > begins /\ attempted # None => now - attempted >= Cooldown]_vars

\* An action that was reported successful is never begun again for the same
\* evidence, in this or a later daemon (begin_action's "duplicate action").
NoRepeat ==
    [][begins' > begins => machine.current \notin done]_vars

-----------------------------------------------------------------------------
\* What both copies of the machine know of the history.
Remembers(m) ==
    /\ begins <= m.attempts
    /\ m.attempts <= MaxAttempts
    /\ granted <= m.waited
    /\ m.waited <= MaxWait
    /\ done \subseteq m.completed
    /\ attempted # None => m.last # None

\* The durable time of the last attempt, read on this daemon's clock, is never
\* earlier than the attempt was.
ClockInv ==
    /\ origin # None => origin <= now
    /\ attempted # None => attempted <= now
    /\ attempted # None /\ origin # None => attempted <= origin + machine.last

\* The inductive invariant of the coordinator.
BudgetInv == TypeOK /\ Remembers(machine) /\ Remembers(disk) /\ ClockInv
=============================================================================
