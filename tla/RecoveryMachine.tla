-------------------------- MODULE RecoveryMachine --------------------------
(***************************************************************************)
(* The per-watcher recovery machine of recovery/state_machine.rs.  Every   *)
(* command is a guard (Can...) and the machine it leaves; a command whose  *)
(* guard fails answers Err, and its callers, which always work on a clone, *)
(* then drop the clone.  The machine's audit list is left out.             *)
(***************************************************************************)
EXTENDS Naturals

CONSTANTS Evidence,      \* evidence fingerprints
          MaxAttempts,   \* Budget::max_attempts
          MaxWait,       \* Budget::max_cumulative_wait
          MaxPlanner,    \* Budget::planner_calls
          Cooldown,      \* Budget::cooldown, in ticks of the clock
          None           \* Option::None

ASSUME BudgetAssumption ==
    MaxAttempts \in Nat /\ MaxWait \in Nat /\ MaxPlanner \in Nat /\ Cooldown \in Nat
ASSUME AbsentAssumption == None \notin Nat /\ None \notin Evidence

RecoveryStates == {"NeedsRevalidation", "Observing", "Confirmed", "Acting",
                   "Waiting", "Verifying", "Recovered", "HumanRequired", "Stopped"}

Machines == [st : RecoveryStates,
             attempts : Nat,
             waited : Nat,
             last : Nat \cup {None},
             completed : SUBSET Evidence,
             current : Evidence \cup {None},
             planner : Nat]

NewMachine == [st        |-> "NeedsRevalidation",
               attempts  |-> 0,
               waited    |-> 0,
               last      |-> None,
               completed |-> {},
               current   |-> None,
               planner   |-> 0]

\* transition(): the eight moves the machine accepts.
Transitions == {<<"NeedsRevalidation", "Observing">>, <<"Observing", "Confirmed">>,
                <<"Confirmed", "Acting">>, <<"Acting", "Waiting">>,
                <<"Recovered", "Observing">>, <<"Acting", "Verifying">>,
                <<"Waiting", "Confirmed">>, <<"Verifying", "Recovered">>}
CanMove(m, next) == <<m.st, next>> \in Transitions

CanRevalidate(m) == CanMove(m, "Observing")
Revalidated(m) == [m EXCEPT !.st = "Observing"]

CanConfirm(m) == CanMove(m, "Confirmed")
Confirmed(m, fp) == [m EXCEPT !.st = "Confirmed", !.current = fp]

\* u64::saturating_sub
Elapsed(now, last) == IF now > last THEN now - last ELSE 0

\* Mutants: the begin that forgets the completed fingerprints, and the one that
\* forgets the cooldown.
CanBeginAgain(m, fp, now) ==
    /\ m.st # "NeedsRevalidation"
    /\ m.current = fp
    /\ m.attempts < MaxAttempts
    /\ m.last # None => Elapsed(now, m.last) >= Cooldown
    /\ CanMove(m, "Acting")
CanBeginHot(m, fp, now) ==
    /\ m.st # "NeedsRevalidation"
    /\ fp \notin m.completed
    /\ m.current = fp
    /\ m.attempts < MaxAttempts
    /\ CanMove(m, "Acting")

CanBegin(m, fp, now) ==
    /\ m.st # "NeedsRevalidation"
    /\ fp \notin m.completed
    /\ m.current = fp
    /\ m.attempts < MaxAttempts
    /\ m.last # None => Elapsed(now, m.last) >= Cooldown
    /\ CanMove(m, "Acting")
\* Mutant: an attempt that is not counted.
BegunUncounted(m, now) == [m EXCEPT !.st = "Acting", !.last = now]

Begun(m, now) == [m EXCEPT !.st = "Acting", !.attempts = @ + 1, !.last = now]

\* Mutant: the wait that was granted is not added up.
FailedUncounted(m, wait) == [m EXCEPT !.st = "Confirmed"]

\* action_failed goes to Waiting and straight on to Confirmed.
CanFail(m, fp, wait) ==
    /\ m.current = fp
    /\ m.waited + wait <= MaxWait
    /\ CanMove(m, "Waiting")
Failed(m, wait) == [m EXCEPT !.st = "Confirmed", !.waited = @ + wait]

\* action_succeeded goes to Verifying and straight on to Recovered.
CanSucceed(m, fp) == m.current = fp /\ CanMove(m, "Verifying")
Succeeded(m, fp) == [m EXCEPT !.st = "Recovered", !.completed = @ \cup {fp}]

CanRearm(m) == m.st = "Recovered"
Rearmed(m) == [m EXCEPT !.st = "Observing", !.current = None]

CanReserve(m) == m.planner < MaxPlanner
Reserved(m) == [m EXCEPT !.planner = @ + 1]

\* Mutant: a restart that starts the recovery over.
RestoredAnew(m) == NewMachine

\* restore_for_restart keeps the budgets and what was completed.
Restored(m) == [m EXCEPT !.st = "NeedsRevalidation"]
=============================================================================
