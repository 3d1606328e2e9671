-------------------------- MODULE CoordinatorProofs -------------------------
(***************************************************************************)
(* The budgets, the cooldown and the memory of completed actions hold for  *)
(* every budget, every sequence of commands, restarts and failed writes.   *)
(***************************************************************************)
EXTENDS Coordinator, TLAPS

\* Every command the coordinator applies leaves a machine.
LEMMA CommandTypes ==
    ASSUME NEW m \in Machines, NEW fp \in Evidence, NEW t \in Nat
    PROVE  /\ Revalidated(m) \in Machines
           /\ Confirmed(m, fp) \in Machines
           /\ Begun(m, t) \in Machines
           /\ Failed(m, t) \in Machines
           /\ Succeeded(m, fp) \in Machines
           /\ Rearmed(m) \in Machines
           /\ Reserved(m) \in Machines
           /\ Restored(m) \in Machines
<1>1. Revalidated(m) \in Machines BY DEF Machines, RecoveryStates, Revalidated
<1>2. Confirmed(m, fp) \in Machines BY DEF Machines, RecoveryStates, Confirmed
<1> m.attempts + 1 \in Nat /\ m.waited + t \in Nat BY DEF Machines
<1>3. Begun(m, t) \in Machines BY DEF Machines, RecoveryStates, Begun
<1>4. Failed(m, t) \in Machines BY DEF Machines, RecoveryStates, Failed
<1>5. Succeeded(m, fp) \in Machines BY DEF Machines, RecoveryStates, Succeeded
<1>6. Rearmed(m) \in Machines BY DEF Machines, RecoveryStates, Rearmed
<1>7. Reserved(m) \in Machines BY DEF Machines, RecoveryStates, Reserved
<1>8. Restored(m) \in Machines BY DEF Machines, RecoveryStates, Restored
<1> QED BY <1>1, <1>2, <1>3, <1>4, <1>5, <1>6, <1>7, <1>8

\* The clock reads a natural number, and reading it keeps ClockInv's bounds.
LEMMA ClockTypes ==
    ASSUME TypeOK, ClockInv
    PROVE  /\ Mono \in Nat
           /\ ClockRead => origin' \in Nat /\ origin' <= now /\ origin' + Mono = now
  BY AbsentAssumption DEF TypeOK, ClockInv, Mono, ClockRead

\* A fresh machine has used nothing, in memory and in the file.
LEMMA InitBudget == Init => BudgetInv
  BY BudgetAssumption, AbsentAssumption
  DEF Init, BudgetInv, TypeOK, Remembers, ClockInv, NewMachine, Machines, RecoveryStates

\* A command that leaves the budgets, the attempt and the completed
\* fingerprints of the machine alone preserves the invariant, however its
\* write ends.
LEMMA ApplyStep ==
    ASSUME BudgetInv, NEW next \in Machines, Apply(next),
           next.attempts = machine.attempts, next.waited = machine.waited,
           next.completed = machine.completed, next.last = machine.last
    PROVE  BudgetInv'
<1>1. CASE Persisted(next)
  BY <1>1 DEF BudgetInv, TypeOK, Remembers, ClockInv, Apply, Persisted, history
<1>2. CASE Unpersisted(next)
  BY <1>2 DEF BudgetInv, TypeOK, Remembers, ClockInv, Apply, Unpersisted, history
<1> QED BY <1>1, <1>2 DEF Apply

\* The commands that spend nothing: they are ApplySteps.
LEMMA QuietCommands ==
    ASSUME BudgetInv,
           \/ Revalidate
           \/ \E fp \in Evidence : Confirm(fp)
           \/ RearmAfterWait
           \/ ReservePlanner
    PROVE  BudgetInv'
<1> machine \in Machines BY DEF BudgetInv, TypeOK
<1>1. CASE Revalidate
  <2> Revalidated(machine) \in Machines BY DEF Machines, RecoveryStates, Revalidated
  <2> QED BY <1>1, ApplyStep DEF Revalidate, Revalidated, Machines
<1>2. ASSUME NEW fp \in Evidence, Confirm(fp) PROVE BudgetInv'
  <2> Confirmed(machine, fp) \in Machines BY DEF Machines, RecoveryStates, Confirmed
  <2> QED BY <1>2, ApplyStep DEF Confirm, Confirmed, Machines
<1>3. CASE RearmAfterWait
  <2> Rearmed(machine) \in Machines BY DEF Machines, RecoveryStates, Rearmed
  <2> QED BY <1>3, ApplyStep DEF RearmAfterWait, Rearmed, Machines
<1>4. CASE ReservePlanner
  <2> Reserved(machine) \in Machines BY DEF Machines, RecoveryStates, Reserved
  <2> QED BY <1>4, ApplyStep DEF ReservePlanner, Reserved, Machines
<1> QED BY <1>1, <1>2, <1>3, <1>4

\* begin_action: the attempt is counted, and timed, in the write that grants it.
LEMMA BeginStep ==
    ASSUME BudgetInv, NEW fp \in Evidence, BeginAction(fp)
    PROVE  BudgetInv'
<1> DEFINE next == Begun(machine, Mono)
<1> machine \in Machines BY DEF BudgetInv, TypeOK
<1>1. /\ Mono \in Nat
      /\ origin' \in Nat /\ origin' <= now /\ origin' + Mono = now
  BY ClockTypes DEF BudgetInv, BeginAction
<1>2. /\ next \in Machines
      /\ next.attempts = machine.attempts + 1
      /\ next.attempts <= MaxAttempts
      /\ next.waited = machine.waited
      /\ next.completed = machine.completed
      /\ next.last = Mono
  <2>1. machine.attempts < MaxAttempts BY DEF BeginAction, CanBegin
  <2>2. next \in Machines BY <1>1, CommandTypes
  <2>3. /\ next.attempts = machine.attempts + 1
        /\ next.waited = machine.waited
        /\ next.completed = machine.completed
        /\ next.last = Mono
    BY DEF Begun, Machines
  <2>4. next.attempts <= MaxAttempts
    BY <2>1, <2>3, BudgetAssumption DEF Machines
  <2> QED BY <2>2, <2>3, <2>4
<1>3. UNCHANGED <<now, restarts, granted, done>> BY DEF BeginAction
<1>4. machine.attempts \in Nat BY DEF Machines
<1> HIDE DEF next
<1>5. CASE Persisted(next) /\ begins' = begins + 1 /\ attempted' = now
  <2>1. machine' = next /\ disk' = next BY <1>5 DEF Persisted
  <2>2. begins \in Nat /\ begins <= machine.attempts /\ now \in Nat
    BY DEF BudgetInv, TypeOK, Remembers
  <2>3. TypeOK' BY <1>1, <1>2, <1>3, <1>5 DEF BudgetInv, TypeOK, Persisted
  <2>4. begins' <= next.attempts BY <1>2, <1>4, <1>5, <2>2
  <2>5. attempted' = now' /\ machine'.last = Mono /\ now' = now BY <1>2, <1>3, <1>5, <2>1
  <2>6. next.last # None BY <1>1, <1>2, AbsentAssumption
  <2>7. Remembers(machine)' /\ Remembers(disk)'
    BY <1>2, <1>3, <2>1, <2>4, <2>6 DEF BudgetInv, Remembers
  <2>8. ClockInv'
    <3>1. attempted' <= origin' + machine'.last
      <4>1. origin' + machine'.last = now BY <1>1, <2>5
      <4>2. attempted' = now BY <2>5
      <4> QED BY <2>2, <4>1, <4>2
    <3>2. origin' <= now' /\ attempted' <= now' BY <1>1, <2>2, <2>5
    <3> QED BY <3>1, <3>2 DEF ClockInv
  <2> QED BY <2>3, <2>7, <2>8 DEF BudgetInv
<1>6. CASE Unpersisted(next) /\ UNCHANGED <<begins, attempted>>
  <2>1. TypeOK'
    BY <1>1, <1>2, <1>3, <1>6 DEF BudgetInv, TypeOK, Unpersisted
  <2>2. Remembers(machine)' /\ Remembers(disk)'
    BY <1>1, <1>2, <1>3, <1>4, <1>6, AbsentAssumption
    DEF BudgetInv, TypeOK, Remembers, Unpersisted
  <2>3. ClockInv'
    BY <1>1, <1>3, <1>6, AbsentAssumption
    DEF BudgetInv, TypeOK, Remembers, ClockInv, Unpersisted, BeginAction, ClockRead, Machines
  <2> QED BY <2>1, <2>2, <2>3 DEF BudgetInv
<1> QED BY <1>5, <1>6 DEF BeginAction, next

\* ActionFailed adds the wait to the budget it checked, and no attempt.
LEMMA FailStep ==
    ASSUME BudgetInv, NEW fp \in Evidence, NEW wait \in Waits, ActionFailed(fp, wait)
    PROVE  BudgetInv'
<1> DEFINE next == Failed(machine, wait)
<1> machine \in Machines /\ wait \in Nat BY WaitAssumption DEF BudgetInv, TypeOK
<1>1. /\ next \in Machines
      /\ next.attempts = machine.attempts
      /\ next.waited = machine.waited + wait
      /\ next.waited <= MaxWait
      /\ next.completed = machine.completed
      /\ next.last = machine.last
  <2>1. machine.waited + wait <= MaxWait BY DEF ActionFailed, CanFail
  <2> QED BY <2>1, CommandTypes DEF Failed, Machines
<1>2. CASE Persisted(next) /\ granted' = granted + wait
  BY <1>1, <1>2 DEF BudgetInv, TypeOK, Remembers, ClockInv, Persisted, ActionFailed, Machines
<1>3. CASE Unpersisted(next) /\ UNCHANGED granted
  BY <1>1, <1>3 DEF BudgetInv, TypeOK, Remembers, ClockInv, Unpersisted, ActionFailed, Machines
<1> QED BY <1>2, <1>3 DEF ActionFailed

\* ActionSucceeded remembers the fingerprint in the write that completes it.
LEMMA SucceedStep ==
    ASSUME BudgetInv, NEW fp \in Evidence, ActionSucceeded(fp)
    PROVE  BudgetInv'
<1> DEFINE next == Succeeded(machine, fp)
<1> machine \in Machines BY DEF BudgetInv, TypeOK
<1>1. /\ next \in Machines
      /\ next.attempts = machine.attempts
      /\ next.waited = machine.waited
      /\ next.completed = machine.completed \cup {fp}
      /\ next.last = machine.last
  BY CommandTypes DEF Succeeded, Machines
<1>2. CASE Persisted(next) /\ done' = done \cup {fp}
  BY <1>1, <1>2 DEF BudgetInv, TypeOK, Remembers, ClockInv, Persisted, ActionSucceeded
<1>3. CASE Unpersisted(next) /\ UNCHANGED done
  BY <1>1, <1>3 DEF BudgetInv, TypeOK, Remembers, ClockInv, Unpersisted, ActionSucceeded
<1> QED BY <1>2, <1>3 DEF ActionSucceeded

\* Time passes, the clock is first read, the daemon restarts.
LEMMA EnvironmentStep ==
    ASSUME BudgetInv, Tick \/ StartClock \/ Restart
    PROVE  BudgetInv'
<1>1. CASE Tick
  BY <1>1, AbsentAssumption DEF Tick, BudgetInv, TypeOK, Remembers, ClockInv, history
<1>2. CASE StartClock
  <2>1. origin' = now BY <1>2 DEF StartClock, ClockRead
  <2> QED
    BY <1>2, <2>1, AbsentAssumption
    DEF StartClock, BudgetInv, TypeOK, Remembers, ClockInv, history, Machines
<1>3. CASE Restart
  <2> disk \in Machines BY DEF BudgetInv, TypeOK
  <2>1. /\ Restored(disk) \in Machines
        /\ Restored(disk).attempts = disk.attempts
        /\ Restored(disk).waited = disk.waited
        /\ Restored(disk).completed = disk.completed
        /\ Restored(disk).last = disk.last
    BY DEF Restored, Machines, RecoveryStates
  <2> QED
    BY <1>3, <2>1, AbsentAssumption
    DEF Restart, BudgetInv, TypeOK, Remembers, ClockInv, history
<1> QED BY <1>1, <1>2, <1>3

\* Every step keeps the invariant, restarts from the file included.
LEMMA NextBudget == BudgetInv /\ [Next]_vars => BudgetInv'
<1> SUFFICES ASSUME BudgetInv, [Next]_vars PROVE BudgetInv' OBVIOUS
<1>1. CASE UNCHANGED vars
  BY <1>1 DEF vars, BudgetInv, TypeOK, Remembers, ClockInv
<1>2. CASE Next
  BY <1>2, QuietCommands, BeginStep, FailStep, SucceedStep, EnvironmentStep DEF Next
<1> QED BY <1>1, <1>2

\* BudgetInv is an invariant of the coordinator: both copies of the machine
\* remember every attempt, wait and success, and none earlier than it was.
THEOREM Remembered == Spec => []BudgetInv
  BY InitBudget, NextBudget, PTL DEF Spec

\* The budget of attempts and of waits holds through restarts and failed writes.
THEOREM BudgetRespected == Spec => []BudgetHolds
<1>1. BudgetInv => BudgetHolds
  BY BudgetAssumption DEF BudgetInv, BudgetHolds, Remembers, TypeOK, Machines
<1> QED BY <1>1, Remembered, PTL

\* A begun attempt is one begin_action granted.
LEMMA OnlyBeginBegins ==
    ASSUME BudgetInv, [Next]_vars, begins' > begins
    PROVE  \E fp \in Evidence : CanBegin(machine, fp, Mono)
<1>1. begins' # begins BY DEF BudgetInv, TypeOK
<1>2. Next BY <1>1 DEF vars
<1> QED
  BY <1>1, <1>2
  DEF Next, Revalidate, Confirm, RearmAfterWait, ReservePlanner, Apply, BeginAction,
      ActionSucceeded, ActionFailed, StartClock, Tick, Restart, history

\* Two attempts are a cooldown apart in true time, whichever daemons made them
\* (begin_action and the lazily started monotonic clock).
THEOREM CooldownRespected == Spec => CooldownHolds
<1>1. BudgetInv /\ [Next]_vars =>
        [begins' > begins /\ attempted # None => now - attempted >= Cooldown]_vars
  <2> SUFFICES ASSUME BudgetInv, [Next]_vars, begins' > begins, attempted # None
               PROVE  now - attempted >= Cooldown
    OBVIOUS
  <2>1. PICK fp \in Evidence : CanBegin(machine, fp, Mono) BY OnlyBeginBegins
  <2>2. machine.last \in Nat /\ Elapsed(Mono, machine.last) >= Cooldown
    BY <2>1 DEF CanBegin, BudgetInv, Remembers, TypeOK, Machines
  <2>3. CASE origin = None
    <3>1. Elapsed(Mono, machine.last) = 0 BY <2>2, <2>3 DEF Elapsed, Mono
    <3> QED
      BY <2>2, <3>1, BudgetAssumption DEF BudgetInv, TypeOK, ClockInv
  <2>4. CASE origin # None
    <3>1. attempted <= origin + machine.last BY <2>4 DEF BudgetInv, ClockInv
    <3>2. origin \in Nat /\ now \in Nat /\ attempted \in Nat /\ attempted <= now
      BY <2>4 DEF BudgetInv, TypeOK, ClockInv
    <3> QED
      BY <2>2, <2>4, <3>1, <3>2, BudgetAssumption DEF Elapsed, Mono
  <2> QED BY <2>3, <2>4
<1> QED BY <1>1, Remembered, PTL DEF Spec, CooldownHolds

\* What was reported successful is never begun again, in this or a later daemon.
THEOREM SuccessNotRepeated == Spec => NoRepeat
<1>1. BudgetInv /\ [Next]_vars => [begins' > begins => machine.current \notin done]_vars
  <2> SUFFICES ASSUME BudgetInv, [Next]_vars, begins' > begins
               PROVE  machine.current \notin done
    OBVIOUS
  <2>1. PICK fp \in Evidence : CanBegin(machine, fp, Mono) BY OnlyBeginBegins
  <2> QED BY <2>1 DEF CanBegin, BudgetInv, Remembers
<1> QED BY <1>1, Remembered, PTL DEF Spec, NoRepeat
=============================================================================
