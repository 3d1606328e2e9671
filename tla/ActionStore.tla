---------------------------- MODULE ActionStore ----------------------------
(***************************************************************************)
(* The durable action ledger of recovery/action_store.rs: for every target *)
(* its append-only audit trail and the one active transaction, and the set *)
(* of idempotency keys ever claimed.  The operations are pure operators    *)
(* from a ledger to a ledger: the Rust methods clone the ledger, change    *)
(* the clone, write it and only then swap it in under the mutex, and the   *)
(* modules that use these operators decide how the write ends.             *)
(***************************************************************************)
EXTENDS Naturals, Sequences

CONSTANTS Targets,         \* watcher ids
          Actions,         \* action ids proposed by the recipes
          InputActions,    \* the ones that type into a pane (requires_composer)
          ProgressActions, \* the ones verified by polling (needs_progress_verification)
          Fingerprints,    \* evidence fingerprints
          None             \* absence of a record, a key or a baseline

ASSUME KindAssumption == InputActions \subseteq ProgressActions
ASSUME ProgressAssumption == ProgressActions \subseteq Actions

\* ActionPhase; Uncertain is audited but is never the phase of an active record.
Phases == {"Prepared", "Begun", "Sent", "Verifying",
           "Succeeded", "Failed", "Uncertain", "HumanRequired"}
Terminal == {"Succeeded", "Failed", "HumanRequired"}
OpenPhases == {"Prepared", "Begun", "Sent", "Verifying"}

\* The key is format!("{target}:{action_id}:{fingerprint}"): it determines the
\* target, so the store's separate target argument is key.target.
Keys == [target : Targets, action : Actions, fp : Fingerprints]

\* An ActionRecord, reduced to what the store and its callers branch on.  The
\* owner (pid and start time) is the number of the daemon incarnation.
Records == [key : Keys, owner : Nat, phase : Phases]

Ledgers == [audit       : [Targets -> Seq(Records)],
            active      : [Targets -> Records \cup {None}],
            idempotency : SUBSET Keys]

ASSUME NoneAssumption == None \notin Records /\ None \notin Keys

EmptyLedger == [audit       |-> [t \in Targets |-> <<>>],
                active      |-> [t \in Targets |-> None],
                idempotency |-> {}]

Prepared(k, owner) == [key |-> k, owner |-> owner, phase |-> "Prepared"]
InPhase(r, phase) == [r EXCEPT !.phase = phase]

-----------------------------------------------------------------------------
\* Mutants: the claim that forgets one of its two checks.
CanClaimAnyKey(l, k) == l.active[k.target] = None
CanClaimBusyTarget(l, k) == k \notin l.idempotency

\* claim_prepared answers false, and writes nothing, unless CanClaim.
CanClaim(l, k) ==
    /\ l.active[k.target] = None
    /\ k \notin l.idempotency

ClaimPrepared(l, r) ==
    [audit       |-> [l.audit EXCEPT ![r.key.target] = Append(@, r)],
     active      |-> [l.active EXCEPT ![r.key.target] = r],
     idempotency |-> l.idempotency \cup {r.key}]

\* append and escalate_uncertain compare the active record's key first.
OwnsActive(l, r) ==
    /\ l.active[r.key.target] # None
    /\ l.active[r.key.target].key = r.key

\* Mutant: is_terminal overlooks Failed.
AppendFailedOpen(l, r) ==
    [audit       |-> [l.audit EXCEPT ![r.key.target] = Append(@, r)],
     active      |-> [l.active EXCEPT ![r.key.target] =
                         IF r.phase \in Terminal \ {"Failed"} THEN None ELSE r],
     idempotency |-> l.idempotency]

AppendRecord(l, r) ==
    [audit       |-> [l.audit EXCEPT ![r.key.target] = Append(@, r)],
     active      |-> [l.active EXCEPT ![r.key.target] =
                         IF r.phase \in Terminal THEN None ELSE r],
     idempotency |-> l.idempotency]

\* Mutant: the escalation that files only the uncertainty.
EscalateUnfinished(l, r) ==
    [audit       |-> [l.audit EXCEPT ![r.key.target] = Append(@, InPhase(r, "Uncertain"))],
     active      |-> [l.active EXCEPT ![r.key.target] = None],
     idempotency |-> l.idempotency]

EscalateUncertain(l, r) ==
    [audit       |-> [l.audit EXCEPT ![r.key.target] =
                         Append(Append(@, InPhase(r, "Uncertain")),
                                InPhase(r, "HumanRequired"))],
     active      |-> [l.active EXCEPT ![r.key.target] = None],
     idempotency |-> l.idempotency]

\* Mutants: the verdict that takes Begun for harmless, and one whose phase no
\* reader of the ledger knows.
OrphanVerdictRetries(r) ==
    IF r.phase \in {"Prepared", "Begun"} THEN "Failed" ELSE "HumanRequired"
OrphanVerdictUnknown(r) == IF r.phase = "Prepared" THEN "Cancelled" ELSE "HumanRequired"

\* The phase a restart or an expired lease gives an orphaned record: a claim
\* that was only prepared had no side effect, anything later may have had one.
OrphanVerdict(r) == IF r.phase = "Prepared" THEN "Failed" ELSE "HumanRequired"

-----------------------------------------------------------------------------
\* The audit trail s holds a record of key k in the given phase.
Logged(s, k, phase) == \E i \in DOMAIN s : s[i].key = k /\ s[i].phase = phase

Audited(l, k, phase) == Logged(l.audit[k.target], k, phase)

Settled(l, k) == \E phase \in Terminal : Audited(l, k, phase)

IsActive(l, k) ==
    /\ l.active[k.target] # None
    /\ l.active[k.target].key = k
=============================================================================
