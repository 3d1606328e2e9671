------------------------- MODULE TransactionProofs -------------------------
(***************************************************************************)
(* The safety properties of the recovery transaction for any number of     *)
(* workers, targets, actions, crashes and failed writes: SafetyInv is inductive *)
(* and implies them.  The argument: every write of the file is one         *)
(* operation on the ledger in memory, each operation keeps the ledger      *)
(* accounting for the side effects, and only the worker that owns a        *)
(* target's active record, or the settling of a record that no living      *)
(* worker owns, changes that target.                                       *)
(***************************************************************************)
EXTENDS Transaction, TLAPS

-----------------------------------------------------------------------------
(* What the operations of the ledger preserve and add, for every ledger.    *)

\* Every operation of action_store.rs maps a ledger to a ledger.
LEMMA LedgerType ==
    ASSUME NEW l \in Ledgers, NEW r \in Records
    PROVE  /\ ClaimPrepared(l, r) \in Ledgers
           /\ AppendRecord(l, r) \in Ledgers
           /\ EscalateUncertain(l, r) \in Ledgers
<1>1. r.key \in Keys /\ r.key.target \in Targets
  BY DEF Records, Keys
<1>2. InPhase(r, "Uncertain") \in Records /\ InPhase(r, "HumanRequired") \in Records
  BY DEF Records, InPhase, Phases
<1>3. l.audit[r.key.target] \in Seq(Records)
  BY <1>1 DEF Ledgers
<1>4. Append(l.audit[r.key.target], r) \in Seq(Records)
  BY <1>3
<1>5. Append(Append(l.audit[r.key.target], InPhase(r, "Uncertain")),
             InPhase(r, "HumanRequired")) \in Seq(Records)
  BY <1>2, <1>3
<1>6. ClaimPrepared(l, r) \in Ledgers
  BY <1>1, <1>4 DEF Ledgers, ClaimPrepared
<1>7. AppendRecord(l, r) \in Ledgers
  BY <1>1, <1>4 DEF Ledgers, AppendRecord
<1>8. EscalateUncertain(l, r) \in Ledgers
  BY <1>1, <1>5 DEF Ledgers, EscalateUncertain
<1> QED BY <1>6, <1>7, <1>8

\* Appending to the audit trail adds exactly the appended record.
LEMMA AuditAppend ==
    ASSUME NEW s \in Seq(Records), NEW r \in Records, NEW k, NEW p
    PROVE  Logged(Append(s, r), k, p) <=> Logged(s, k, p) \/ (k = r.key /\ p = r.phase)
<1>1. DOMAIN s = 1 .. Len(s) /\ Len(s) \in Nat
  OBVIOUS
<1>2. DOMAIN Append(s, r) = 1 .. (Len(s) + 1)
  OBVIOUS
<1>3. \A i \in 1 .. Len(s) : Append(s, r)[i] = s[i]
  OBVIOUS
<1>4. Append(s, r)[Len(s) + 1] = r
  OBVIOUS
<1>5. \A i \in 1 .. (Len(s) + 1) : i \in 1 .. Len(s) \/ i = Len(s) + 1
  BY <1>1
<1>6. Len(s) + 1 \in 1 .. (Len(s) + 1) /\ \A i \in 1 .. Len(s) : i \in 1 .. (Len(s) + 1)
  BY <1>1
<1> QED BY <1>1, <1>2, <1>3, <1>4, <1>5, <1>6 DEF Logged

\* claim_prepared and append audit their record and nothing else.
LEMMA AuditOfAppend ==
    ASSUME NEW l \in Ledgers, NEW r \in Records, NEW k \in Keys, NEW p
    PROVE  /\ Audited(AppendRecord(l, r), k, p) <=> Audited(l, k, p) \/ (k = r.key /\ p = r.phase)
           /\ Audited(ClaimPrepared(l, r), k, p) <=> Audited(l, k, p) \/ (k = r.key /\ p = r.phase)
<1>1. r.key \in Keys /\ r.key.target \in Targets /\ k.target \in Targets
  BY DEF Records, Keys
<1>2. l.audit[k.target] \in Seq(Records) /\ DOMAIN l.audit = Targets
  BY <1>1 DEF Ledgers
<1>3. AppendRecord(l, r).audit[k.target] =
        IF k.target = r.key.target THEN Append(l.audit[k.target], r) ELSE l.audit[k.target]
  BY <1>1, <1>2 DEF AppendRecord
<1>4. ClaimPrepared(l, r).audit[k.target] =
        IF k.target = r.key.target THEN Append(l.audit[k.target], r) ELSE l.audit[k.target]
  BY <1>1, <1>2 DEF ClaimPrepared
<1>5. CASE k.target = r.key.target
  <2>1. Logged(Append(l.audit[k.target], r), k, p) <=>
          Logged(l.audit[k.target], k, p) \/ (k = r.key /\ p = r.phase)
    BY <1>2, AuditAppend
  <2> QED BY <1>3, <1>4, <1>5, <2>1 DEF Audited
<1>6. CASE k.target # r.key.target
  BY <1>3, <1>4, <1>6 DEF Audited
<1> QED BY <1>5, <1>6

\* escalate_uncertain audits the uncertainty and the hand-off, and nothing else.
LEMMA AuditOfEscalate ==
    ASSUME NEW l \in Ledgers, NEW r \in Records, NEW k \in Keys, NEW p
    PROVE  Audited(EscalateUncertain(l, r), k, p) <=>
               Audited(l, k, p) \/ (k = r.key /\ p \in {"Uncertain", "HumanRequired"})
<1> DEFINE u == InPhase(r, "Uncertain")
           h == InPhase(r, "HumanRequired")
<1>1. r.key \in Keys /\ r.key.target \in Targets /\ k.target \in Targets
  BY DEF Records, Keys
<1>2. l.audit[k.target] \in Seq(Records) /\ DOMAIN l.audit = Targets
  BY <1>1 DEF Ledgers
<1>3. /\ u \in Records /\ u.key = r.key /\ u.phase = "Uncertain"
      /\ h \in Records /\ h.key = r.key /\ h.phase = "HumanRequired"
  BY DEF Records, InPhase, Phases
<1>4. EscalateUncertain(l, r).audit[k.target] =
        IF k.target = r.key.target THEN Append(Append(l.audit[k.target], u), h)
                                   ELSE l.audit[k.target]
  BY <1>1, <1>2 DEF EscalateUncertain
<1>5. Append(l.audit[k.target], u) \in Seq(Records)
  BY <1>2, <1>3
<1> HIDE DEF u, h
<1>6. CASE k.target = r.key.target
  <2>1. Logged(Append(Append(l.audit[k.target], u), h), k, p) <=>
          Logged(Append(l.audit[k.target], u), k, p) \/ (k = h.key /\ p = h.phase)
    BY <1>3, <1>5, AuditAppend
  <2>2. Logged(Append(l.audit[k.target], u), k, p) <=>
          Logged(l.audit[k.target], k, p) \/ (k = u.key /\ p = u.phase)
    BY <1>2, <1>3, AuditAppend
  <2> QED BY <1>3, <1>4, <1>6, <2>1, <2>2 DEF Audited
<1>7. CASE k.target # r.key.target
  BY <1>4, <1>7 DEF Audited
<1> QED BY <1>6, <1>7

\* The accounting of a ledger survives claim_prepared: the key is new, hence
\* without verdict and without effect.
LEMMA AccountsClaim ==
    ASSUME NEW l \in Ledgers, NEW e \in [Keys -> Nat], NEW k \in Keys, NEW n \in Nat,
           Accounts(l, e), CanClaim(l, k)
    PROVE  Accounts(ClaimPrepared(l, Prepared(k, n)), e)
<1> DEFINE r == Prepared(k, n)
           m == ClaimPrepared(l, r)
<1>1. r \in Records /\ r.key = k /\ r.phase = "Prepared" /\ k.target \in Targets
  BY DEF Prepared, Records, Keys, Phases
<1>2. m.idempotency = l.idempotency \cup {k}
  BY <1>1 DEF ClaimPrepared
<1>3. \A t \in Targets : m.active[t] = IF t = k.target THEN r ELSE l.active[t]
  BY <1>1 DEF ClaimPrepared, Ledgers
<1>4. \A j \in Keys, p \in Phases : Audited(m, j, p) <=> Audited(l, j, p) \/ (j = k /\ p = "Prepared")
  BY <1>1, AuditOfAppend
<1> HIDE DEF r, m
<1>5. \A p \in Phases : ~Audited(l, k, p)
  BY DEF Accounts, KeyAccounted, CanClaim
<1>6. e[k] = 0
  BY DEF Accounts, KeyAccounted, CanClaim
<1>7. r # None
  BY <1>1, NoneAssumption
<1>8. ASSUME NEW t \in Targets PROVE ActiveAccounted(m, e, t)
  BY <1>1, <1>2, <1>3, <1>6 DEF Accounts, ActiveAccounted, OpenPhases
<1>9. ASSUME NEW j \in Keys PROVE KeyAccounted(m, e, j)
  <2>1. CASE j = k
    BY <2>1, <1>2, <1>4, <1>5, <1>6 DEF KeyAccounted, Settled, Terminal, Phases
  <2>2. CASE j # k
    <3>1. IsActive(m, j) => IsActive(l, j)
      BY <2>2, <1>1, <1>3, <1>7 DEF IsActive, Keys
    <3>2. IsActive(l, j) => IsActive(m, j)
      BY <2>2, <1>1, <1>3 DEF IsActive, Keys, CanClaim
    <3>3. Terminal \subseteq Phases
      BY DEF Terminal, Phases
    <3> QED BY <2>2, <3>1, <3>2, <3>3, <1>2, <1>4 DEF Accounts, KeyAccounted, Settled, Terminal, Phases
  <2> QED BY <2>1, <2>2
<1> QED BY <1>8, <1>9 DEF Accounts, m, r

\* The accounting survives append when the verdict, if it is one, fits the
\* effects and no record returns to Prepared.
LEMMA AccountsAppend ==
    ASSUME NEW l \in Ledgers, NEW e \in [Keys -> Nat], NEW r \in Records,
           Accounts(l, e), OwnsActive(l, r),
           r.phase \in (OpenPhases \cup Terminal) \ {"Prepared"},
           r.phase = "Failed" /\ r.key \in InputKeys => e[r.key] = 0,
           r.phase = "Succeeded" => e[r.key] = 1
    PROVE  Accounts(AppendRecord(l, r), e)
<1> DEFINE m == AppendRecord(l, r)
           k == r.key
<1>1. k \in Keys /\ k.target \in Targets /\ r.phase \in Phases
  BY DEF Records, Keys
<1>2. m.idempotency = l.idempotency
  BY DEF AppendRecord
<1>3. \A t \in Targets : m.active[t] =
         IF t = k.target THEN (IF r.phase \in Terminal THEN None ELSE r) ELSE l.active[t]
  BY <1>1 DEF AppendRecord, Ledgers
<1>4. \A j \in Keys, p \in Phases : Audited(m, j, p) <=> Audited(l, j, p) \/ (j = k /\ p = r.phase)
  BY AuditOfAppend
<1>5. IsActive(l, k) /\ k \in l.idempotency
  BY <1>1 DEF OwnsActive, IsActive, Accounts, ActiveAccounted
<1>6. \A p \in Terminal : ~Audited(l, k, p)
  BY <1>1, <1>5 DEF Accounts, KeyAccounted
<1>7. r # None
  BY NoneAssumption
<1> HIDE DEF m, k
<1>8. ASSUME NEW t \in Targets PROVE ActiveAccounted(m, e, t)
  BY <1>1, <1>2, <1>3, <1>5 DEF Accounts, ActiveAccounted, k
<1>9. ASSUME NEW j \in Keys PROVE KeyAccounted(m, e, j)
  <2>1. Terminal \subseteq Phases
    BY DEF Terminal, Phases
  <2>2. CASE j = k
    <3>1. IsActive(m, k) <=> r.phase \notin Terminal
      BY <1>1, <1>3, <1>7 DEF IsActive, k
    <3>2. \A p \in Terminal : Audited(m, k, p) <=> p = r.phase
      BY <1>1, <1>4, <1>6, <2>1
    <3>3. Settled(m, k) <=> r.phase \in Terminal
      BY <3>2 DEF Settled
    <3> QED BY <2>2, <3>1, <3>2, <3>3, <1>1, <1>2, <1>5 DEF KeyAccounted, Terminal, k
  <2>3. CASE j # k
    <3>1. IsActive(m, j) => IsActive(l, j)
      BY <2>3, <1>1, <1>3, <1>7 DEF IsActive, Keys, k
    <3>2. IsActive(l, j) => IsActive(m, j)
      BY <2>3, <1>1, <1>3, <1>5 DEF IsActive, Keys
    <3> QED BY <2>1, <2>3, <3>1, <3>2, <1>2, <1>4 DEF Accounts, KeyAccounted, Settled, Terminal, Phases
  <2> QED BY <2>2, <2>3
<1> QED BY <1>8, <1>9 DEF Accounts, m

\* The accounting survives escalate_uncertain: HumanRequired fits any effect.
LEMMA AccountsEscalate ==
    ASSUME NEW l \in Ledgers, NEW e \in [Keys -> Nat], NEW r \in Records,
           Accounts(l, e), OwnsActive(l, r)
    PROVE  Accounts(EscalateUncertain(l, r), e)
<1> DEFINE m == EscalateUncertain(l, r)
           k == r.key
<1>1. k \in Keys /\ k.target \in Targets
  BY DEF Records, Keys
<1>2. m.idempotency = l.idempotency
  BY DEF EscalateUncertain
<1>3. \A t \in Targets : m.active[t] = IF t = k.target THEN None ELSE l.active[t]
  BY <1>1 DEF EscalateUncertain, Ledgers
<1>4. \A j \in Keys, p \in Phases :
        Audited(m, j, p) <=> Audited(l, j, p) \/ (j = k /\ p \in {"Uncertain", "HumanRequired"})
  BY AuditOfEscalate
<1>5. IsActive(l, k) /\ k \in l.idempotency
  BY <1>1 DEF OwnsActive, IsActive, Accounts, ActiveAccounted
<1>6. \A p \in Terminal : ~Audited(l, k, p)
  BY <1>1, <1>5 DEF Accounts, KeyAccounted
<1> HIDE DEF m, k
<1>8. ASSUME NEW t \in Targets PROVE ActiveAccounted(m, e, t)
  BY <1>2, <1>3 DEF Accounts, ActiveAccounted
<1>9. ASSUME NEW j \in Keys PROVE KeyAccounted(m, e, j)
  <2>1. Terminal \subseteq Phases
    BY DEF Terminal, Phases
  <2>2. CASE j = k
    <3>1. ~IsActive(m, k)
      BY <1>1, <1>3 DEF IsActive
    <3>2. \A p \in Terminal : Audited(m, k, p) <=> p = "HumanRequired"
      BY <1>1, <1>4, <1>6, <2>1 DEF Terminal
    <3>3. Settled(m, k)
      BY <3>2 DEF Settled, Terminal
    <3> QED BY <2>2, <3>1, <3>2, <3>3, <1>1, <1>2, <1>5 DEF KeyAccounted, Terminal
  <2>3. CASE j # k
    <3>1. IsActive(m, j) => IsActive(l, j)
      BY <2>3, <1>1, <1>3 DEF IsActive, Keys
    <3>2. IsActive(l, j) => IsActive(m, j)
      BY <2>3, <1>1, <1>3, <1>5 DEF IsActive, Keys
    <3> QED BY <2>1, <2>3, <3>1, <3>2, <1>2, <1>4 DEF Accounts, KeyAccounted, Settled, Terminal, Phases
  <2> QED BY <2>2, <2>3
<1> QED BY <1>8, <1>9 DEF Accounts, m

\* The accounting survives the executor: a record past the commit boundary may
\* stand for an effect.
LEMMA AccountsPerform ==
    ASSUME NEW l \in Ledgers, NEW e \in [Keys -> Nat], NEW k \in Keys, NEW n \in Nat,
           Accounts(l, e), IsActive(l, k), l.active[k.target].phase # "Prepared"
    PROVE  Accounts(l, [e EXCEPT ![k] = @ + n])
<1> DEFINE f == [e EXCEPT ![k] = @ + n]
<1>1. \A j \in Keys : j # k => f[j] = e[j]
  OBVIOUS
<1>2. k \in l.idempotency /\ \A p \in Terminal : ~Audited(l, k, p)
  BY DEF Accounts, ActiveAccounted, KeyAccounted, IsActive, Keys
<1> HIDE DEF f
<1>3. ASSUME NEW t \in Targets PROVE ActiveAccounted(l, f, t)
  <2>1. l.active[t] # None => l.active[t].key \in Keys
    BY DEF Ledgers, Records
  <2>2. l.active[t] # None /\ l.active[t].phase = "Prepared" => l.active[t].key # k
    BY DEF Accounts, ActiveAccounted
  <2> QED BY <2>1, <2>2, <1>1 DEF Accounts, ActiveAccounted
<1>4. ASSUME NEW j \in Keys PROVE KeyAccounted(l, f, j)
  <2>1. CASE j = k
    BY <2>1, <1>2 DEF Accounts, KeyAccounted, Terminal
  <2>2. CASE j # k
    BY <2>2, <1>1 DEF Accounts, KeyAccounted
  <2> QED BY <2>1, <2>2
<1> QED BY <1>3, <1>4 DEF Accounts, f

-----------------------------------------------------------------------------
\* The ledger m is l with at most the target t changed and nothing forgotten.
Follows(l, m, t) ==
    /\ \A u \in Targets \ {t} : m.active[u] = l.active[u]
    /\ l.idempotency \subseteq m.idempotency
    /\ \A k \in Keys, p \in Phases : Audited(l, k, p) => Audited(m, k, p)

\* Each operation of action_store.rs touches the target of its record only and
\* forgets nothing.
LEMMA OperationFollows ==
    ASSUME NEW l \in Ledgers, NEW r \in Records
    PROVE  /\ Follows(l, ClaimPrepared(l, r), r.key.target)
           /\ Follows(l, AppendRecord(l, r), r.key.target)
           /\ Follows(l, EscalateUncertain(l, r), r.key.target)
<1>1. r.key.target \in Targets
  BY DEF Records, Keys
<1>2. Follows(l, ClaimPrepared(l, r), r.key.target)
  <2>1. \A k \in Keys, p \in Phases : Audited(l, k, p) => Audited(ClaimPrepared(l, r), k, p)
    BY AuditOfAppend
  <2> QED BY <1>1, <2>1 DEF Follows, ClaimPrepared, Ledgers
<1>3. Follows(l, AppendRecord(l, r), r.key.target)
  <2>1. \A k \in Keys, p \in Phases : Audited(l, k, p) => Audited(AppendRecord(l, r), k, p)
    BY AuditOfAppend
  <2> QED BY <1>1, <2>1 DEF Follows, AppendRecord, Ledgers
<1>4. Follows(l, EscalateUncertain(l, r), r.key.target)
  <2>1. \A k \in Keys, p \in Phases : Audited(l, k, p) => Audited(EscalateUncertain(l, r), k, p)
    BY AuditOfEscalate
  <2> QED BY <1>1, <2>1 DEF Follows, EscalateUncertain, Ledgers
<1> QED BY <1>2, <1>3, <1>4

\* The part of the invariant that concerns the ledgers.
LedgerInv ==
    /\ mem \in Ledgers /\ disk \in Ledgers
    /\ Accounts(mem, effects) /\ Accounts(disk, effects)
    /\ OwnersInv /\ DiskAhead
    /\ reported \subseteq Keys
    /\ \A k \in reported : Audited(mem, k, "Succeeded") /\ Audited(disk, k, "Succeeded")

\* However a write ends, the ledgers in memory and in the file account for the
\* effects, what was reported stays on record, and the other targets' active
\* records are the ones in memory or in the file before.
LEMMA WriteStep ==
    ASSUME SafetyInv, NEW m \in Ledgers, NEW t \in Targets,
           Accounts(m, effects), Follows(mem, m, t),
           m.active[t] # None => m.active[t].owner <= epoch,
           WriteOk(m) \/ WriteFails(m) \/ Unwritten,
           \A k \in reported' : \/ k \in reported
                                \/ WriteOk(m) /\ k \in Keys /\ Audited(m, k, "Succeeded"),
           UNCHANGED <<effects, epoch>>
    PROVE  /\ LedgerInv'
           /\ faults' \in Nat
           /\ mem.idempotency \subseteq mem'.idempotency
           /\ \A u \in Targets \ {t} :
                /\ mem'.active[u] = mem.active[u]
                /\ disk'.active[u] \in {disk.active[u], mem.active[u]}
<1>1. /\ mem \in Ledgers /\ disk \in Ledgers /\ faults \in Nat /\ reported \subseteq Keys
      /\ Accounts(mem, effects) /\ Accounts(disk, effects)
      /\ \A k \in reported : Audited(mem, k, "Succeeded") /\ Audited(disk, k, "Succeeded")
  BY DEF SafetyInv, TypeOK
<1>2. mem' \in {mem, m} /\ disk' \in {disk, m} /\ faults' \in {faults, faults + 1}
  BY DEF WriteOk, WriteFails, Unwritten
<1>3. \A k \in reported : Audited(m, k, "Succeeded")
  BY <1>1 DEF Follows, Phases
<1>7. reported' \subseteq Keys
  BY <1>1
<1>4. OwnersInv'
  <2>1. \A u \in Targets : \A l \in {mem, disk, m} : l.active[u] # None => l.active[u].owner <= epoch
    BY DEF SafetyInv, OwnersInv, Follows
  <2> QED BY <1>2, <2>1 DEF OwnersInv
<1>5. /\ mem' \in Ledgers /\ disk' \in Ledgers
      /\ Accounts(mem', effects') /\ Accounts(disk', effects')
      /\ \A k \in reported' : Audited(mem', k, "Succeeded") /\ Audited(disk', k, "Succeeded")
  BY <1>1, <1>2, <1>3 DEF WriteOk
<1>6. DiskAhead'
  BY DEF SafetyInv, DiskAhead, Follows, WriteOk, WriteFails, Unwritten
<1>8. LedgerInv'
  BY <1>4, <1>5, <1>6, <1>7 DEF LedgerInv
<1> QED BY <1>1, <1>2, <1>8 DEF Follows

\* What the rest of the invariant says of a worker that takes no step, when
\* another actor changes the active record of target t.
LEMMA OtherWorker ==
    ASSUME SafetyInv, NEW v \in Workers, NEW t \in Targets,
           UNCHANGED <<pc[v], job[v], orphan[v], epoch>>,
           pc[v] \in Owning => job[v].target # t /\ effects'[job[v]] = effects[job[v]],
           \A u \in Targets \ {t} :
                /\ mem'.active[u] = mem.active[u]
                /\ disk'.active[u] \in {disk.active[u], mem.active[u]},
           mem.idempotency \subseteq mem'.idempotency,
           pc[v] = "settle" /\ orphan[v].key.target = t /\ IsActive(mem', orphan[v].key) =>
                mem'.active[t] = orphan[v]
    PROVE  WorkerInv(v)' /\ OrphanInv(v)'
<1>1. WorkerInv(v) /\ OrphanInv(v) /\ TypeOK
  BY DEF SafetyInv
<1>2. pc[v] # "idle" => job[v] \in Keys /\ job[v].target \in Targets
  BY <1>1 DEF WorkerInv, Keys
<1>3. WorkerInv(v)'
  <2>1. CASE pc[v] \notin Owning
    BY <2>1, <1>1 DEF WorkerInv
  <2>2. CASE pc[v] \in Owning
    <3>1. job[v] \in Keys /\ job[v].target \in Targets \ {t}
      BY <2>2, <1>2 DEF Owning
    <3>2. mem'.active[job[v].target] = mem.active[job[v].target]
      BY <3>1
    <3>3. disk'.active[job[v].target] \in {disk.active[job[v].target], mem.active[job[v].target]}
      BY <3>1
    <3> QED BY <2>2, <3>1, <3>2, <3>3, <1>1 DEF WorkerInv, IsActive
  <2> QED BY <2>1, <2>2
<1>4. OrphanInv(v)'
  <2>1. pc[v] = "settle" => orphan[v].key \in Keys /\ orphan[v].key.target \in Targets
    BY <1>1 DEF OrphanInv, TypeOK, Records, Keys
  <2> QED BY <2>1, <1>1 DEF OrphanInv, IsActive
<1> QED BY <1>3, <1>4

\* The types of the workers' own variables.
WorkersTyped ==
    /\ pc \in [Workers -> Stages]
    /\ job \in [Workers -> Keys \cup {None}]
    /\ base \in [Workers -> Baselines \cup {None}]
    /\ todo \in [Workers -> SUBSET Targets]
    /\ orphan \in [Workers -> Records \cup {None}]

\* A worker that moves on or returns leaves the other workers alone.
LEMMA LocalStep ==
    ASSUME TypeOK, NEW w \in Workers,
           (\E stage \in Stages : GoTo(w, stage)) \/ Return(w)
    PROVE  /\ WorkersTyped'
           /\ \A v \in Workers \ {w} : UNCHANGED <<pc[v], job[v], orphan[v]>>
           /\ \/ job'[w] = job[w]
              \/ pc'[w] = "idle"
BY DEF TypeOK, WorkersTyped, GoTo, Return, Stages

\* A step of worker w preserves the invariant when the ledgers and every worker
\* do and w is alone on its target.
LEMMA StepInv ==
    ASSUME SafetyInv, NEW w \in Workers, boot = {}, Steady,
           LedgerInv', faults' \in Nat, effects' \in [Keys -> Nat], AtMostOnce', WorkersTyped',
           \A v \in Workers \ {w} : UNCHANGED <<pc[v], job[v]>>,
           \A v \in Workers : WorkerInv(v)' /\ OrphanInv(v)',
           pc'[w] \in Owning => \A v \in Workers \ {w} :
                                   pc[v] \in Owning => job[v].target # job'[w].target
    PROVE  SafetyInv'
<1>1. OneOwner
  BY DEF SafetyInv
<1>2. OneOwner'
  BY <1>1 DEF OneOwner
<1>3. BootInv'
  BY DEF BootInv, Steady
<1>4. TypeOK'
  BY DEF TypeOK, SafetyInv, LedgerInv, WorkersTyped, Steady
<1> QED BY <1>2, <1>3, <1>4 DEF SafetyInv, LedgerInv

\* A step that writes nothing and performs nothing keeps every other part.
LEMMA QuietStep ==
    ASSUME SafetyInv, NEW w \in Workers, pc[w] # "idle" \/ boot = {},
           Unwritten, Steady, NoEffect, WorkersTyped',
           \A v \in Workers \ {w} : UNCHANGED <<pc[v], job[v], orphan[v]>>,
           WorkerInv(w)', OrphanInv(w)',
           pc'[w] \in Owning => pc[w] \in Owning /\ job'[w] = job[w]
    PROVE  SafetyInv'
<1>1. boot = {}
  BY DEF SafetyInv, BootInv
<1>2. LedgerInv' /\ faults' \in Nat /\ effects' \in [Keys -> Nat] /\ AtMostOnce'
  BY DEF SafetyInv, TypeOK, LedgerInv, OwnersInv, DiskAhead, AtMostOnce, Unwritten, Steady, NoEffect
<1>3. \A v \in Workers : WorkerInv(v)' /\ OrphanInv(v)'
  <2> SUFFICES ASSUME NEW v \in Workers, v # w PROVE WorkerInv(v)' /\ OrphanInv(v)'
    OBVIOUS
  <2>1. WorkerInv(v) /\ OrphanInv(v)
    BY DEF SafetyInv
  <2> QED BY <2>1 DEF WorkerInv, OrphanInv, Unwritten, Steady, NoEffect
<1>4. pc'[w] \in Owning => \A v \in Workers \ {w} : pc[v] \in Owning => job[v].target # job'[w].target
  BY DEF SafetyInv, OneOwner
<1> QED BY <1>1, <1>2, <1>3, <1>4, StepInv

\* A worker past the claim writes an operation on its own record: the other
\* workers and the records about to be settled keep what they rely on.
LEMMA OwnWrite ==
    ASSUME SafetyInv, NEW w \in Workers, pc[w] \in Owning,
           NEW m \in Ledgers, Accounts(m, effects), Follows(mem, m, job[w].target),
           m.active[job[w].target] # None =>
               m.active[job[w].target].key = job[w] /\ m.active[job[w].target].owner = epoch,
           WriteOk(m) \/ WriteFails(m), Steady, UNCHANGED effects,
           \A k \in reported' : \/ k \in reported
                                \/ WriteOk(m) /\ k \in Keys /\ Audited(m, k, "Succeeded"),
           (\E stage \in Stages : GoTo(w, stage)) \/ Return(w),
           pc'[w] # "settle",
           WorkerInv(w)'
    PROVE  SafetyInv'
<1> DEFINE t == job[w].target
<1>1. job[w] \in Keys /\ t \in Targets /\ boot = {} /\ epoch \in Nat
  BY DEF SafetyInv, TypeOK, BootInv, WorkerInv, Owning, Keys
<1>2. IsActive(mem, job[w]) /\ mem.active[t].owner = epoch
  BY DEF SafetyInv, WorkerInv
<1>3. TypeOK
  BY DEF SafetyInv
<1>4. /\ WorkersTyped'
      /\ \A v \in Workers \ {w} : UNCHANGED <<pc[v], job[v], orphan[v]>>
      /\ job'[w] = job[w] \/ pc'[w] = "idle"
  BY <1>3, LocalStep
<1>5. /\ LedgerInv'
      /\ faults' \in Nat
      /\ mem.idempotency \subseteq mem'.idempotency
      /\ \A u \in Targets \ {t} :
           /\ mem'.active[u] = mem.active[u]
           /\ disk'.active[u] \in {disk.active[u], mem.active[u]}
  BY <1>1, WriteStep DEF Steady
<1>6. ASSUME NEW v \in Workers, v # w PROVE WorkerInv(v)' /\ OrphanInv(v)'
  <2>1. pc[v] \in Owning => job[v].target # t
    BY <1>6 DEF SafetyInv, OneOwner
  <2>2. pc[v] = "settle" => ~(IsActive(mem', orphan[v].key) /\ orphan[v].key.target = t)
    <3>1. pc[v] = "settle" => /\ orphan[v].owner # epoch
                              /\ IsActive(mem, orphan[v].key) => mem.active[orphan[v].key.target] = orphan[v]
      BY DEF SafetyInv, OrphanInv
    <3>2. mem'.active[t] # None => mem'.active[t].key = job[w]
      BY <1>2 DEF WriteOk, WriteFails, IsActive
    <3> QED BY <3>1, <3>2, <1>2 DEF IsActive
  <2>3. UNCHANGED <<pc[v], job[v], orphan[v], epoch>>
    BY <1>4, <1>6 DEF Steady
  <2>4. effects'[job[v]] = effects[job[v]]
    OBVIOUS
  <2> QED BY <1>1, <1>5, <2>1, <2>2, <2>3, <2>4, OtherWorker
<1>7. OrphanInv(w)'
  BY DEF OrphanInv
<1>8. pc'[w] \in Owning => \A v \in Workers \ {w} : pc[v] \in Owning => job[v].target # job'[w].target
  BY <1>4 DEF SafetyInv, OneOwner, Owning
<1>9. effects' \in [Keys -> Nat] /\ AtMostOnce'
  BY DEF SafetyInv, TypeOK, AtMostOnce
<1> QED BY <1>1, <1>4, <1>5, <1>6, <1>7, <1>8, <1>9, StepInv

-----------------------------------------------------------------------------
(***************************************************************************)
(* One lemma per group of actions.                                         *)
(***************************************************************************)

\* The steps that read evidence or move on without a write.
LEMMA QuietActions ==
    ASSUME SafetyInv, NEW w \in Workers,
           \/ \E k \in Proposals : StartJob(w, k)
           \/ SweepDone(w)
           \/ \E t \in Targets : SweepSkip(w, t) \/ SweepStale(w, t)
           \/ Baseline(w) \/ Confirm(w) \/ Recheck(w) \/ Receipt(w)
           \/ PollVerified(w) \/ PollGivesUp(w)
    PROVE  SafetyInv'
<1>1. TypeOK /\ WorkerInv(w) /\ OrphanInv(w)
  BY DEF SafetyInv
<1>2. ASSUME NEW k \in Proposals, StartJob(w, k) PROVE SafetyInv'
  <2>1. k \in Keys
    BY ProposalAssumption
  <2>2. /\ WorkersTyped'
        /\ \A v \in Workers \ {w} : UNCHANGED <<pc[v], job[v], orphan[v]>>
        /\ pc'[w] = "sweep" /\ job'[w] = k
    BY <1>1, <1>2, <2>1 DEF StartJob, TypeOK, WorkersTyped, Stages, ActiveTargets
  <2>3. WorkerInv(w)' /\ OrphanInv(w)'
    BY <2>1, <2>2 DEF WorkerInv, OrphanInv, Owning
  <2>4. pc'[w] \notin Owning
    BY <2>2 DEF Owning
  <2> QED BY <1>2, <2>2, <2>3, <2>4, QuietStep DEF StartJob
<1>3. ASSUME NEW t \in Targets, SweepSkip(w, t) PROVE SafetyInv'
  <2>1. WorkersTyped' /\ UNCHANGED <<pc, job, orphan>>
    BY <1>1, <1>3 DEF SweepSkip, TypeOK, WorkersTyped
  <2>2. WorkerInv(w)' /\ OrphanInv(w)'
    BY <1>1, <1>3, <2>1 DEF SweepSkip, WorkerInv, OrphanInv, Owning
  <2>3. pc[w] # "idle"
    BY <1>3 DEF SweepSkip
  <2> QED BY <1>3, <2>1, <2>2, <2>3, QuietStep DEF SweepSkip
<1>4. ASSUME NEW t \in Targets, SweepStale(w, t) PROVE SafetyInv'
  <2>1. mem.active[t] \in Records /\ mem.active[t] # None
    BY <1>1, <1>4 DEF SweepStale, TypeOK, Ledgers
  <2>2. mem.active[t].key.target = t /\ mem.active[t].key \in mem.idempotency
    BY <1>4, <2>1 DEF SafetyInv, Accounts, ActiveAccounted
  <2>3. /\ WorkersTyped'
        /\ \A v \in Workers \ {w} : UNCHANGED <<pc[v], job[v], orphan[v]>>
        /\ pc'[w] = "settle" /\ job'[w] = job[w] /\ orphan'[w] = mem.active[t]
    BY <1>1, <1>4, <2>1 DEF SweepStale, TypeOK, WorkersTyped, Stages
  <2>4. WorkerInv(w)'
    BY <1>1, <1>4, <2>3 DEF SweepStale, WorkerInv, Owning
  <2>5. OrphanInv(w)'
    BY <1>4, <2>1, <2>2, <2>3 DEF SweepStale, OrphanInv, Unwritten, Steady
  <2>6. pc'[w] \notin Owning /\ pc[w] # "idle"
    BY <1>4, <2>3 DEF SweepStale, Owning
  <2> QED BY <1>4, <2>3, <2>4, <2>5, <2>6, QuietStep DEF SweepStale
<1>5. ASSUME SweepDone(w) \/ Baseline(w) \/ Confirm(w) PROVE SafetyInv'
  <2>1. pc[w] \in {"sweep", "baseline", "confirm"} /\ Unwritten /\ Steady /\ NoEffect
    BY <1>5 DEF SweepDone, Baseline, Confirm
  <2>2. CASE Return(w) \/ GoTo(w, "baseline") \/ GoTo(w, "claim")
    <3>1. {"baseline", "claim"} \subseteq Stages
      BY DEF Stages
    <3>2. /\ WorkersTyped'
          /\ \A v \in Workers \ {w} : UNCHANGED <<pc[v], job[v], orphan[v]>>
          /\ job'[w] = job[w] \/ pc'[w] = "idle"
      BY <1>1, <2>2, <3>1, LocalStep
    <3>3. pc'[w] \in {"idle", "baseline", "claim"}
      BY <1>1, <2>2 DEF Return, GoTo, TypeOK
    <3>4. WorkerInv(w)' /\ OrphanInv(w)' /\ pc'[w] \notin Owning
      BY <1>1, <2>1, <3>2, <3>3 DEF WorkerInv, OrphanInv, Owning
    <3> QED BY <2>1, <3>2, <3>4, QuietStep
  <2>3. CASE \E ev \in Evidence :
               /\ base' = [base EXCEPT ![w] = [id |-> ev.id, src |-> ev.src]]
               /\ pc' = [pc EXCEPT ![w] = "confirm"]
               /\ UNCHANGED <<job, todo, orphan>>
    <3>1. /\ WorkersTyped'
          /\ \A v \in Workers \ {w} : UNCHANGED <<pc[v], job[v], orphan[v]>>
          /\ job'[w] = job[w] /\ pc'[w] = "confirm"
      BY <1>1, <2>3 DEF TypeOK, WorkersTyped, Evidence, Baselines, Stages
    <3>2. WorkerInv(w)' /\ OrphanInv(w)' /\ pc'[w] \notin Owning
      BY <1>1, <2>1, <3>1 DEF WorkerInv, OrphanInv, Owning
    <3> QED BY <2>1, <3>1, <3>2, QuietStep
  <2> QED BY <1>5, <2>2, <2>3 DEF SweepDone, Baseline, Confirm
<1>6. ASSUME Recheck(w) \/ Receipt(w) \/ PollVerified(w) \/ PollGivesUp(w) PROVE SafetyInv'
  <2>1. pc[w] \in {"recheck", "receipt", "poll"} /\ Unwritten /\ Steady /\ NoEffect
    BY <1>6 DEF Recheck, Receipt, PollVerified, PollGivesUp
  <2>2. \/ pc[w] = "recheck" /\ (GoTo(w, "begin") \/ GoTo(w, "terminate"))
        \/ pc[w] \in {"receipt", "poll"} /\ \E s \in {"escalate", "succeed", "verify"} : GoTo(w, s)
    BY <1>6 DEF Recheck, Receipt, PollVerified, PollGivesUp
  <2>3. {"begin", "terminate", "escalate", "succeed", "verify"} \subseteq Stages
    BY DEF Stages, Owning
  <2>4. /\ WorkersTyped'
        /\ \A v \in Workers \ {w} : UNCHANGED <<pc[v], job[v], orphan[v]>>
    BY <1>1, <2>2, <2>3, LocalStep
  <2>5. /\ \/ pc[w] = "recheck" /\ pc'[w] \in {"begin", "terminate"}
           \/ pc[w] \in {"receipt", "poll"} /\ pc'[w] \in {"escalate", "succeed", "verify"}
        /\ job'[w] = job[w]
    BY <1>1, <2>2 DEF GoTo, TypeOK
  <2>6. WorkerInv(w)'
    BY <1>1, <2>1, <2>5 DEF WorkerInv, Owning, Performed, Unbegun, Unwritten, Steady, NoEffect
  <2>7. OrphanInv(w)' /\ pc[w] \in Owning /\ pc[w] # "idle"
    BY <2>1, <2>5 DEF OrphanInv, Owning
  <2> QED BY <2>1, <2>4, <2>5, <2>6, <2>7, QuietStep
<1> QED BY <1>2, <1>3, <1>4, <1>5, <1>6

\* What persist() finds and would write: the worker owns the active record, and
\* the ledger with its record appended is a sound successor.
LEMMA PersistedLedger ==
    ASSUME SafetyInv, NEW w \in Workers, pc[w] \in Owning,
           NEW phase \in (OpenPhases \cup Terminal) \ {"Prepared"},
           phase = "Failed" /\ job[w] \in InputKeys => effects[job[w]] = 0,
           phase = "Succeeded" => effects[job[w]] = 1,
           NEW m, m = AppendRecord(mem, MyRecord(w, phase))
    PROVE  /\ OwnsActive(mem, MyRecord(w, phase))
           /\ m \in Ledgers
           /\ Accounts(m, effects)
           /\ Follows(mem, m, job[w].target)
           /\ m.active[job[w].target] = IF phase \in Terminal THEN None ELSE MyRecord(w, phase)
           /\ MyRecord(w, phase) \in Records
           /\ Audited(m, job[w], phase)
<1> DEFINE r == MyRecord(w, phase)
<1>1. job[w] \in Keys /\ job[w].target \in Targets /\ epoch \in Nat
  BY DEF SafetyInv, TypeOK, WorkerInv, Owning, Keys
<1>2. r \in Records /\ r.key = job[w] /\ r.phase = phase
  BY <1>1 DEF MyRecord, Records, Phases, OpenPhases, Terminal
<1>3. mem \in Ledgers /\ Accounts(mem, effects) /\ effects \in [Keys -> Nat]
  BY DEF SafetyInv, TypeOK
<1>4. OwnsActive(mem, r)
  BY <1>2 DEF SafetyInv, WorkerInv, IsActive, OwnsActive
<1>5. m.active[job[w].target] = IF phase \in Terminal THEN None ELSE r
  BY <1>1, <1>2, <1>3 DEF AppendRecord, Ledgers
<1> HIDE DEF r
<1>6. m \in Ledgers /\ Follows(mem, m, job[w].target)
  BY <1>2, <1>3, LedgerType, OperationFollows DEF r
<1>7. Accounts(m, effects)
  BY <1>2, <1>3, <1>4, AccountsAppend DEF r
<1>8. Audited(m, job[w], phase)
  BY <1>1, <1>2, <1>3, AuditOfAppend DEF r
<1> QED BY <1>2, <1>4, <1>5, <1>6, <1>7, <1>8 DEF r

\* A worker whose record m carries past the commit boundary owns it in memory
\* and in the file, whether the write succeeded or, being past it, failed.
LEMMA OwnRecord ==
    ASSUME SafetyInv, NEW w \in Workers, pc[w] \in Owning, NEW m, NEW r \in Records,
           m.active[job[w].target] = r, r.key = job[w], r.owner = epoch, r.phase # "Prepared",
           WriteOk(m) \/ (WriteFails(m) /\ pc[w] \in Performed)
    PROVE  /\ \A l \in {mem', disk'} : IsActive(l, job[w]) /\ l.active[job[w].target].phase # "Prepared"
           /\ mem'.active[job[w].target].owner = epoch
<1>1. WorkerInv(w) /\ r # None
  BY NoneAssumption DEF SafetyInv
<1> QED BY <1>1 DEF WorkerInv, IsActive, WriteOk, WriteFails

\* The worker's own appends: Begun, Sent, Verifying, Succeeded and Failed.
LEMMA PersistActions ==
    ASSUME SafetyInv, NEW w \in Workers,
           \/ Begin(w) \/ PersistSent(w) \/ BeginVerification(w)
           \/ Succeed(w) \/ Terminate(w)
    PROVE  SafetyInv'
<1>1. TypeOK /\ WorkerInv(w)
  BY DEF SafetyInv
<1>2. {"execute", "receipt", "poll", "escalate"} \subseteq Stages
  BY DEF Stages, Owning
<1>3. Terminal = {"Succeeded", "Failed", "HumanRequired"}
  BY DEF Terminal
<1>4. {"Begun", "Sent", "Verifying", "Succeeded", "Failed"} \subseteq
          (OpenPhases \cup Terminal) \ {"Prepared"}
  BY DEF OpenPhases, Terminal
<1>6. CASE Begin(w)
  <2> DEFINE r == MyRecord(w, "Begun")
             m == AppendRecord(mem, r)
  <2>1. pc[w] = "begin" /\ pc[w] \in Owning
    BY <1>6 DEF Begin, Owning
  <2>2. /\ OwnsActive(mem, r) /\ m \in Ledgers /\ Accounts(m, effects) /\ r \in Records
        /\ Follows(mem, m, job[w].target) /\ m.active[job[w].target] = r
    BY <2>1, <1>3, <1>4, PersistedLedger
  <2>3. (WriteOk(m) /\ GoTo(w, "execute")) \/ (WriteFails(m) /\ Return(w))
    BY <2>2, <1>6 DEF Begin, Persist
  <2>4. r.key = job[w] /\ r.owner = epoch /\ r.phase = "Begun"
    BY DEF MyRecord
  <2> HIDE DEF m, r
  <2>5. \/ WriteOk(m) /\ pc'[w] = "execute" /\ job'[w] = job[w]
        \/ WriteFails(m) /\ pc'[w] = "idle" /\ job'[w] \in {job[w], None}
    BY <2>3, <1>1 DEF GoTo, Return, TypeOK
  <2>6. Steady /\ NoEffect
    BY <1>6 DEF Begin
  <2>7. WorkerInv(w)'
    <3>1. CASE WriteOk(m) /\ pc'[w] = "execute" /\ job'[w] = job[w]
      BY <3>1, <2>1, <2>2, <2>4, <2>5, <2>6, <1>1, OwnRecord
         DEF WorkerInv, Owning, Performed, Unbegun, Steady, NoEffect
    <3>2. CASE pc'[w] = "idle"
      BY <3>2 DEF WorkerInv, Owning
    <3> QED BY <2>5, <3>1, <3>2
  <2>8. (\E stage \in Stages : GoTo(w, stage)) \/ Return(w)
    BY <2>3, <1>2
  <2>9. pc'[w] # "settle"
    BY <2>5
  <2> QED BY <2>1, <2>2, <2>4, <2>6, <2>7, <2>8, <2>9, <2>3, OwnWrite DEF NoEffect
<1>7. CASE PersistSent(w)
  <2> DEFINE r == MyRecord(w, "Sent")
             m == AppendRecord(mem, r)
  <2>1. pc[w] = "sent" /\ pc[w] \in Owning
    BY <1>7 DEF PersistSent, Owning
  <2>2. /\ OwnsActive(mem, r) /\ m \in Ledgers /\ Accounts(m, effects) /\ r \in Records
        /\ Follows(mem, m, job[w].target) /\ m.active[job[w].target] = r
    BY <2>1, <1>3, <1>4, PersistedLedger
  <2>3. (WriteOk(m) /\ GoTo(w, "receipt")) \/ (WriteFails(m) /\ GoTo(w, "escalate"))
    BY <2>2, <1>7 DEF PersistSent, Persist
  <2>4. r.key = job[w] /\ r.owner = epoch /\ r.phase = "Sent"
    BY DEF MyRecord
  <2> HIDE DEF m, r
  <2>5. \/ WriteOk(m) /\ pc'[w] = "receipt" /\ job'[w] = job[w]
        \/ WriteFails(m) /\ pc'[w] = "escalate" /\ job'[w] = job[w]
    BY <2>3, <1>1 DEF GoTo, Return, TypeOK
  <2>6. Steady /\ NoEffect
    BY <1>7 DEF PersistSent
  <2>7. WorkerInv(w)'
    <3>1. pc[w] \in Performed
      BY <2>1 DEF Performed
    <3>2. /\ \A l \in {mem', disk'} : IsActive(l, job[w]) /\ l.active[job[w].target].phase # "Prepared"
          /\ mem'.active[job[w].target].owner = epoch
      BY <3>1, <2>1, <2>2, <2>4, <2>5, OwnRecord
    <3> QED BY <3>1, <3>2, <2>1, <2>5, <2>6, <1>1
            DEF WorkerInv, Owning, Performed, Unbegun, Steady, NoEffect
  <2>8. (\E stage \in Stages : GoTo(w, stage)) \/ Return(w)
    BY <2>3, <1>2
  <2>9. pc'[w] # "settle"
    BY <2>5
  <2> QED BY <2>1, <2>2, <2>4, <2>6, <2>7, <2>8, <2>9, <2>3, OwnWrite DEF NoEffect
<1>8. CASE BeginVerification(w)
  <2> DEFINE r == MyRecord(w, "Verifying")
             m == AppendRecord(mem, r)
  <2>1. pc[w] = "verify" /\ pc[w] \in Owning
    BY <1>8 DEF BeginVerification, Owning
  <2>2. /\ OwnsActive(mem, r) /\ m \in Ledgers /\ Accounts(m, effects) /\ r \in Records
        /\ Follows(mem, m, job[w].target) /\ m.active[job[w].target] = r
    BY <2>1, <1>3, <1>4, PersistedLedger
  <2>3. (WriteOk(m) /\ GoTo(w, "poll")) \/ (WriteFails(m) /\ GoTo(w, "escalate"))
    BY <2>2, <1>8 DEF BeginVerification, Persist
  <2>4. r.key = job[w] /\ r.owner = epoch /\ r.phase = "Verifying"
    BY DEF MyRecord
  <2> HIDE DEF m, r
  <2>5. \/ WriteOk(m) /\ pc'[w] = "poll" /\ job'[w] = job[w]
        \/ WriteFails(m) /\ pc'[w] = "escalate" /\ job'[w] = job[w]
    BY <2>3, <1>1 DEF GoTo, Return, TypeOK
  <2>6. Steady /\ NoEffect
    BY <1>8 DEF BeginVerification
  <2>7. WorkerInv(w)'
    <3>1. pc[w] \in Performed
      BY <2>1 DEF Performed
    <3>2. /\ \A l \in {mem', disk'} : IsActive(l, job[w]) /\ l.active[job[w].target].phase # "Prepared"
          /\ mem'.active[job[w].target].owner = epoch
      BY <3>1, <2>1, <2>2, <2>4, <2>5, OwnRecord
    <3> QED BY <3>1, <3>2, <2>1, <2>5, <2>6, <1>1
            DEF WorkerInv, Owning, Performed, Unbegun, Steady, NoEffect
  <2>8. (\E stage \in Stages : GoTo(w, stage)) \/ Return(w)
    BY <2>3, <1>2
  <2>9. pc'[w] # "settle"
    BY <2>5
  <2> QED BY <2>1, <2>2, <2>4, <2>6, <2>7, <2>8, <2>9, <2>3, OwnWrite DEF NoEffect
<1>9. CASE Succeed(w)
  <2> DEFINE r == MyRecord(w, "Succeeded")
             m == AppendRecord(mem, r)
  <2>1. pc[w] \in Owning /\ effects[job[w]] = 1 /\ job[w] \in Keys
    BY <1>1, <1>9 DEF Succeed, Owning, WorkerInv, Performed
  <2>2. /\ OwnsActive(mem, r) /\ m \in Ledgers /\ Accounts(m, effects)
        /\ Follows(mem, m, job[w].target) /\ m.active[job[w].target] = None
        /\ Audited(m, job[w], "Succeeded")
    BY <2>1, <1>3, <1>4, PersistedLedger
  <2>3. /\ Return(w)
        /\ \/ WriteOk(m) /\ reported' = reported \cup {job[w]}
           \/ WriteFails(m) /\ reported' = reported
    BY <2>2, <1>9 DEF Succeed, Persist
  <2> HIDE DEF m, r
  <2>4. pc'[w] = "idle" /\ WorkerInv(w)'
    BY <2>3, <1>1 DEF Return, TypeOK, WorkerInv, Owning
  <2>5. \A k \in reported' : \/ k \in reported
                             \/ WriteOk(m) /\ k \in Keys /\ Audited(m, k, "Succeeded")
    BY <2>1, <2>2, <2>3
  <2> QED BY <2>1, <2>2, <2>3, <2>4, <2>5, <1>9, OwnWrite DEF Succeed
<1>10. CASE Terminate(w)
  <2> DEFINE r == MyRecord(w, "Failed")
             m == AppendRecord(mem, r)
  <2>1. pc[w] \in Owning /\ (job[w] \in InputKeys => effects[job[w]] = 0)
    BY <1>1, <1>10 DEF Terminate, Owning, WorkerInv
  <2>2. /\ OwnsActive(mem, r) /\ m \in Ledgers /\ Accounts(m, effects)
        /\ Follows(mem, m, job[w].target) /\ m.active[job[w].target] = None
    BY <2>1, <1>3, <1>4, PersistedLedger
  <2>3. Return(w) /\ (WriteOk(m) \/ WriteFails(m))
    BY <2>2, <1>10 DEF Terminate, Persist
  <2> HIDE DEF m, r
  <2>4. pc'[w] = "idle" /\ WorkerInv(w)'
    BY <2>3, <1>1 DEF Return, TypeOK, WorkerInv, Owning
  <2> QED BY <2>1, <2>2, <2>3, <2>4, <1>10, OwnWrite DEF Terminate, NoEffect
<1> QED BY <1>6, <1>7, <1>8, <1>9, <1>10

\* uncertain(): the worker files the hand-off of its own record.
LEMMA EscalateAction ==
    ASSUME SafetyInv, NEW w \in Workers, Escalate(w)
    PROVE  SafetyInv'
<1> DEFINE r == MyRecord(w, "Uncertain")
           m == EscalateUncertain(mem, r)
<1>1. TypeOK /\ WorkerInv(w) /\ pc[w] \in Owning /\ mem \in Ledgers
      /\ Accounts(mem, effects) /\ effects \in [Keys -> Nat]
  BY DEF SafetyInv, TypeOK, Escalate, Owning
<1>2. job[w] \in Keys /\ job[w].target \in Targets
  BY <1>1 DEF WorkerInv, Owning, Keys
<1>3. r \in Records /\ r.key = job[w]
  BY <1>1, <1>2 DEF MyRecord, Records, Phases, TypeOK
<1>4. OwnsActive(mem, r)
  BY <1>1, <1>3 DEF WorkerInv, IsActive, OwnsActive
<1>5. m.active[job[w].target] = None
  BY <1>1, <1>2, <1>3 DEF EscalateUncertain, Ledgers
<1>6. Return(w) /\ (WriteOk(m) \/ WriteFails(m)) /\ Steady /\ NoEffect
  BY <1>4 DEF Escalate
<1> HIDE DEF r
<1>7. m \in Ledgers /\ Follows(mem, m, job[w].target) /\ Accounts(m, effects)
  BY <1>1, <1>3, <1>4, LedgerType, OperationFollows, AccountsEscalate
<1> HIDE DEF m
<1>8. pc'[w] = "idle" /\ WorkerInv(w)'
  BY <1>1, <1>6 DEF Return, TypeOK, WorkerInv, Owning
<1> QED BY <1>1, <1>5, <1>6, <1>7, <1>8, OwnWrite DEF NoEffect

\* The executor: at most one more effect, for a key whose record is past the
\* commit boundary in memory and in the file.
LEMMA ExecuteAction ==
    ASSUME SafetyInv, NEW w \in Workers, Execute(w)
    PROVE  SafetyInv'
<1> DEFINE k == job[w]
<1>1. /\ TypeOK /\ WorkerInv(w) /\ pc[w] = "execute" /\ pc[w] \in Owning
      /\ mem \in Ledgers /\ disk \in Ledgers
      /\ Accounts(mem, effects) /\ Accounts(disk, effects) /\ effects \in [Keys -> Nat]
      /\ Unwritten /\ Steady /\ reported' = reported /\ AtMostOnce
  BY DEF SafetyInv, TypeOK, Execute, Owning
<1>2. /\ k \in Keys /\ IsActive(mem, k) /\ IsActive(disk, k) /\ effects[k] = 0
      /\ mem.active[k.target].phase # "Prepared" /\ disk.active[k.target].phase # "Prepared"
      /\ mem.active[k.target].owner = epoch
  BY <1>1 DEF WorkerInv
<1>3. PICK n \in {0, 1} : /\ Performs(k, n)
                          /\ \/ GoTo(w, "terminate") /\ (k.action \in InputActions => n = 0)
                             \/ GoTo(w, "escalate")
                             \/ GoTo(w, "sent") /\ n = 1
  BY DEF Execute
<1>4. effects' \in [Keys -> Nat] /\ effects'[k] = n /\ \A j \in Keys \ {k} : effects'[j] = effects[j]
  BY <1>1, <1>2, <1>3 DEF Performs
<1>5. AtMostOnce'
  BY <1>1, <1>3, <1>4 DEF AtMostOnce
<1>6. Accounts(mem', effects') /\ Accounts(disk', effects')
  BY <1>1, <1>2, <1>3, AccountsPerform DEF Performs, Unwritten
<1>7. LedgerInv' /\ faults' \in Nat
  BY <1>1, <1>6 DEF SafetyInv, TypeOK, LedgerInv, OwnersInv, DiskAhead, Unwritten, Steady
<1>8. {"terminate", "escalate", "sent"} \subseteq Stages
  BY DEF Stages, Owning
<1>9. /\ WorkersTyped'
      /\ \A v \in Workers \ {w} : UNCHANGED <<pc[v], job[v], orphan[v]>>
  BY <1>1, <1>3, <1>8, LocalStep
<1>10. /\ job'[w] = k
       /\ \/ pc'[w] = "terminate" /\ (k.action \in InputActions => n = 0)
          \/ pc'[w] = "escalate"
          \/ pc'[w] = "sent" /\ n = 1
  BY <1>1, <1>3 DEF GoTo, TypeOK
<1>11. WorkerInv(w)'
  BY <1>1, <1>2, <1>3, <1>4, <1>10
     DEF WorkerInv, Owning, Unbegun, Performed, InputKeys, Unwritten, Steady
<1>12. ASSUME NEW v \in Workers, v # w PROVE WorkerInv(v)' /\ OrphanInv(v)'
  <2>1. WorkerInv(v) /\ OrphanInv(v)
    BY DEF SafetyInv
  <2>2. pc[v] \in Owning => job[v] \in Keys /\ job[v].target # k.target
    BY <1>1, <1>12, <2>1 DEF SafetyInv, OneOwner, WorkerInv, Owning
  <2>3. pc[v] \in Owning => effects'[job[v]] = effects[job[v]]
    BY <2>2, <1>4
  <2> QED BY <1>1, <1>9, <1>12, <2>1, <2>3 DEF WorkerInv, OrphanInv, Unwritten, Steady
<1>13. OrphanInv(w)'
  BY <1>10 DEF OrphanInv
<1>14. pc'[w] \in Owning => \A v \in Workers \ {w} : pc[v] \in Owning => job[v].target # job'[w].target
  BY <1>1, <1>10 DEF SafetyInv, OneOwner
<1>15. boot = {}
  BY <1>1 DEF SafetyInv, BootInv
<1> QED BY <1>1, <1>4, <1>5, <1>7, <1>9, <1>11, <1>12, <1>13, <1>14, <1>15, StepInv

\* What settling an orphaned record writes: the verdict fits, because a record
\* that is still Prepared stands for no effect.
LEMMA SettledLedger ==
    ASSUME SafetyInv, NEW o \in Records, mem.active[o.key.target] = o,
           NEW m, m = AppendRecord(mem, InPhase(o, OrphanVerdict(o)))
    PROVE  /\ o.key.target \in Targets
           /\ m \in Ledgers
           /\ Accounts(m, effects)
           /\ Follows(mem, m, o.key.target)
           /\ m.active[o.key.target] = None
<1> DEFINE r == InPhase(o, OrphanVerdict(o))
           t == o.key.target
<1>1. mem \in Ledgers /\ Accounts(mem, effects) /\ effects \in [Keys -> Nat]
  BY DEF SafetyInv, TypeOK
<1>2. o.key \in Keys /\ t \in Targets /\ o # None
  BY NoneAssumption DEF Records, Keys
<1>3. /\ r \in Records /\ r.key = o.key
      /\ r.phase = IF o.phase = "Prepared" THEN "Failed" ELSE "HumanRequired"
  BY DEF InPhase, OrphanVerdict, Records, Phases
<1>4. r.phase \in Terminal /\ r.phase # "Prepared" /\ r.phase # "Succeeded"
  BY <1>3 DEF Terminal
<1>5. r.phase = "Failed" => effects[o.key] = 0
  BY <1>1, <1>2, <1>3 DEF Accounts, ActiveAccounted
<1>6. OwnsActive(mem, r)
  BY <1>2, <1>3 DEF OwnsActive
<1>7. m.active[t] = None
  BY <1>1, <1>2, <1>3, <1>4 DEF AppendRecord, Ledgers
<1> HIDE DEF r
<1>8. m \in Ledgers /\ Follows(mem, m, t)
  BY <1>1, <1>3, LedgerType, OperationFollows DEF r
<1>9. Accounts(m, effects)
  BY <1>1, <1>3, <1>4, <1>5, <1>6, AccountsAppend DEF r
<1> QED BY <1>2, <1>7, <1>8, <1>9

\* recover_stale settles only a record that no worker of this daemon owns.
LEMMA SettleAction ==
    ASSUME SafetyInv, NEW w \in Workers, Settle(w)
    PROVE  SafetyInv'
<1> DEFINE o == orphan[w]
           m == AppendRecord(mem, InPhase(o, OrphanVerdict(o)))
           t == o.key.target
<1>1. /\ TypeOK /\ WorkerInv(w) /\ pc[w] = "settle" /\ Steady /\ NoEffect
      /\ pc' = [pc EXCEPT ![w] = "sweep"] /\ orphan' = [orphan EXCEPT ![w] = None]
      /\ UNCHANGED <<job, base, todo>>
  BY DEF SafetyInv, Settle
<1>2. /\ o \in Records /\ o.owner # epoch
      /\ IsActive(mem, o.key) => mem.active[t] = o
  BY <1>1 DEF SafetyInv, OrphanInv, TypeOK
<1>3. /\ WorkersTyped'
      /\ \A v \in Workers \ {w} : UNCHANGED <<pc[v], job[v], orphan[v]>>
      /\ pc'[w] = "sweep" /\ job'[w] = job[w]
  BY <1>1 DEF TypeOK, WorkersTyped, Stages
<1>4. WorkerInv(w)' /\ OrphanInv(w)' /\ pc'[w] \notin Owning
  BY <1>1, <1>3 DEF WorkerInv, OrphanInv, Owning
<1>5. CASE Unwritten
  BY <1>1, <1>3, <1>4, <1>5, QuietStep
<1>6. CASE ~Unwritten
  <2>1. mem.active[t] = o /\ (WriteOk(m) \/ WriteFails(m))
    <3>1. InPhase(o, OrphanVerdict(o)).key = o.key
      BY <1>2 DEF InPhase, Records
    <3> QED BY <1>2, <1>6, <3>1 DEF Settle, OwnsActive, IsActive
  <2>2. /\ t \in Targets /\ m \in Ledgers /\ Accounts(m, effects)
        /\ Follows(mem, m, t) /\ m.active[t] = None
    BY <1>2, <2>1, SettledLedger
  <2> HIDE DEF m
  <2>3. /\ LedgerInv' /\ faults' \in Nat
        /\ mem.idempotency \subseteq mem'.idempotency
        /\ \A u \in Targets \ {t} :
             /\ mem'.active[u] = mem.active[u]
             /\ disk'.active[u] \in {disk.active[u], mem.active[u]}
    BY <1>1, <2>1, <2>2, WriteStep DEF Steady, NoEffect
  <2>4. mem'.active[t] \in {None, o}
    BY <2>1, <2>2 DEF WriteOk, WriteFails
  <2>5. ASSUME NEW v \in Workers, v # w PROVE WorkerInv(v)' /\ OrphanInv(v)'
    <3>1. pc[v] \in Owning => job[v].target # t
      BY <1>2, <2>1 DEF SafetyInv, WorkerInv
    <3>2. pc[v] = "settle" /\ orphan[v].key.target = t /\ IsActive(mem', orphan[v].key) =>
              mem'.active[t] = orphan[v]
      <4>1. pc[v] = "settle" /\ IsActive(mem, orphan[v].key) =>
                mem.active[orphan[v].key.target] = orphan[v]
        BY DEF SafetyInv, OrphanInv
      <4> QED BY <4>1, <2>1, <2>4 DEF IsActive
    <3>3. UNCHANGED <<pc[v], job[v], orphan[v], epoch>> /\ effects' = effects
      BY <1>1, <1>3, <2>5 DEF Steady, NoEffect
    <3> QED BY <2>2, <2>3, <3>1, <3>2, <3>3, OtherWorker
  <2>6. effects' \in [Keys -> Nat] /\ AtMostOnce' /\ boot = {}
    BY <1>1 DEF SafetyInv, TypeOK, AtMostOnce, BootInv, NoEffect
  <2> QED BY <1>1, <1>3, <1>4, <2>3, <2>5, <2>6, StepInv
<1> QED BY <1>5, <1>6

\* claim_prepared: the target was free, so no worker owned it, and the key was
\* new, so no orphan bears it.
LEMMA ClaimAction ==
    ASSUME SafetyInv, NEW w \in Workers, Claim(w)
    PROVE  SafetyInv'
<1> DEFINE k == job[w]
           r == Prepared(k, epoch)
           m == ClaimPrepared(mem, r)
           t == k.target
<1>1. TypeOK /\ WorkerInv(w) /\ pc[w] = "claim" /\ Steady /\ NoEffect
  BY DEF SafetyInv, Claim
<1>2. k \in Keys /\ t \in Targets /\ epoch \in Nat /\ mem \in Ledgers
      /\ Accounts(mem, effects) /\ effects \in [Keys -> Nat]
  BY <1>1 DEF SafetyInv, WorkerInv, TypeOK, Keys
<1>3. \/ CanClaim(mem, k) /\ WriteOk(m) /\ GoTo(w, "recheck")
      \/ CanClaim(mem, k) /\ WriteFails(m) /\ Return(w)
      \/ Unwritten /\ Return(w)
  BY DEF Claim
<1>4. "recheck" \in Stages
  BY DEF Stages, Owning
<1>5. /\ WorkersTyped'
      /\ \A v \in Workers \ {w} : UNCHANGED <<pc[v], job[v], orphan[v]>>
  BY <1>1, <1>3, <1>4, LocalStep
<1>6. CASE Unwritten /\ Return(w)
  <2>1. pc'[w] = "idle"
    BY <1>1, <1>6 DEF Return, TypeOK
  <2>2. WorkerInv(w)' /\ OrphanInv(w)' /\ pc'[w] \notin Owning
    BY <2>1 DEF WorkerInv, OrphanInv, Owning
  <2> QED BY <1>1, <1>5, <1>6, <2>2, QuietStep
<1>7. CASE /\ CanClaim(mem, k)
           /\ (WriteOk(m) /\ GoTo(w, "recheck")) \/ (WriteFails(m) /\ Return(w))
  <2>1. r \in Records /\ r.key = k /\ r.owner = epoch /\ r.phase = "Prepared" /\ r # None
    BY <1>2, NoneAssumption DEF Prepared, Records, Phases
  <2>2. m.active[t] = r
    BY <1>2, <2>1 DEF ClaimPrepared, Ledgers
  <2>3. m \in Ledgers /\ Follows(mem, m, t) /\ Accounts(m, effects)
    BY <1>2, <1>7, <2>1, LedgerType, OperationFollows, AccountsClaim
  <2> HIDE DEF m, r
  <2>4. \/ WriteOk(m) /\ pc'[w] = "recheck" /\ job'[w] = k
        \/ WriteFails(m) /\ pc'[w] = "idle"
    BY <1>1, <1>7 DEF GoTo, Return, TypeOK
  <2>5. /\ LedgerInv' /\ faults' \in Nat
        /\ mem.idempotency \subseteq mem'.idempotency
        /\ \A u \in Targets \ {t} :
             /\ mem'.active[u] = mem.active[u]
             /\ disk'.active[u] \in {disk.active[u], mem.active[u]}
    BY <1>1, <1>2, <2>1, <2>2, <2>3, <2>4, WriteStep DEF Steady, NoEffect
  <2>6. \A v \in Workers : pc[v] \in Owning => job[v].target # t
    BY <1>7 DEF SafetyInv, WorkerInv, IsActive, CanClaim
  <2>7. ASSUME NEW v \in Workers, v # w PROVE WorkerInv(v)' /\ OrphanInv(v)'
    <3>1. pc[v] = "settle" => orphan[v].key \in mem.idempotency
      BY DEF SafetyInv, OrphanInv
    <3>2. mem'.active[t] \in {None, r}
      BY <1>7, <2>2, <2>4 DEF WriteOk, WriteFails, CanClaim
    <3>3. ~(pc[v] = "settle" /\ orphan[v].key.target = t /\ IsActive(mem', orphan[v].key))
      BY <1>7, <2>1, <3>1, <3>2 DEF IsActive, CanClaim
    <3>4. UNCHANGED <<pc[v], job[v], orphan[v], epoch>> /\ effects' = effects
      BY <1>1, <1>5, <2>7 DEF Steady, NoEffect
    <3> QED BY <1>2, <2>5, <2>6, <3>3, <3>4, OtherWorker
  <2>8. effects[k] = 0
    BY <1>2, <1>7 DEF CanClaim, Accounts, KeyAccounted
  <2>9. WorkerInv(w)' /\ OrphanInv(w)'
    BY <1>1, <1>2, <2>1, <2>2, <2>4, <2>8
       DEF WorkerInv, OrphanInv, Owning, Performed, Unbegun, IsActive, WriteOk, Steady, NoEffect
  <2>10. pc'[w] \in Owning => job'[w] = k
    BY <2>4 DEF Owning
  <2>11. effects' \in [Keys -> Nat] /\ AtMostOnce' /\ boot = {}
    BY <1>1 DEF SafetyInv, TypeOK, AtMostOnce, BootInv, NoEffect
  <2> QED BY <1>1, <1>5, <2>5, <2>6, <2>7, <2>9, <2>10, <2>11, StepInv
<1> QED BY <1>3, <1>6, <1>7

\* A crash loses the workers and the memory; the file alone keeps the invariant.
LEMMA CrashAction ==
    ASSUME SafetyInv, Crash
    PROVE  SafetyInv'
<1>1. TypeOK'
  BY DEF SafetyInv, TypeOK, Crash, WorkersGone, ActiveTargets, Stages
<1>2. Accounts(mem, effects)' /\ Accounts(disk, effects)'
  BY DEF SafetyInv, Crash, WorkersGone
<1>3. \A w \in Workers : WorkerInv(w)' /\ OrphanInv(w)'
  BY DEF Crash, WorkersGone, WorkerInv, OrphanInv, Owning
<1>4. OneOwner'
  BY DEF Crash, WorkersGone, OneOwner, Owning
<1>5. OwnersInv' /\ BootInv'
  <2>1. epoch \in Nat /\ disk \in Ledgers /\ mem' = disk /\ disk' = disk /\ epoch' = epoch + 1
        /\ boot' = ActiveTargets(disk) /\ pc' = [w \in Workers |-> "idle"]
    BY DEF SafetyInv, TypeOK, Crash, WorkersGone
  <2>2. \A t \in Targets : disk.active[t] # None =>
            disk.active[t].owner \in Nat /\ disk.active[t].owner <= epoch
    BY <2>1 DEF SafetyInv, OwnersInv, Ledgers, Records
  <2> QED BY <2>1, <2>2 DEF OwnersInv, BootInv, ActiveTargets
<1>6. AtMostOnce' /\ \A k \in reported' : Audited(mem', k, "Succeeded") /\ Audited(disk', k, "Succeeded")
  BY DEF SafetyInv, Crash, WorkersGone, AtMostOnce
<1>7. DiskAhead'
  BY DEF Crash, WorkersGone, DiskAhead
<1> QED BY <1>1, <1>2, <1>3, <1>4, <1>5, <1>6, <1>7 DEF SafetyInv

\* recover_durable_actions_after_restart settles the orphans before any worker
\* starts.
LEMMA RecoverAction ==
    ASSUME SafetyInv, NEW t \in Targets, RecoverAfterRestart(t)
    PROVE  SafetyInv'
<1> DEFINE o == mem.active[t]
           m == AppendRecord(mem, InPhase(o, OrphanVerdict(o)))
<1>1. /\ t \in boot /\ boot' = boot \ {t} /\ UNCHANGED workerVars /\ epoch' = epoch /\ NoEffect
      /\ WriteOk(m) \/ WriteFails(m)
  BY DEF RecoverAfterRestart
<1>2. TypeOK /\ (\A w \in Workers : pc[w] = "idle") /\ o # None /\ o.owner # epoch /\ o \in Records
  BY <1>1 DEF SafetyInv, BootInv, TypeOK, Ledgers
<1>3. o.key.target = t
  BY <1>2 DEF SafetyInv, Accounts, ActiveAccounted
<1>4. m \in Ledgers /\ Accounts(m, effects) /\ Follows(mem, m, t) /\ m.active[t] = None
  BY <1>2, <1>3, SettledLedger
<1> HIDE DEF m
<1>5. /\ LedgerInv' /\ faults' \in Nat
      /\ \A u \in Targets \ {t} : mem'.active[u] = mem.active[u]
  BY <1>1, <1>4, WriteStep DEF NoEffect
<1>6. UNCHANGED <<pc, job, base, todo, orphan, effects, reported>>
  BY <1>1 DEF workerVars, NoEffect
<1>7. TypeOK' /\ AtMostOnce'
  BY <1>1, <1>2, <1>5, <1>6 DEF TypeOK, LedgerInv, SafetyInv, AtMostOnce
<1>8. (\A w \in Workers : WorkerInv(w)' /\ OrphanInv(w)') /\ OneOwner'
  BY <1>2, <1>6 DEF WorkerInv, OrphanInv, OneOwner, Owning
<1>9. BootInv'
  BY <1>1, <1>2, <1>5, <1>6 DEF SafetyInv, BootInv, TypeOK
<1> QED BY <1>5, <1>7, <1>8, <1>9 DEF SafetyInv, LedgerInv

-----------------------------------------------------------------------------
(***************************************************************************)
(* The theorems.                                                           *)
(***************************************************************************)

\* An empty ledger and idle workers satisfy the invariant.
LEMMA InitSafety == Init => SafetyInv
<1> SUFFICES ASSUME Init PROVE SafetyInv
  OBVIOUS
<1>1. EmptyLedger \in Ledgers
  BY DEF EmptyLedger, Ledgers
<1>2. \A k \in Keys, p \in Phases \cup Terminal : ~Audited(EmptyLedger, k, p)
  BY DEF EmptyLedger, Audited, Logged, Keys
<1>3. \A t \in Targets : EmptyLedger.active[t] = None
  BY DEF EmptyLedger
<1>4. Accounts(EmptyLedger, effects)
  <2>1. \A t \in Targets : ActiveAccounted(EmptyLedger, effects, t)
    BY <1>3 DEF ActiveAccounted
  <2>2. \A k \in Keys : KeyAccounted(EmptyLedger, effects, k)
    BY <1>2 DEF Init, KeyAccounted, Phases, Terminal
  <2> QED BY <2>1, <2>2 DEF Accounts
<1>5. TypeOK
  BY <1>1 DEF Init, TypeOK, Stages
<1>6. (\A w \in Workers : WorkerInv(w) /\ OrphanInv(w)) /\ OneOwner
  BY DEF Init, WorkerInv, OrphanInv, OneOwner, Owning
<1>7. BootInv /\ OwnersInv /\ DiskAhead /\ AtMostOnce
  BY <1>3 DEF Init, BootInv, OwnersInv, DiskAhead, AtMostOnce
<1> QED BY <1>4, <1>5, <1>6, <1>7 DEF SafetyInv, Init

\* Every step of a worker, a crash and the recovery after it keep the invariant.
LEMMA NextSafety == SafetyInv /\ [Next]_vars => SafetyInv'
<1> SUFFICES ASSUME SafetyInv, [Next]_vars PROVE SafetyInv'
  OBVIOUS
<1>1. ASSUME NEW w \in Workers, WorkerStep(w) PROVE SafetyInv'
  BY <1>1, QuietActions, SettleAction, ClaimAction, PersistActions, ExecuteAction, EscalateAction
     DEF WorkerStep
<1>2. ASSUME NEW w \in Workers, NEW k \in Proposals, StartJob(w, k) PROVE SafetyInv'
  BY <1>2, QuietActions
<1>3. CASE Crash
  BY <1>3, CrashAction
<1>4. ASSUME NEW t \in Targets, RecoverAfterRestart(t) PROVE SafetyInv'
  BY <1>4, RecoverAction
<1>5. CASE UNCHANGED vars
  BY <1>5 DEF vars, SafetyInv, TypeOK, WorkerInv, OrphanInv, OneOwner, BootInv, OwnersInv,
              DiskAhead, AtMostOnce
<1> QED BY <1>1, <1>2, <1>3, <1>4, <1>5 DEF Next

\* The inductive invariant holds in every reachable state of every instance.
THEOREM SafetyInductive == Spec => []SafetyInv
BY InitSafety, NextSafety, PTL DEF Spec

\* Type correctness of the ledgers, the workers and the history variables.
THEOREM TypeCorrect == Spec => []TypeOK
<1>1. SafetyInv => TypeOK
  BY DEF SafetyInv
<1> QED BY <1>1, SafetyInductive, PTL

\* Transaction::run performs no action twice for one idempotency key.
THEOREM EffectsAtMostOnce == Spec => []AtMostOnce
<1>1. SafetyInv => AtMostOnce
  BY DEF SafetyInv
<1> QED BY <1>1, SafetyInductive, PTL

\* claim_prepared and recover_stale never put two workers on one target.
THEOREM SingleOwner == Spec => []OneOwner
<1>1. SafetyInv => OneOwner
  BY DEF SafetyInv
<1> QED BY <1>1, SafetyInductive, PTL

\* No input that was sent is ever filed as Failed.
THEOREM FailureIsHonest == Spec => []FailedMeansUnsent
<1>1. SafetyInv => FailedMeansUnsent
  BY DEF SafetyInv, Accounts, KeyAccounted, FailedMeansUnsent, InputKeys
<1> QED BY <1>1, SafetyInductive, PTL

\* Every side effect is on record in memory and in the file.
THEOREM NoLostAttempt == Spec => []AttemptOnRecord
<1>1. SafetyInv => AttemptOnRecord
  BY DEF SafetyInv, Accounts, KeyAccounted, AttemptOnRecord
<1> QED BY <1>1, SafetyInductive, PTL

\* No key is ever filed under two verdicts.
THEOREM VerdictUnique == Spec => []OneVerdict
<1>1. SafetyInv => OneVerdict
  BY DEF SafetyInv, Accounts, KeyAccounted, OneVerdict
<1> QED BY <1>1, SafetyInductive, PTL

\* What run() reported as Succeeded is in the file for good.
THEOREM ReportDurable == Spec => []ReportedIsDurable
<1>1. SafetyInv => ReportedIsDurable
  BY DEF SafetyInv, ReportedIsDurable
<1> QED BY <1>1, SafetyInductive, PTL

\* No step, a crash included, drops an audited record from the memory.
LEMMA AuditGrows ==
    ASSUME SafetyInv, [Next]_vars, NEW k \in Keys, NEW p \in Phases, Audited(mem, k, p)
    PROVE  Audited(mem', k, p)
<1>1. mem \in Ledgers /\ TypeOK
  BY DEF SafetyInv, TypeOK
<1>2. ASSUME NEW r \in Records,
             mem' \in {mem, ClaimPrepared(mem, r), AppendRecord(mem, r), EscalateUncertain(mem, r)}
      PROVE  Audited(mem', k, p)
  BY <1>1, <1>2, OperationFollows DEF Follows
<1>3. CASE mem' = mem
  BY <1>3
<1>4. ASSUME NEW w \in Workers, pc[w] # "idle", NEW phase \in Phases
      PROVE  MyRecord(w, phase) \in Records /\ Prepared(job[w], epoch) \in Records
  BY <1>1, <1>4 DEF SafetyInv, WorkerInv, TypeOK, MyRecord, Prepared, Records, Phases
<1>5. ASSUME NEW o \in Records PROVE InPhase(o, OrphanVerdict(o)) \in Records
  BY DEF InPhase, OrphanVerdict, Records, Phases
<1>6. ASSUME NEW w \in Workers, WorkerStep(w) \/ \E j \in Proposals : StartJob(w, j)
      PROVE  Audited(mem', k, p)
  <2>1. CASE Claim(w)
    <3>1. pc[w] # "idle" /\ mem' \in {mem, ClaimPrepared(mem, Prepared(job[w], epoch))}
      BY <2>1 DEF Claim, WriteOk, WriteFails, Unwritten
    <3> QED BY <3>1, <1>2, <1>4 DEF Phases
  <2>2. CASE Settle(w)
    <3>1. orphan[w] \in Records
      BY <2>2, <1>1 DEF Settle, SafetyInv, OrphanInv, TypeOK
    <3>2. mem' \in {mem, AppendRecord(mem, InPhase(orphan[w], OrphanVerdict(orphan[w])))}
      BY <2>2 DEF Settle, WriteOk, WriteFails, Unwritten
    <3> QED BY <3>1, <3>2, <1>2, <1>5
  <2>3. CASE Escalate(w)
    <3>1. pc[w] # "idle" /\ mem' \in {mem, EscalateUncertain(mem, MyRecord(w, "Uncertain"))}
      BY <2>3 DEF Escalate, WriteOk, WriteFails, Unwritten
    <3> QED BY <3>1, <1>2, <1>4 DEF Phases
  <2>4. CASE Begin(w) \/ PersistSent(w) \/ BeginVerification(w) \/ Succeed(w) \/ Terminate(w)
    <3>1. pc[w] # "idle"
      BY <2>4 DEF Begin, PersistSent, BeginVerification, Succeed, Terminate
    <3>2. \E phase \in Phases : mem' \in {mem, AppendRecord(mem, MyRecord(w, phase))}
      BY <2>4 DEF Begin, PersistSent, BeginVerification, Succeed, Terminate, Persist,
                  WriteOk, WriteFails, Unwritten, Phases
    <3> QED BY <3>1, <3>2, <1>2, <1>4
  <2>5. CASE mem' = mem
    BY <1>3, <2>5
  <2> QED BY <1>6, <2>1, <2>2, <2>3, <2>4, <2>5
          DEF WorkerStep, StartJob, SweepDone, SweepSkip, SweepStale, Baseline, Confirm, Recheck,
              Execute, Receipt, PollVerified, PollGivesUp, Unwritten
<1>7. CASE Crash
  BY <1>7 DEF Crash, SafetyInv, DiskAhead
<1>8. ASSUME NEW t \in Targets, RecoverAfterRestart(t) PROVE Audited(mem', k, p)
  <2>1. mem.active[t] \in Records
    BY <1>1, <1>8 DEF RecoverAfterRestart, SafetyInv, BootInv, Ledgers
  <2>2. mem' \in {mem, AppendRecord(mem, InPhase(mem.active[t], OrphanVerdict(mem.active[t])))}
    BY <1>8 DEF RecoverAfterRestart, WriteOk, WriteFails
  <2> QED BY <2>1, <2>2, <1>2, <1>5
<1>9. CASE UNCHANGED vars
  BY <1>3, <1>9 DEF vars
<1> QED BY <1>6, <1>7, <1>8, <1>9 DEF Next

\* A key with a verdict is never claimed or active again.
THEOREM SettledForGood == Spec => NeverReopened
<1>1. ASSUME SafetyInv, SafetyInv', [Next]_vars
      PROVE  \A k \in Keys : Settled(mem, k) => Settled(mem', k) /\ ~IsActive(mem', k)
  <2> SUFFICES ASSUME NEW k \in Keys, Settled(mem, k)
               PROVE  Settled(mem', k) /\ ~IsActive(mem', k)
    OBVIOUS
  <2>1. PICK p \in Terminal : Audited(mem, k, p)
    BY DEF Settled
  <2>2. p \in Phases
    BY DEF Terminal, Phases
  <2>3. Audited(mem', k, p)
    BY <1>1, <2>1, <2>2, AuditGrows
  <2>4. ~IsActive(mem', k)
    BY <1>1, <2>3 DEF SafetyInv, Accounts, KeyAccounted
  <2> QED BY <2>3, <2>4 DEF Settled
<1>2. SafetyInv /\ SafetyInv' /\ [Next]_vars =>
        [\A k \in Keys : Settled(mem, k) => Settled(mem', k) /\ ~IsActive(mem', k)]_vars
  BY <1>1
<1> QED BY <1>2, SafetyInductive, PTL DEF Spec, NeverReopened

-----------------------------------------------------------------------------
(* The recovery transaction implements ActionPromise, and no job meets a    *)
(* record of an earlier incarnation unless a write failed.  The argument:   *)
(* each operation on a ledger opens or closes at most one key; a failed     *)
(* write leaves the memory alone, so that the file is never more than one   *)
(* operation ahead of it, and the crash that loads the file is a step of    *)
(* the promise as well.                                                     *)

\* Where a key stands depends on its activity and its audited verdicts alone.
LEMMA SameVerdict ==
    ASSUME NEW l, NEW m, NEW k,
           IsActive(m, k) <=> IsActive(l, k),
           \A p \in Terminal : Audited(m, k, p) <=> Audited(l, k, p)
    PROVE  VerdictIn(m, k) = VerdictIn(l, k)
<1>1. \A p \in {"Succeeded", "Failed", "HumanRequired"} : Audited(m, k, p) <=> Audited(l, k, p)
  BY DEF Terminal
<1> QED BY <1>1 DEF VerdictIn

\* In a ledger that accounts for the effects the cases of VerdictIn exclude
\* each other.
LEMMA VerdictCases ==
    ASSUME NEW l, NEW e, Accounts(l, e), NEW k \in Keys
    PROVE  /\ VerdictIn(l, k) \in Terminal \cup {"open", "none"}
           /\ VerdictIn(l, k) = "open" <=> IsActive(l, k)
           /\ \A p \in Terminal : VerdictIn(l, k) = p <=> Audited(l, k, p)
<1>1. \A p \in Terminal : Audited(l, k, p) => ~IsActive(l, k)
  BY DEF Accounts, KeyAccounted
<1>2. \A p, q \in Terminal : Audited(l, k, p) /\ Audited(l, k, q) => p = q
  BY DEF Accounts, KeyAccounted
<1>3. Terminal = {"Succeeded", "Failed", "HumanRequired"}
  BY DEF Terminal
<1>4. CASE IsActive(l, k)
  BY <1>1, <1>3, <1>4 DEF VerdictIn
<1>5. ASSUME NEW p \in Terminal, Audited(l, k, p) PROVE VerdictIn(l, k) = p
  BY <1>1, <1>2, <1>3, <1>5 DEF VerdictIn
<1>6. CASE ~IsActive(l, k) /\ \A p \in Terminal : ~Audited(l, k, p)
  BY <1>3, <1>6 DEF VerdictIn
<1> QED BY <1>1, <1>2, <1>3, <1>4, <1>5, <1>6

\* An active key without a verdict is open.
LEMMA OpenVerdict ==
    ASSUME NEW l, NEW k, IsActive(l, k), \A p \in Terminal : ~Audited(l, k, p)
    PROVE  VerdictIn(l, k) = "open"
BY DEF VerdictIn, Terminal

\* claim_prepared opens its key, which had no verdict, on a free target.
LEMMA ClaimMoves ==
    ASSUME NEW l \in Ledgers, NEW e \in [Keys -> Nat], NEW k \in Keys, NEW n \in Nat,
           Accounts(l, e), CanClaim(l, k)
    PROVE  OneStepOn(l, ClaimPrepared(l, Prepared(k, n)))
<1> DEFINE r == Prepared(k, n)
           m == ClaimPrepared(l, r)
<1>1. r \in Records /\ r.key = k /\ r.phase = "Prepared" /\ k.target \in Targets /\ r # None
  BY NoneAssumption DEF Prepared, Records, Keys, Phases
<1>2. \A t \in Targets : m.active[t] = IF t = k.target THEN r ELSE l.active[t]
  BY <1>1 DEF ClaimPrepared, Ledgers
<1>3. \A j \in Keys, p \in Terminal : Audited(m, j, p) <=> Audited(l, j, p)
  BY <1>1, AuditOfAppend DEF Terminal
<1> HIDE DEF m, r
<1>4. l.active[k.target] = None /\ \A p \in Terminal : ~Audited(l, k, p)
  BY DEF CanClaim, Accounts, KeyAccounted, Terminal, Phases
<1>5. ASSUME NEW j \in Keys \ {k} PROVE VerdictIn(m, j) = VerdictIn(l, j)
  <2>1. IsActive(m, j) <=> IsActive(l, j)
    BY <1>1, <1>2, <1>4 DEF IsActive, Keys
  <2> QED BY <2>1, <1>3, SameVerdict
<1>6. VerdictIn(l, k) = "none"
  BY <1>4, VerdictCases DEF IsActive
<1>7. VerdictIn(m, k) = "open"
  <2>1. IsActive(m, k)
    BY <1>1, <1>2 DEF IsActive
  <2> QED BY <2>1, <1>3, <1>4, OpenVerdict
<1> QED BY <1>4, <1>5, <1>6, <1>7 DEF OneStepOn, m, r

\* append closes the active key when the phase is terminal and otherwise leaves
\* it open.
LEMMA AppendMoves ==
    ASSUME NEW l \in Ledgers, NEW e \in [Keys -> Nat], NEW r \in Records,
           Accounts(l, e), OwnsActive(l, r), r.phase \in OpenPhases \cup Terminal
    PROVE  OneStepOn(l, AppendRecord(l, r))
<1> DEFINE m == AppendRecord(l, r)
           k == r.key
<1>1. k \in Keys /\ k.target \in Targets /\ r.phase \in Phases /\ r # None
  BY NoneAssumption DEF Records, Keys
<1>2. \A t \in Targets : m.active[t] =
         IF t = k.target THEN (IF r.phase \in Terminal THEN None ELSE r) ELSE l.active[t]
  BY <1>1 DEF AppendRecord, Ledgers
<1>3. \A j \in Keys, p \in Phases : Audited(m, j, p) <=> Audited(l, j, p) \/ (j = k /\ p = r.phase)
  BY AuditOfAppend
<1>4. IsActive(l, k)
  BY DEF OwnsActive, IsActive
<1>5. \A p \in Terminal : ~Audited(l, k, p)
  BY <1>1, <1>4 DEF Accounts, KeyAccounted
<1>6. Terminal = {"Succeeded", "Failed", "HumanRequired"} /\ Terminal \subseteq Phases
  BY DEF Terminal, Phases
<1>11. r.key = k
  OBVIOUS
<1> HIDE DEF m, k
<1>7. ASSUME NEW j \in Keys \ {k} PROVE VerdictIn(m, j) = VerdictIn(l, j)
  <2>1. IsActive(m, j) <=> IsActive(l, j)
    BY <1>1, <1>2, <1>4, <1>11 DEF IsActive, Keys
  <2>2. \A p \in Terminal : Audited(m, j, p) <=> Audited(l, j, p)
    BY <1>3, <1>6
  <2> QED BY <2>1, <2>2, SameVerdict
<1>8. VerdictIn(l, k) = "open"
  BY <1>4, <1>5, OpenVerdict
<1>9. CASE r.phase \in Terminal
  <2>1. ~IsActive(m, k)
    BY <1>1, <1>2, <1>9 DEF IsActive
  <2>2. \A p \in Terminal : Audited(m, k, p) <=> p = r.phase
    BY <1>1, <1>3, <1>5, <1>6, <1>9
  <2>3. VerdictIn(m, k) \in Terminal
    BY <2>1, <2>2, <1>6, <1>9 DEF VerdictIn
  <2> QED BY <1>1, <1>7, <1>8, <2>3 DEF OneStepOn, m
<1>10. CASE r.phase \notin Terminal
  <2>1. IsActive(m, k)
    BY <1>1, <1>2, <1>10, <1>11 DEF IsActive
  <2>2. VerdictIn(m, k) = "open"
    BY <2>1, <1>1, <1>3, <1>5, <1>6, <1>10, OpenVerdict
  <2> QED BY <1>1, <1>7, <1>8, <2>2 DEF OneStepOn, m
<1> QED BY <1>9, <1>10

\* escalate_uncertain closes the active key as HumanRequired.
LEMMA EscalateMoves ==
    ASSUME NEW l \in Ledgers, NEW e \in [Keys -> Nat], NEW r \in Records,
           Accounts(l, e), OwnsActive(l, r)
    PROVE  OneStepOn(l, EscalateUncertain(l, r))
<1> DEFINE m == EscalateUncertain(l, r)
           k == r.key
<1>1. k \in Keys /\ k.target \in Targets
  BY DEF Records, Keys
<1>2. \A t \in Targets : m.active[t] = IF t = k.target THEN None ELSE l.active[t]
  BY <1>1 DEF EscalateUncertain, Ledgers
<1>3. \A j \in Keys, p \in Phases :
        Audited(m, j, p) <=> Audited(l, j, p) \/ (j = k /\ p \in {"Uncertain", "HumanRequired"})
  BY AuditOfEscalate
<1>4. IsActive(l, k)
  BY DEF OwnsActive, IsActive
<1>5. \A p \in Terminal : ~Audited(l, k, p)
  BY <1>1, <1>4 DEF Accounts, KeyAccounted
<1>6. Terminal = {"Succeeded", "Failed", "HumanRequired"} /\ Terminal \subseteq Phases
  BY DEF Terminal, Phases
<1> HIDE DEF m, k
<1>7. ASSUME NEW j \in Keys \ {k} PROVE VerdictIn(m, j) = VerdictIn(l, j)
  <2>1. IsActive(m, j) <=> IsActive(l, j)
    BY <1>1, <1>2, <1>4 DEF IsActive, Keys
  <2>2. \A p \in Terminal : Audited(m, j, p) <=> Audited(l, j, p)
    BY <1>3, <1>6
  <2> QED BY <2>1, <2>2, SameVerdict
<1>8. VerdictIn(l, k) = "open"
  BY <1>4, <1>5, OpenVerdict
<1>9. ~IsActive(m, k)
  BY <1>1, <1>2 DEF IsActive
<1>10. \A p \in Terminal : Audited(m, k, p) <=> p = "HumanRequired"
  BY <1>1, <1>3, <1>5, <1>6
<1>11. VerdictIn(m, k) \in Terminal
  BY <1>6, <1>9, <1>10 DEF VerdictIn
<1> QED BY <1>1, <1>7, <1>8, <1>11 DEF OneStepOn, m

-----------------------------------------------------------------------------
\* The ledger m is a step on the memory that leaves the records of earlier
\* incarnations as they are or settles them.
Sound(m) ==
    /\ OneStepOn(mem, m)
    /\ \A t \in Targets : m.active[t] # None /\ m.active[t].owner # epoch => m.active[t] = mem.active[t]

\* An operation on the target t that leaves it free or owned by this daemon.
LEMMA SoundWrite ==
    ASSUME NEW m, NEW t \in Targets, OneStepOn(mem, m), Follows(mem, m, t),
           m.active[t] = None \/ m.active[t].owner = epoch
    PROVE  Sound(m)
BY DEF Sound, Follows

\* What a step does to the ledgers: a crash, nothing, or the write of one
\* sound operation, which may fail.
LEMMA StepKinds ==
    ASSUME SafetyInv, Next
    PROVE  \/ Crash
           \/ /\ Unwritten /\ Steady
              /\ effects' = effects \/ \E w \in Workers : Execute(w)
           \/ \E m : /\ Sound(m)
                     /\ WriteOk(m) \/ WriteFails(m)
                     /\ UNCHANGED <<effects, epoch>>
                     /\ boot' = boot \/ \E t \in Targets : boot' = boot \ {t} /\ m.active[t] = None
<1> DEFINE Writes(m) == /\ Sound(m)
                        /\ WriteOk(m) \/ WriteFails(m)
                        /\ UNCHANGED <<effects, epoch>>
                        /\ boot' = boot \/ \E t \in Targets : boot' = boot \ {t} /\ m.active[t] = None
           Quiet == Unwritten /\ Steady /\ effects' = effects
<1>1. /\ mem \in Ledgers /\ effects \in [Keys -> Nat] /\ epoch \in Nat
      /\ Accounts(mem, effects) /\ TypeOK
  BY DEF SafetyInv, TypeOK
<1>2. ASSUME NEW w \in Workers, Claim(w) PROVE Quiet \/ \E m : Writes(m)
  <2> DEFINE k == job[w]
             m == ClaimPrepared(mem, Prepared(k, epoch))
  <2>1. k \in Keys /\ k.target \in Targets
    BY <1>2 DEF Claim, SafetyInv, WorkerInv, Keys
  <2>2. Steady /\ NoEffect /\ ((CanClaim(mem, k) /\ (WriteOk(m) \/ WriteFails(m))) \/ Unwritten)
    BY <1>2 DEF Claim
  <2>3. CASE CanClaim(mem, k) /\ (WriteOk(m) \/ WriteFails(m))
    <3>1. /\ Prepared(k, epoch) \in Records /\ Prepared(k, epoch).key = k
          /\ Prepared(k, epoch).owner = epoch
      BY <1>1, <2>1 DEF Prepared, Records, Phases
    <3>2. OneStepOn(mem, m)
      BY <1>1, <2>1, <2>3, ClaimMoves
    <3>3. Follows(mem, m, k.target)
      BY <1>1, <3>1, OperationFollows
    <3>4. m.active[k.target].owner = epoch
      BY <1>1, <2>1, <3>1 DEF ClaimPrepared, Ledgers
    <3> HIDE DEF m
    <3>5. Sound(m)
      BY <2>1, <3>2, <3>3, <3>4, SoundWrite
    <3> QED BY <2>2, <2>3, <3>5 DEF Steady, NoEffect
  <2> QED BY <2>2, <2>3 DEF NoEffect
<1>3. ASSUME NEW o \in Records, mem.active[o.key.target] = o,
             NEW m, m = AppendRecord(mem, InPhase(o, OrphanVerdict(o)))
      PROVE  Sound(m) /\ m.active[o.key.target] = None /\ o.key.target \in Targets
  <2>1. o.key.target \in Targets /\ Follows(mem, m, o.key.target) /\ m.active[o.key.target] = None
    BY <1>3, SettledLedger
  <2>2. /\ InPhase(o, OrphanVerdict(o)) \in Records /\ InPhase(o, OrphanVerdict(o)).key = o.key
        /\ InPhase(o, OrphanVerdict(o)).phase \in Terminal
    BY DEF InPhase, OrphanVerdict, Records, Phases, Terminal
  <2>3. OwnsActive(mem, InPhase(o, OrphanVerdict(o)))
    BY <1>3, <2>2, NoneAssumption DEF OwnsActive
  <2>4. OneStepOn(mem, m)
    BY <1>1, <1>3, <2>2, <2>3, AppendMoves
  <2> QED BY <2>1, <2>4, SoundWrite
<1>4. ASSUME NEW w \in Workers, Settle(w) PROVE Quiet \/ \E m : Writes(m)
  <2> DEFINE o == orphan[w]
             m == AppendRecord(mem, InPhase(o, OrphanVerdict(o)))
  <2>1. o \in Records /\ (IsActive(mem, o.key) => mem.active[o.key.target] = o)
    BY <1>1, <1>4 DEF Settle, SafetyInv, OrphanInv, TypeOK
  <2>2. Steady /\ NoEffect
        /\ \/ OwnsActive(mem, InPhase(o, OrphanVerdict(o))) /\ (WriteOk(m) \/ WriteFails(m))
           \/ Unwritten
    BY <1>4 DEF Settle
  <2>3. InPhase(o, OrphanVerdict(o)).key = o.key
    BY <2>1 DEF InPhase, Records
  <2>4. CASE OwnsActive(mem, InPhase(o, OrphanVerdict(o))) /\ (WriteOk(m) \/ WriteFails(m))
    <3>1. mem.active[o.key.target] = o
      BY <2>1, <2>3, <2>4 DEF OwnsActive, IsActive
    <3>2. Sound(m)
      BY <1>3, <2>1, <3>1
    <3> HIDE DEF m
    <3> QED BY <2>2, <2>4, <3>2 DEF Steady, NoEffect
  <2> QED BY <2>2, <2>4 DEF NoEffect
<1>5. ASSUME NEW w \in Workers, Escalate(w) PROVE Quiet \/ \E m : Writes(m)
  <2> DEFINE r == MyRecord(w, "Uncertain")
             m == EscalateUncertain(mem, r)
  <2>1. Steady /\ NoEffect /\ ((OwnsActive(mem, r) /\ (WriteOk(m) \/ WriteFails(m))) \/ Unwritten)
    BY <1>5 DEF Escalate
  <2>2. r \in Records /\ r.key.target \in Targets
    BY <1>1, <1>5 DEF Escalate, SafetyInv, WorkerInv, MyRecord, Records, Keys, Phases
  <2>3. CASE OwnsActive(mem, r) /\ (WriteOk(m) \/ WriteFails(m))
    <3>1. OneStepOn(mem, m) /\ Follows(mem, m, r.key.target)
      BY <1>1, <2>2, <2>3, EscalateMoves, OperationFollows
    <3>2. m.active[r.key.target] = None
      BY <1>1, <2>2 DEF EscalateUncertain, Ledgers
    <3> HIDE DEF m, r
    <3>3. Sound(m)
      BY <2>2, <3>1, <3>2, SoundWrite
    <3> QED BY <2>1, <2>3, <3>3 DEF Steady, NoEffect
  <2> QED BY <2>1, <2>3 DEF NoEffect
<1>6. ASSUME NEW w \in Workers,
             Begin(w) \/ PersistSent(w) \/ BeginVerification(w) \/ Succeed(w) \/ Terminate(w)
      PROVE  Quiet \/ \E m : Writes(m)
  <2>1. PICK phase \in (OpenPhases \cup Terminal) :
          \/ Unwritten
          \/ /\ OwnsActive(mem, MyRecord(w, phase))
             /\ \/ WriteOk(AppendRecord(mem, MyRecord(w, phase)))
                \/ WriteFails(AppendRecord(mem, MyRecord(w, phase)))
    <3>1. {"Begun", "Sent", "Verifying", "Succeeded", "Failed"} \subseteq OpenPhases \cup Terminal
      BY DEF OpenPhases, Terminal
    <3> QED BY <1>6, <3>1 DEF Begin, PersistSent, BeginVerification, Succeed, Terminate, Persist
  <2> DEFINE r == MyRecord(w, phase)
             m == AppendRecord(mem, r)
  <2>2. Steady /\ effects' = effects /\ pc[w] # "idle"
    BY <1>6 DEF Begin, PersistSent, BeginVerification, Succeed, Terminate, NoEffect
  <2>3. r \in Records /\ r.key.target \in Targets /\ r.phase = phase /\ r.owner = epoch
    BY <1>1, <2>2 DEF SafetyInv, WorkerInv, MyRecord, Records, Keys, Phases, OpenPhases, Terminal
  <2>4. CASE OwnsActive(mem, r) /\ (WriteOk(m) \/ WriteFails(m))
    <3>1. OneStepOn(mem, m) /\ Follows(mem, m, r.key.target)
      BY <1>1, <2>3, <2>4, AppendMoves, OperationFollows
    <3>2. m.active[r.key.target] \in {None, r}
      BY <1>1, <2>3 DEF AppendRecord, Ledgers
    <3> HIDE DEF m, r
    <3>3. Sound(m)
      BY <2>3, <3>1, <3>2, SoundWrite
    <3> QED BY <2>2, <2>4, <3>3 DEF Steady
  <2> QED BY <2>1, <2>2, <2>4
<1>7. ASSUME NEW t \in Targets, RecoverAfterRestart(t) PROVE \E m : Writes(m)
  <2> DEFINE o == mem.active[t]
             m == AppendRecord(mem, InPhase(o, OrphanVerdict(o)))
  <2>1. o \in Records /\ o # None
    BY <1>1, <1>7 DEF RecoverAfterRestart, SafetyInv, BootInv, Ledgers
  <2>2. o.key.target = t
    BY <1>1, <2>1 DEF Accounts, ActiveAccounted
  <2>3. Sound(m) /\ m.active[t] = None
    BY <1>3, <2>1, <2>2
  <2>4. (WriteOk(m) \/ WriteFails(m)) /\ boot' = boot \ {t} /\ UNCHANGED <<effects, epoch>>
    BY <1>7 DEF RecoverAfterRestart, NoEffect
  <2> HIDE DEF m
  <2> QED BY <2>3, <2>4
<1>8. ASSUME NEW w \in Workers, WorkerStep(w) \/ \E k \in Proposals : StartJob(w, k)
      PROVE  Quiet \/ (\E m : Writes(m)) \/ (Execute(w) /\ Unwritten /\ Steady)
  <2>1. CASE \/ \E k \in Proposals : StartJob(w, k)
             \/ SweepDone(w)
             \/ \E t \in Targets : SweepSkip(w, t) \/ SweepStale(w, t)
             \/ Baseline(w) \/ Confirm(w) \/ Recheck(w) \/ Receipt(w)
             \/ PollVerified(w) \/ PollGivesUp(w)
    BY <2>1 DEF StartJob, SweepDone, SweepSkip, SweepStale, Baseline, Confirm, Recheck, Receipt,
                PollVerified, PollGivesUp, NoEffect
  <2>2. CASE Execute(w)
    BY <2>2 DEF Execute
  <2> HIDE DEF Writes, Quiet
  <2> QED BY <1>2, <1>4, <1>5, <1>6, <1>8, <2>1, <2>2 DEF WorkerStep
<1> HIDE DEF Writes
<1>9. Crash \/ (Quiet \/ \E w \in Workers : Execute(w) /\ Unwritten /\ Steady) \/ \E m : Writes(m)
  BY <1>7, <1>8 DEF Next
<1> QED BY <1>9 DEF Writes

\* No step leaves an orphan behind the start-up sequence unless a write fails.
LEMMA OrphansStep == SafetyInv /\ OrphansAtBoot /\ [Next]_vars => OrphansAtBoot'
<1> SUFFICES ASSUME SafetyInv, OrphansAtBoot, [Next]_vars PROVE OrphansAtBoot'
  OBVIOUS
<1>1. CASE Crash
  BY <1>1 DEF Crash, OrphansAtBoot, ActiveTargets
<1>2. CASE Unwritten /\ Steady
  BY <1>2 DEF Unwritten, Steady, OrphansAtBoot
<1>3. ASSUME NEW m, Sound(m), WriteOk(m), epoch' = epoch,
             boot' = boot \/ \E t \in Targets : boot' = boot \ {t} /\ m.active[t] = None
      PROVE  OrphansAtBoot'
  BY <1>3 DEF Sound, WriteOk, OrphansAtBoot
<1>4. ASSUME NEW m, WriteFails(m) PROVE OrphansAtBoot'
  <2>1. faults \in Nat /\ faults' = faults + 1
    BY <1>4 DEF SafetyInv, TypeOK, WriteFails
  <2> QED BY <2>1 DEF OrphansAtBoot
<1>5. CASE UNCHANGED vars
  BY <1>5 DEF vars, OrphansAtBoot
<1> QED BY <1>1, <1>2, <1>3, <1>4, <1>5, StepKinds

\* No step lets the file run more than one operation ahead of the memory.
LEMMA AheadStep == SafetyInv /\ OneWriteAhead /\ [Next]_vars => OneWriteAhead'
<1> SUFFICES ASSUME SafetyInv, OneWriteAhead, [Next]_vars PROVE OneWriteAhead'
  OBVIOUS
<1>1. CASE Crash
  BY <1>1 DEF Crash, OneWriteAhead
<1>2. CASE Unwritten
  BY <1>2 DEF Unwritten, OneWriteAhead, OneStepOn
<1>3. ASSUME NEW m, WriteOk(m) PROVE OneWriteAhead'
  BY <1>3 DEF WriteOk, OneWriteAhead
<1>4. ASSUME NEW m, Sound(m), WriteFails(m) PROVE OneWriteAhead'
  <2>1. mem' = mem /\ disk' \in {disk, m}
    BY <1>4 DEF WriteFails
  <2>2. disk' = mem' \/ OneStepOn(mem', disk')
    BY <1>4, <2>1 DEF Sound, OneWriteAhead
  <2> QED BY <2>2 DEF OneWriteAhead, OneStepOn
<1>5. CASE UNCHANGED vars
  BY <1>5 DEF vars, OneWriteAhead, OneStepOn
<1> QED BY <1>1, <1>2, <1>3, <1>4, <1>5, StepKinds

\* The whole inductive invariant holds in every reachable state of every
\* instance of the recovery transaction.
THEOREM Inductive == Spec => []IInv
<1>1. Init => IInv
  BY InitSafety DEF Init, IInv, OrphansAtBoot, OneWriteAhead, EmptyLedger
<1>2. IInv /\ [Next]_vars => IInv'
  BY NextSafety, OrphansStep, AheadStep DEF IInv
<1> QED BY <1>1, <1>2, PTL DEF Spec

\* Unless a write failed, no job runs while a record of an earlier incarnation
\* is active: recover_durable_actions_after_restart has settled them all.
THEOREM OrphansFirst == Spec => []NoOrphanAtWork
<1>1. IInv => NoOrphanAtWork
  BY DEF IInv, SafetyInv, BootInv, OrphansAtBoot, NoOrphanAtWork
<1> QED BY <1>1, Inductive, PTL

\* A step from one accounted ledger to the next, with the effects unchanged, is
\* a step of the promise.
LEMMA PromisedMove ==
    ASSUME Accounts(mem, effects), Accounts(mem', effects), effects' = effects,
           OneStepOn(mem, mem')
    PROVE  [Promise!Next]_<<Verdict, effects>>
<1>1. PICK k \in Keys :
        /\ \A j \in Keys \ {k} : VerdictIn(mem', j) = VerdictIn(mem, j)
        /\ \/ VerdictIn(mem', k) = VerdictIn(mem, k)
           \/ /\ VerdictIn(mem, k) = "none" /\ VerdictIn(mem', k) = "open"
              /\ mem.active[k.target] = None
           \/ VerdictIn(mem, k) = "open" /\ VerdictIn(mem', k) \in Terminal
  BY DEF OneStepOn
<1>2. Verdict' = [j \in Keys |-> VerdictIn(mem', j)]
  BY DEF Verdict, VerdictIn, IsActive, Audited
<1>3. Verdict' = [Verdict EXCEPT ![k] = VerdictIn(mem', k)]
  BY <1>1, <1>2 DEF Verdict
<1>4. CASE VerdictIn(mem', k) = VerdictIn(mem, k)
  BY <1>3, <1>4 DEF Verdict
<1>5. CASE /\ VerdictIn(mem, k) = "none" /\ VerdictIn(mem', k) = "open"
           /\ mem.active[k.target] = None
  <2>1. \A other \in Keys : other.target = k.target => Verdict[other] # "open"
    BY <1>5, VerdictCases DEF Verdict, IsActive
  <2>2. Promise!Open(k)
    BY <1>3, <1>5, <2>1 DEF Promise!Open, Verdict
  <2> QED BY <2>2 DEF Promise!Next
<1>6. CASE VerdictIn(mem, k) = "open" /\ VerdictIn(mem', k) \in Terminal
  <2> DEFINE v == VerdictIn(mem', k)
  <2>1. Audited(mem', k, v)
    BY <1>6, VerdictCases
  <2>2. /\ v = "Failed" /\ k \in InputKeys => effects[k] = 0
        /\ v = "Succeeded" => effects[k] = 1
    BY <2>1 DEF Accounts, KeyAccounted
  <2>3. v \in Promise!Verdicts
    BY <1>6 DEF Promise!Verdicts, Terminal
  <2> HIDE DEF v
  <2>4. Promise!Close(k, v)
    BY <1>3, <1>6, <2>2 DEF Promise!Close, Verdict, v
  <2> QED BY <2>3, <2>4 DEF Promise!Next
<1> QED BY <1>1, <1>4, <1>5, <1>6

\* The executor performs the one effect of a key that is open.
LEMMA PromisedEffect ==
    ASSUME SafetyInv, NEW w \in Workers, Execute(w)
    PROVE  [Promise!Next]_<<Verdict, effects>>
<1> DEFINE k == job[w]
<1>1. k \in Keys /\ IsActive(mem, k) /\ effects[k] = 0 /\ effects \in [Keys -> Nat]
  BY DEF Execute, SafetyInv, TypeOK, WorkerInv, Owning
<1>2. mem' = mem /\ effects' \in {effects, [effects EXCEPT ![k] = 1]}
  BY <1>1 DEF Execute, Performs, Unwritten
<1>3. Verdict' = Verdict
  BY <1>2 DEF Verdict, VerdictIn, IsActive, Audited
<1>4. Verdict[k] = "open"
  BY <1>1, VerdictCases DEF Verdict, SafetyInv
<1> HIDE DEF k
<1>5. CASE effects' = effects
  BY <1>3, <1>5
<1>6. CASE effects' = [effects EXCEPT ![k] = 1]
  <2>1. Promise!Perform(k)
    BY <1>1, <1>3, <1>4, <1>6 DEF Promise!Perform
  <2> QED BY <1>1, <2>1 DEF Promise!Next
<1> QED BY <1>2, <1>5, <1>6

\* Transaction::run, the restart and the sweep implement the promise, whatever
\* crashes, failed writes and concurrent workers do: each step opens, performs
\* or closes one key, or changes nothing the promise speaks of.
THEOREM PromiseKept == Spec => KeepsPromise
<1>1. Init => Promise!Init
  <2> SUFFICES ASSUME Init PROVE Promise!Init
    OBVIOUS
  <2>1. ASSUME NEW k \in Keys PROVE VerdictIn(mem, k) = "none"
    <3>1. Accounts(mem, effects) /\ k.target \in Targets
      BY InitSafety DEF SafetyInv, Keys
    <3>2. ~IsActive(mem, k) /\ \A p \in Terminal : ~Audited(mem, k, p)
      BY <3>1 DEF Init, EmptyLedger, IsActive, Audited, Logged
    <3> QED BY <3>1, <3>2, VerdictCases
  <2> QED BY <2>1 DEF Init, Promise!Init, Verdict
<1>2. IInv /\ IInv' /\ [Next]_vars => [Promise!Next]_<<Verdict, effects>>
  <2> SUFFICES ASSUME IInv, IInv', [Next]_vars PROVE [Promise!Next]_<<Verdict, effects>>
    OBVIOUS
  <2>1. SafetyInv /\ Accounts(mem, effects) /\ Accounts(mem', effects')
    BY DEF IInv, SafetyInv
  <2>2. CASE mem' = mem /\ effects' = effects
    BY <2>2 DEF Verdict, VerdictIn, IsActive, Audited
  <2>3. CASE Crash
    <3>1. mem' = disk /\ effects' = effects
      BY <2>3 DEF Crash
    <3>2. mem' = mem \/ OneStepOn(mem, mem')
      BY <3>1 DEF IInv, OneWriteAhead
    <3> QED BY <2>1, <2>2, <3>1, <3>2, PromisedMove
  <2>4. CASE Unwritten /\ (effects' = effects \/ \E w \in Workers : Execute(w))
    BY <2>1, <2>2, <2>4, PromisedEffect DEF Unwritten
  <2>5. ASSUME NEW m, Sound(m), WriteOk(m) \/ WriteFails(m), effects' = effects
        PROVE  [Promise!Next]_<<Verdict, effects>>
    <3>1. mem' \in {mem, m}
      BY <2>5 DEF WriteOk, WriteFails
    <3> QED BY <2>1, <2>2, <2>5, <3>1, PromisedMove DEF Sound
  <2>6. CASE UNCHANGED vars
    BY <2>2, <2>6 DEF vars
  <2> QED BY <2>1, <2>3, <2>4, <2>5, <2>6, StepKinds
<1> QED BY <1>1, <1>2, Inductive, PTL DEF Spec, KeepsPromise, Promise!Spec
=============================================================================
