------------------------------ MODULE MCEdges ------------------------------
(***************************************************************************)
(* The parts at the edge of the daemon, each on its own: a behaviour is one  *)
(* of one part, and the others stay as they start.                           *)
(***************************************************************************)
EXTENDS Delivery, Targets, Rollout, Cursor, Observer, Files, Planner

CONSTANT Parts \* the parts that are looked at

ASSUME PartsAssumption == Parts \subseteq {"delivery", "targets", "rollout", "cursor", "observer", "files", "planner"}

VARIABLE part

edgesVars == <<part, deliveryVars, targetVars, rolloutVars, cursorVars, observerVars, filesVars, plannerVars>>

ObserverRest ==
    /\ watch = [target |-> "process", agent |-> "claude", waiting |-> FALSE, last |-> "none",
                due |-> FALSE, logged |-> FALSE, live |-> MaxRows]
    /\ scene = Quiet /\ obs = Starts(QuietGoal)
FilesRest ==
    /\ disk = [kind |-> "markers", lines |-> <<>>]
    /\ pens = [p \in Pens |-> [pc |-> "idle", session |-> 1, alone |-> TRUE]]
    /\ job = [pc |-> "idle", base |-> <<>>, at |-> 0, lost |-> {}, jobs |-> 0]

EdgesInit ==
    /\ part \in Parts
    /\ DeliveryInit /\ TargetsInit /\ RolloutInit /\ CursorInit /\ PlannerInit
    /\ IF part = "observer" THEN ObserverInit ELSE ObserverRest
    /\ IF part = "files" THEN FilesInit ELSE FilesRest

EdgesNext ==
    \/ /\ part = "delivery" /\ DeliveryNext
       /\ UNCHANGED <<part, targetVars, rolloutVars, cursorVars, observerVars, filesVars, plannerVars>>
    \/ /\ part = "targets" /\ TargetsNext
       /\ UNCHANGED <<part, deliveryVars, rolloutVars, cursorVars, observerVars, filesVars, plannerVars>>
    \/ /\ part = "rollout" /\ RolloutNext
       /\ UNCHANGED <<part, deliveryVars, targetVars, cursorVars, observerVars, filesVars, plannerVars>>
    \/ /\ part = "cursor" /\ CursorNext
       /\ UNCHANGED <<part, deliveryVars, targetVars, rolloutVars, observerVars, filesVars, plannerVars>>
    \/ /\ part = "observer" /\ ObserverNext
       /\ UNCHANGED <<part, deliveryVars, targetVars, rolloutVars, cursorVars, filesVars, plannerVars>>
    \/ /\ part = "files" /\ FilesNext
       /\ UNCHANGED <<part, deliveryVars, targetVars, rolloutVars, cursorVars, observerVars, plannerVars>>
    \/ /\ part = "planner" /\ PlannerNext
       /\ UNCHANGED <<part, deliveryVars, targetVars, rolloutVars, cursorVars, observerVars, filesVars>>

EdgesSpec == EdgesInit /\ [][EdgesNext]_edgesVars

\* Every part's state is what its inductive invariant says: an input is prepared
\* from checks that passed (DeliveryInv), the monitor and the registry agree about
\* each watcher's process (TargetsInv), a look at the rollout ends in what its
\* records say (RolloutInv), the cursor has taken the records up to where it
\* stands, and no buffer outgrows the longest record (CursorInv), what an
\* observation says is backed by what it read (ObserverInv), a half written line
\* is the last one (FilesInv), and the planner's counters are the numbers of the
\* calls they stand for (PlannerInv).
EdgesTypeOK ==
    CASE part = "delivery" -> DeliveryInv
      [] part = "targets" -> TargetsInv
      [] part = "rollout" -> RolloutInv
      [] part = "cursor" -> CursorInv
      [] part = "observer" -> ObserverInv
      [] part = "files" -> FilesInv
      [] part = "planner" -> PlannerInv
=============================================================================
