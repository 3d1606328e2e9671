------------------------------- MODULE Planner -------------------------------
(***************************************************************************)
(* The planner broker: the router that chooses planners (planner/router.rs), *)
(* the budgets and the second opinion (planner/mod.rs), the process of a     *)
(* planner (planner/process.rs), and what a plan must pass (planner/         *)
(* schema.rs, policy.rs).  Callers ask concurrently, once each; planning is  *)
(* enabled.  The daemon itself does not call the broker yet.                 *)
(***************************************************************************)
EXTENDS Naturals, Sequences, FiniteSets

CONSTANTS Callers, Events,
          MaxPerEvent, MaxPerDay, MaxConcurrent, \* max_calls_per_event, ..per_session_per_day, max_concurrent_calls
          SecondOpinion,                         \* allow_independent_second_opinion
          AllowUnknown                           \* allow_unknown_provider_family

ASSUME PlanningAssumption == /\ {MaxPerEvent, MaxPerDay, MaxConcurrent} \subseteq Nat
                             /\ {SecondOpinion, AllowUnknown} \subseteq BOOLEAN
ASSUME CallersAssumption == IsFiniteSet(Callers)

VARIABLES budgets, \* BudgetState; one session on one day
          ask      \* a call of request_plan by each caller

plannerVars == <<budgets, ask>>

-----------------------------------------------------------------------------
(* The router.                                                              *)
Families == {"anthropic", "openai", "unknown"}
Failed == "anthropic" \* the family whose agent is stuck
planner_priority == <<1, 2>>
\* What the probe of a planner found; one that is disabled or in an unsafe mode
\* counts like one that is missing.
Probes == [usable : BOOLEAN, family : Families]
resolve_eligible_planners(probes) ==
    LET fits == SelectSeq(planner_priority,
                          LAMBDA id : /\ probes[id].usable
                                      /\ probes[id].family = "unknown" => AllowUnknown
                                      /\ probes[id].family # Failed)
    IN  [i \in DOMAIN fits |-> probes[fits[i]].family]

-----------------------------------------------------------------------------
(* The compiled policy.  An action: its kind, what matters of its argument,   *)
(* and its preconditions; facts are the flags of the context that are set.   *)
Kinds == {"wait", "capture", "status", "escalate", "keys", "text", "stop"}
Args == {"good", "bad", "alternate", "second"}
safe == [facts |-> {"target", "evidence", "untouched", "alive", "pane", "composer", "slot",
                    "cooldown", "menu", "goal blocked"},
         attempts |-> 1, calls |-> 1, contradicted |-> FALSE]
precondition_holds(p, context) == p \in context.facts

\* A wait is bad beyond what is left of the budget, a capture beyond 300 lines, a
\* key or a text outside the compiled list.
Escalates(a) == a.kind = "escalate" /\ a.arg \in {"alternate", "second"}
authorize(a, context, planner) ==
    /\ {"target", "evidence", "untouched", "alive", "pane"} \subseteq context.facts
    /\ Escalates(a) => planner # Failed
    /\ context.attempts > 0 /\ "cooldown" \in context.facts
    /\ Escalates(a) => context.calls > 0
    /\ Escalates(a) /\ a.arg = "second" => context.calls >= 2 /\ {"slot", "composer"} \subseteq context.facts
    /\ \A p \in a.pre : precondition_holds(p, context)
    /\ ~context.contradicted
    /\ \/ a.kind \in {"status", "stop"} \/ Escalates(a)
       \/ a.kind \in {"wait", "capture", "escalate"} /\ a.arg = "good"
       \/ a.kind \in {"keys", "text"} /\ a.arg = "good" /\ "composer" \in context.facts

-----------------------------------------------------------------------------
(* Plans.                                                                   *)
PlanActions == [kind : Kinds, arg : Args, pre : {{}, {"goal blocked"}, {"session"}}]
\* Whether it can be decoded within its bounds, the family it names, whether it
\* names the target, the evidence and the failed family, and is not out of date.
Plans == [decodes : BOOLEAN, family : Families, same : BOOLEAN, fresh : BOOLEAN, action : PlanActions]
allowed_actions == Kinds \ {"stop"} \* as an example of a snapshot's list
validate_recovery_plan(p, planner) ==
    /\ p.family = planner /\ p.family # Failed
    /\ p.same /\ p.fresh
    /\ p.action.kind \in allowed_actions
    /\ authorize(p.action, safe, planner)
\* What may come out of a planner's plan, by its family.
PlanOutcomes ==
    [f \in Families |-> {IF p.decodes /\ validate_recovery_plan(p, f) THEN "plan" ELSE "rejected" : p \in Plans}]

-----------------------------------------------------------------------------
(* The broker.                                                              *)
\* The lists of planners the router may answer with.
Routes == {<<>>} \cup {resolve_eligible_planners(probes) : probes \in [1..2 -> Probes]}
AskStages == {"idle", "invoke", "child", "join", "release", "commit", "done"}
Requests == [pc : AskStages, event : Events \cup {"none"}, planners : Routes, at : Nat,
         killed : BOOLEAN, held : BOOLEAN, before : Nat,
         out : {"none", "human", "denied", "retry", "rejected", "plan"}]

PlannerTypeOK ==
    /\ budgets \in [active : Nat, event : [Events -> Nat], day : Nat]
    /\ ask \in [Callers -> Requests]

PlannerInit ==
    /\ budgets = [active |-> 0, event |-> [e \in Events |-> 0], day |-> 0]
    /\ ask = [c \in Callers |-> [pc |-> "idle", event |-> "none", planners |-> <<>>, at |-> 0,
                                 killed |-> FALSE, held |-> FALSE, out |-> "none", before |-> 0]]

Sets(c, r) == ask' = [ask EXCEPT ![c] = r]
Returned(ev) == {c \in Callers : ask[c].pc = "done" /\ ask[c].at > 0 /\ ask[c].event = ev}

acquire_budget(ev) == /\ budgets.active < MaxConcurrent
                      /\ budgets.event[ev] < MaxPerEvent
                      /\ budgets.day < MaxPerDay
request_plan(c, ev, probes) ==
    LET planners == resolve_eligible_planners(probes)
        r == [ask[c] EXCEPT !.event = ev, !.planners = planners]
    IN  /\ ask[c].pc = "idle"
        /\ \/ planners = <<>> /\ Sets(c, [r EXCEPT !.pc = "done", !.out = "human"]) /\ UNCHANGED budgets
           \/ /\ planners # <<>> /\ ~acquire_budget(ev)
              /\ Sets(c, [r EXCEPT !.pc = "done", !.out = "denied"]) /\ UNCHANGED budgets
           \/ /\ planners # <<>> /\ acquire_budget(ev)
              /\ budgets' = [budgets EXCEPT !.active = @ + 1]
              /\ Sets(c, [r EXCEPT !.pc = "invoke", !.at = 1, !.before = Cardinality(Returned(ev))])

\* One planner is done: its plan ends the request, its failure is followed by the
\* second opinion if there is one.
invoke_with_optional_fallback(c, out) ==
    LET attempts == IF SecondOpinion THEN Len(ask[c].planners) ELSE 1
        r == [ask[c] EXCEPT !.out = out, !.killed = FALSE]
    IN  /\ Sets(c, IF out # "plan" /\ ask[c].at < attempts
                   THEN [r EXCEPT !.pc = "invoke", !.at = @ + 1] ELSE [r EXCEPT !.pc = "release"])
        /\ UNCHANGED budgets

run_planner_process(c) ==
    /\ ask[c].pc = "invoke"
    /\ \/ Sets(c, [ask[c] EXCEPT !.pc = "child"]) /\ UNCHANGED budgets
       \/ invoke_with_optional_fallback(c, "retry")
\* The planner exits, or the time is up and its group is killed.  A process that
\* it leaves behind may hold its output open, and nothing limits how long that is
\* waited for.
JoinReaders(c, killed, held) ==
    /\ ask[c].pc = "child"
    /\ Sets(c, [ask[c] EXCEPT !.pc = "join", !.killed = killed, !.held = held])
    /\ UNCHANGED budgets
ChildExits(c, held) == JoinReaders(c, FALSE, held)
kill_tree(c, held) == JoinReaders(c, TRUE, held)
LeftoverExits(c) ==
    /\ ask[c].pc = "join" /\ ask[c].held
    /\ Sets(c, [ask[c] EXCEPT !.held = FALSE]) /\ UNCHANGED budgets
\* What its output amounts to; too much of it is refused as a bad plan is.
ReadOutput(c) == IF ask[c].killed THEN {"retry"}
                 ELSE {"rejected"} \cup PlanOutcomes[ask[c].planners[ask[c].at]]
invoke_one(c, out) ==
    /\ ask[c].pc = "join" /\ ~ask[c].held
    /\ out \in ReadOutput(c)
    /\ invoke_with_optional_fallback(c, out)

release_concurrency(c) ==
    /\ ask[c].pc = "release"
    /\ budgets' = [budgets EXCEPT !.active = IF @ = 0 THEN 0 ELSE @ - 1]
    /\ Sets(c, [ask[c] EXCEPT !.pc = "commit"])
commit_budget_if_planned(c) ==
    /\ ask[c].pc = "commit"
    /\ budgets' = IF ask[c].out = "plan"
                  THEN [budgets EXCEPT !.event[ask[c].event] = @ + 1, !.day = @ + 1] ELSE budgets
    /\ Sets(c, [ask[c] EXCEPT !.pc = "done"])
commit_budget(c) ==
    /\ ask[c].pc = "commit"
    /\ budgets' = [budgets EXCEPT !.event[ask[c].event] = @ + 1, !.day = @ + 1]
    /\ Sets(c, [ask[c] EXCEPT !.pc = "done"])

PlannerNext ==
    \E c \in Callers :
      \/ \E ev \in Events, probes \in [1..2 -> Probes] : request_plan(c, ev, probes)
      \/ run_planner_process(c)
      \/ \E held \in BOOLEAN : ChildExits(c, held) \/ kill_tree(c, held)
      \/ LeftoverExits(c)
      \/ \E out \in {"retry", "rejected", "plan"} : invoke_one(c, out)
      \/ release_concurrency(c)
      \/ commit_budget(c)

PlannerSpec == PlannerInit /\ [][PlannerNext]_plannerVars

-----------------------------------------------------------------------------
\* However requests overlap and fail, no more planners run at once than the limit
\* says, and a request is turned away once the event has had all its calls: a
\* call beyond the budget is only ever one that began before the last of them
\* returned, because a call is counted when it ends and after it gave its slot up.
CallsAreBudgeted ==
    /\ Cardinality({c \in Callers : ask[c].pc \in {"invoke", "child", "join"}}) <= MaxConcurrent
    /\ \A c \in Callers : ask[c].at > 0 => ask[c].before < MaxPerEvent

-----------------------------------------------------------------------------
(***************************************************************************)
(* The inductive invariant behind it.                                      *)
(***************************************************************************)

\* The callers that have a slot, until they release it.
Holders == {c \in Callers : ask[c].pc \in {"invoke", "child", "join", "release"}}

\* Every slot in use is a holder's, every counted call one that returned, and a
\* request under way has an event and a planner.
PlannerInv ==
    /\ PlannerTypeOK
    /\ budgets.active = Cardinality(Holders) /\ budgets.active <= MaxConcurrent
    /\ \A ev \in Events : budgets.event[ev] = Cardinality(Returned(ev))
    /\ \A c \in Callers : /\ ask[c].pc \notin {"idle", "done"} => ask[c].event \in Events /\ ask[c].at > 0
                          /\ ask[c].pc = "idle" => ask[c].at = 0
                          /\ ask[c].at > 0 => ask[c].before < MaxPerEvent
=============================================================================
