------------------------------- MODULE Rollout -------------------------------
(***************************************************************************)
(* The evidence for a blocked Codex goal: observe_bound_codex_state          *)
(* (agents/codex_state.rs) reads the goal's status from one file and the     *)
(* last turn from the end of another, while Codex writes both.  A record of  *)
(* the rollout is a start or an end of a turn, the capacity message of the   *)
(* assistant, or an input of the user; the last one may be half written.     *)
(***************************************************************************)
EXTENDS Integers, Sequences

CONSTANTS Turns,      \* identifiers of turns
          TailLen,    \* records that fit into the part that is read, 1 MiB in the code
          MaxRecords  \* bound on the rollout

ASSUME TailAssumption == TailLen \in Nat \ {0}

VARIABLES codex, \* Codex and its files
          look   \* one call of observe_bound_codex_state

rolloutVars == <<codex, look>>

NoTurn == "no turn"
RolloutRecords == [kind : {"started", "complete"}, turn : Turns] \cup [kind : {"capacity", "user"}, turn : {NoTurn}]
\* A goal that is not blocked: whatever else it is makes no difference here.
Statuses == {"active", "blocked"}

\* The marker of no turn is no turn.
ASSUME TurnsAssumption == NoTurn \notin Turns

RolloutTypeOK ==
    /\ codex \in [file : Seq(RolloutRecords), torn : BOOLEAN, goal : Statuses, bound : BOOLEAN]
    /\ look \in [pc : {"idle", "goal", "rollout", "read", "done"}, goal : Statuses \cup {"none"},
                 clean : BOOLEAN, file : Seq(RolloutRecords), answer : {"none", "quiet", "capacity"}]

RolloutInit ==
    /\ codex = [file |-> <<>>, torn |-> FALSE, goal |-> "active", bound |-> TRUE]
    /\ look = [pc |-> "idle", goal |-> "none", clean |-> TRUE, file |-> <<>>, answer |-> "none"]

-----------------------------------------------------------------------------
(* latest_terminal_turn_has_capacity, record by record.                     *)
ScanUncleared(s, r) ==
    CASE r.kind = "started" -> [s EXCEPT !.turn = r.turn, !.capacity = NoTurn, !.terminal = FALSE]
      [] r.kind = "complete" -> [s EXCEPT !.turn = NoTurn, !.terminal = r.turn = s.capacity]
      [] r.kind = "user" -> s
      [] r.kind = "capacity" -> [s EXCEPT !.capacity = s.turn]
Scan(s, r) ==
    CASE r.kind = "started" -> [s EXCEPT !.turn = r.turn, !.capacity = NoTurn, !.terminal = FALSE]
      [] r.kind = "complete" -> [s EXCEPT !.turn = NoTurn, !.terminal = r.turn = s.capacity]
      [] r.kind = "user" -> [s EXCEPT !.capacity = NoTurn, !.terminal = FALSE]
      [] r.kind = "capacity" -> [s EXCEPT !.capacity = s.turn]
Unscanned == [turn |-> NoTurn, capacity |-> NoTurn, terminal |-> FALSE]
\* The state after each of the records.
Scanned(rs) ==
    LET s[n \in 0..Len(rs)] == IF n = 0 THEN Unscanned ELSE Scan(s[n - 1], rs[n]) IN s
latest_terminal_turn_has_capacity(rs) == Scanned(rs)[Len(rs)].terminal

\* read_rollout_tail: what fits, without the line that the limit cuts.
read_rollout_tail(rs) ==
    IF Len(rs) <= TailLen THEN rs ELSE SubSeq(rs, Len(rs) - TailLen + 2, Len(rs))

-----------------------------------------------------------------------------
(* Codex.  What it writes after the call has taken the rollout's length is   *)
(* not read, and left out.                                                  *)
Unread == look.pc \in {"idle", "goal", "rollout"}
Append1(r) ==
    /\ Unread /\ Len(codex.file) < MaxRecords /\ ~codex.torn
    /\ \E torn \in BOOLEAN : codex' = [codex EXCEPT !.file = Append(@, r), !.torn = torn]
    /\ UNCHANGED look
\* The rest of a record that was half written.
Flush == Unread /\ codex.torn /\ codex' = [codex EXCEPT !.torn = FALSE] /\ UNCHANGED look
SetGoal(g) == Unread /\ codex.goal # g /\ codex' = [codex EXCEPT !.goal = g] /\ UNCHANGED look
\* The session ends, or one of the bound files is another file now.
Rebound == look.pc # "done" /\ codex.bound /\ codex' = [codex EXCEPT !.bound = FALSE] /\ UNCHANGED look

-----------------------------------------------------------------------------
(* The observer.                                                            *)
Gives(a) == look' = [look EXCEPT !.pc = "done", !.answer = a]

\* revalidate_target, revalidate_file for each file, and thread_exists.
revalidate ==
    /\ look.pc = "idle"
    /\ IF codex.bound THEN look' = [look EXCEPT !.pc = "goal"] ELSE Gives("none")
    /\ UNCHANGED codex

\* open_database checks the file before and after it is opened.
read_goal ==
    /\ look.pc = "goal"
    /\ IF codex.bound THEN look' = [look EXCEPT !.pc = "rollout", !.goal = codex.goal] ELSE Gives("none")
    /\ UNCHANGED codex

\* The length is taken once; what is written later is not read.
ReadTail ==
    /\ look.pc = "rollout"
    /\ IF codex.bound
       THEN look' = [look EXCEPT !.pc = "read", !.file = codex.file, !.clean = ~codex.torn]
       ELSE Gives("none")
    /\ UNCHANGED codex

\* The file is checked again; a half record at the end makes it unreadable.
observe_bound_codex_state ==
    /\ look.pc = "read"
    /\ IF codex.bound /\ look.clean
       THEN Gives(IF look.goal = "blocked" /\ latest_terminal_turn_has_capacity(read_rollout_tail(look.file))
                  THEN "capacity" ELSE "quiet")
       ELSE Gives("none")
    /\ UNCHANGED codex

RolloutNext ==
    \/ \E r \in RolloutRecords : Append1(r)
    \/ Flush
    \/ \E g \in Statuses : SetGoal(g)
    \/ Rebound
    \/ revalidate
    \/ read_goal
    \/ ReadTail
    \/ observe_bound_codex_state

RolloutSpec == RolloutInit /\ [][RolloutNext]_rolloutVars

-----------------------------------------------------------------------------
\* The last turn of the whole rollout ended for want of capacity: it has the
\* message, its end is the last of any turn, and neither a new turn nor the user
\* came after the message.
EndedForCapacity(rs) ==
    \E j, k \in DOMAIN rs :
      /\ j < k /\ rs[j].kind = "capacity" /\ rs[k].kind = "complete"
      /\ \A i \in DOMAIN rs : i > j => rs[i].kind \notin {"started", "user"}
      /\ \A i \in DOMAIN rs : i > k => rs[i].kind # "complete"
      /\ \E b \in DOMAIN rs : /\ b < j /\ rs[b] = [kind |-> "started", turn |-> rs[k].turn]
                              /\ \A i \in DOMAIN rs : b < i /\ i < j =>
                                   rs[i].kind \notin {"started", "complete"}

\* A goal is reported as blocked for want of capacity only when the whole
\* rollout says so at the moment it is read, although only its end is read,
\* Codex writes meanwhile, and the goal's status was read before.
CapacityIsLatest == look.answer = "capacity" => EndedForCapacity(look.file)

\* What it rests on: once there is an answer, nothing is read any more.
RolloutInv ==
    /\ RolloutTypeOK
    /\ look.answer = "capacity" => look.pc = "done"
    /\ CapacityIsLatest
=============================================================================
