------------------------------ MODULE Delivery ------------------------------
(***************************************************************************)
(* How an input or a capture reaches the pane of the watched agent:         *)
(* execute_mux_action (daemon/mod.rs), the actuator (recovery/actuator.rs), *)
(* execute_capture and the composer check (daemon/recovery_runtime.rs), and *)
(* the three wires, tmux (mux/tmux.rs), Herdr's bridge (mux/herdr/mod.rs)   *)
(* and native Herdr (mux/herdr/native.rs).  One call of the executor is a   *)
(* plan of requests to the multiplexer, made one at a time; between two of  *)
(* them the human types, the pane gets another process, a reply is lost.    *)
(***************************************************************************)
EXTENDS Naturals, Sequences

CONSTANTS Cap,       \* lines that fit into the composer check's 1024 bytes
          Heights,   \* heights of the screens the agent draws
          MaxKeys,   \* bound on the keys of one action, 16 in the code
          MaxHuman   \* bound on what the human does during one call

ASSUME CapAssumption == Cap \in Nat \ {0}
ASSUME KeysAssumption == MaxKeys \in Nat /\ MaxHuman \in Nat
ASSUME HeightsAssumption == Heights \subseteq Nat \ {0}

VARIABLES pane, \* the pane and its process: what is on the other side
          call  \* the call of execute_mux_action

deliveryVars == <<pane, call>>

Wires == {"tmux", "bridge", "native"}
\* The keys an action may carry (valid_key) and the ones a pane is sent.
valid_key == {"ENTER", "ESCAPE", "BACKTAB"}
symbolic_key == {"ENTER", "ESCAPE"}

\* An action, as far as delivery looks at it: its kind, whether its text has
\* control characters, its keys, and the source a capture asks for.
Actions ==
    [kind : {"text", "submit"}, control : BOOLEAN, keys : {<<>>}, source : {"none"}]
    \cup [kind : {"keys"}, control : {FALSE}, source : {"none"},
          keys : UNION {[1..n -> valid_key] : n \in 0..MaxKeys}]
    \cup [kind : {"capture"}, control : {FALSE}, keys : {<<>>},
          source : {"screen_recent", "structured_state", "log_tail"}]

\* The watcher's side: which source its last observation has, whether the
\* target is a pane that was revalidated since the restart, whether the stored
\* context agrees with it, and whether the recorded process has the digest of its
\* ancestors: a registration stores it, the re-exec of the target drops it.
Bindings == [observed : {"none", "screen", "typed", "other"}, mux : BOOLEAN, agrees : BOOLEAN,
             digest : BOOLEAN]

-----------------------------------------------------------------------------
(* The screen: Lines from the top; the agent's input line is the last one,  *)
(* or, in Codex, the one with the prompt, above a status line.              *)
Lines == {"output", "blank", "prompt", "draft", "footer"}
Blank(l) == l = "blank"

\* A Codex screen and a plain one of that height with nothing typed.
Screen(codex, height) ==
    LET top == [i \in 1..height |-> IF i % 2 = 1 THEN "output" ELSE "blank"] IN
    IF codex THEN top \o <<"prompt", "blank", "footer">> ELSE top \o <<"blank">>
InputLine(codex, s) == IF codex THEN Len(s) - 2 ELSE Len(s)
Draft(codex, s) == [s EXCEPT ![InputLine(codex, s)] = "draft"]
Cleared(codex, s) == [s EXCEPT ![InputLine(codex, s)] = IF codex THEN "prompt" ELSE "blank"]
Drafted(codex, s) == s[InputLine(codex, s)] = "draft"

\* codex_composer.rs: below the last prompt there may only be blank lines and
\* the status line, and the prompt must be empty or one of the placeholders.
state_from_recent(s) ==
    LET prompts == {i \in DOMAIN s : s[i] \in {"prompt", "draft"}}
        p == CHOOSE i \in prompts : \A j \in prompts : j <= i
        after == {i \in DOMAIN s : i > p /\ ~Blank(s[i])}
    IN  CASE prompts = {} -> "unknown"
          [] prompts # {} /\ after = {} -> "unknown"
          [] prompts # {} /\ after # {} ->
               IF (\E i \in after : after = {i} /\ s[i] = "footer") /\ s[p] = "prompt"
               THEN "safe" ELSE "unsafe"

\* What the last lines of the pane arrive as.  tmux prints the whole screen and
\* truncate_capture keeps the first bytes of it; Herdr returns the last lines.
Captured(wire, s) ==
    IF wire = "tmux" /\ Len(s) > Cap THEN SubSeq(s, 1, Cap) ELSE s
\* RuntimeComposerSafety::observe.
composer_state(codex, wire, seen) ==
    IF codex /\ wire = "native" THEN state_from_recent(seen)
    ELSE IF Blank(seen[Len(seen)]) THEN "safe" ELSE "unsafe"

-----------------------------------------------------------------------------
(* The plans.  id: ask for the pane's process and compare; pin: the same,   *)
(* and keep the pane's revision; same: and compare the revision; read: ask  *)
(* for the lines; judge: is the input line empty in them; send: type;       *)
(* refused: a request this wire does not know.                              *)
tmux_capture_tail_unchecked == <<"id", "read">>
tmux_capture_tail == <<"id", "read", "id">>
herdr_capture_tail == <<"id", "read", "id">>
capture_native == <<"id", "read">>
capture_mux_target(wire) == CASE wire = "tmux" -> tmux_capture_tail
                              [] wire = "bridge" -> herdr_capture_tail
                              [] wire = "native" -> capture_native
require_safe(wire) == capture_mux_target(wire) \o <<"judge">>

\* tmux: send_literal and send_key.
TmuxInputTrusting == <<"id">> \o require_safe("tmux") \o <<"send">>
TmuxInput == <<"id">> \o require_safe("tmux") \o <<"id", "send">>
\* Herdr: the checks are made twice before and once more after the request; a
\* native server refuses the bridge's request.
BridgeInput(wire) ==
    LET checks == <<"id">> \o require_safe(wire) IN
    checks \o checks \o (IF wire = "native" THEN <<"refused">> ELSE <<"send">> \o checks)
\* native.rs, submit_native.
submit_native ==
    <<"pin">> \o require_safe("native") \o <<"same">> \o require_safe("native") \o <<"send">>

\* What is typed: the units of the action.
Units(a) == CASE a.kind \in {"text", "submit"} -> <<a.kind>>
              [] a.kind = "keys" -> a.keys
              [] OTHER -> <<>>
\* A call opens with the actuator's identity check, or is a capture; then it types
\* its units one by one.
UnitKinds == {"check", "capture", "text", "submit"} \cup valid_key
UnitAt(a, n) == IF n > 0 THEN Units(a)[n] ELSE IF a.kind = "capture" THEN "capture" ELSE "check"
\* The requests of each.  A screen is captured from tmux only; Herdr's typed state
\* is a request of the bridge.
UnitPlan(wire, unit) ==
    CASE unit = "check" -> <<"id">>
      [] unit = "capture" -> IF wire = "tmux" THEN capture_mux_target(wire)
                             ELSE IF wire = "bridge" THEN <<"id", "read">> ELSE <<"id", "refused">>
      [] unit = "submit" -> IF wire = "native" THEN submit_native ELSE <<"refused">>
      [] OTHER -> IF wire = "tmux" THEN TmuxInput ELSE BridgeInput(wire)
Plan == [wire \in Wires |-> [unit \in UnitKinds |-> UnitPlan(wire, unit)]]

\* Action::validate and validate_action.
validate_action(a) ==
    /\ ~a.control
    /\ a.kind = "keys" => a.keys # <<>> /\ \A i \in DOMAIN a.keys : a.keys[i] \in symbolic_key
\* A capture reads what produced the current observation, and nothing else.
capture_source_matches(wire, a, b) ==
    IF wire = "tmux" THEN a.source = "screen_recent" /\ b.observed = "screen"
    ELSE a.source = "structured_state" /\ b.observed = "typed"

\* The first refusal that applies, before any request is made.
Refusal(wire, a, b) ==
    CASE a.kind = "capture" /\ ~capture_source_matches(wire, a, b) -> "unsafe"
      [] a.kind # "capture" /\ b.observed = "none" -> "unsafe"
      [] OTHER -> IF ~b.mux THEN "unsafe"
                  ELSE IF ~b.agrees THEN "integration"
                  ELSE IF validate_action(a) THEN "none" ELSE "unsafe"

Idle == [st |-> "idle", wire |-> "tmux", codex |-> FALSE, act |-> CHOOSE a \in Actions : a.kind = "text",
         unit |-> 0, place |-> 1, at |-> 1, rev |-> 0, seen |-> <<"blank">>, own |-> TRUE, out |-> "none",
         digest |-> TRUE, why |-> "none"]

\* The plan the call is in, and its next request.
PlanNow == Plan[call.wire][UnitAt(call.act, call.unit)]
Step == PlanNow[call.place]

Calls == [st : {"idle", "running", "done"}, wire : Wires, codex : BOOLEAN, act : Actions,
          unit : Nat, place : Nat, at : Nat \ {0}, rev : Nat, seen : Seq(Lines) \ {<<>>}, own : BOOLEAN,
          out : {"none", "unsafe", "integration", "possible", "committed", "captured"},
          digest : BOOLEAN, why : {"none", "identity", "fault", "composer"}]
Typings == [unit : {"text", "submit"} \cup valid_key, mine : BOOLEAN, clear : BOOLEAN, at : Nat]
Panes == [mine : BOOLEAN, screen : Seq(Lines), rev : Nat, human : Nat, swapped : Nat, drafted : Nat,
          typed : Seq(Typings)]

DeliveryTypeOK ==
    /\ call \in Calls /\ pane \in Panes
    /\ call.unit <= Len(Units(call.act)) /\ call.place \in 1..Len(PlanNow)

DeliveryInit ==
    /\ call = Idle
    /\ pane = [mine |-> TRUE, screen |-> <<"blank">>, rev |-> 0, human |-> 0,
               swapped |-> 0, drafted |-> 0, typed |-> <<>>]

-----------------------------------------------------------------------------
\* Everything before the first unit fails as an integration error, and so does
\* a capture; from then on an error may hide an input.
FailureOptimistic == IF call.at = 1 \/ call.act.kind = "capture" \/ call.wire = "tmux" THEN "integration" ELSE "possible"
Failure == IF call.at = 1 \/ call.act.kind = "capture" THEN "integration" ELSE "possible"
Ends(out, why) == call' = [call EXCEPT !.st = "done", !.out = out, !.why = why]
\* On to the next request, the next unit, or the end.
Goes(c) ==
    call' = CASE call.place < Len(PlanNow) -> [c EXCEPT !.place = @ + 1, !.at = @ + 1]
              [] call.place >= Len(PlanNow) /\ call.unit < Len(Units(call.act)) ->
                   [c EXCEPT !.unit = @ + 1, !.place = 1, !.at = @ + 1]
              [] OTHER -> [c EXCEPT !.st = "done",
                             !.out = IF c.act.kind = "capture" THEN "captured" ELSE "committed"]

\* execute_mux_action is called for a watcher of this binding.
Execute(wire, codex, a, b, height) ==
    /\ pane' = [pane EXCEPT !.screen = Screen(codex, height)]
    /\ LET c == [call EXCEPT !.wire = wire, !.codex = codex, !.act = a,
                               !.digest = b.digest] IN
       IF Refusal(wire, a, b) = "none" THEN call' = [c EXCEPT !.st = "running"]
       ELSE call' = [c EXCEPT !.st = "done", !.out = Refusal(wire, a, b)]

\* The pane's process as each wire reports it: tmux's is built without the digest
\* of the ancestors, a bridge sends one, a native server's is the recorded one
\* once its pid, its start and its terminal agree.
parse_metadata == [mine |-> pane.mine, digest |-> FALSE]
map_pane == [mine |-> pane.mine, digest |-> call.digest]
native_target_snapshot == [mine |-> pane.mine, digest |-> call.digest]
Recorded == [mine |-> TRUE, digest |-> call.digest]

process_matches(expected, actual) == expected = actual
tmux_identity_holds == process_matches(Recorded, parse_metadata)
bridge_identity_holds == map_pane = Recorded
native_identity_holds ==
    /\ native_target_snapshot = Recorded
    /\ Step = "same" => call.rev = pane.rev

\* validate_identity, by the wire of the stored context.
ValidateIdentity ==
    /\ call.st = "running" /\ Step \in {"id", "pin", "same"}
    /\ IF CASE call.wire = "tmux" -> tmux_identity_holds
            [] call.wire = "bridge" -> bridge_identity_holds
            [] call.wire = "native" -> native_identity_holds
       THEN Goes([call EXCEPT !.rev = IF Step = "pin" THEN pane.rev ELSE @])
       ELSE Ends(Failure, "identity")
    /\ UNCHANGED pane

\* The request for the last lines is answered.
ReadPane ==
    /\ call.st = "running" /\ Step = "read"
    /\ Goes([call EXCEPT !.seen = Captured(call.wire, pane.screen), !.own = pane.mine])
    /\ UNCHANGED pane

RequireSafe ==
    /\ call.st = "running" /\ Step = "judge"
    /\ IF composer_state(call.codex, call.wire, call.seen) = "safe" THEN Goes(call)
       ELSE Ends("possible", "composer")
    /\ UNCHANGED pane

\* The unit reaches whatever the pane holds now.  A text stays on the input
\* line, a key or a submission empties it, as far as the agent has drawn it.
Types ==
    LET unit == Units(call.act)[call.unit]
        drawn == IF unit = "text" THEN Draft(call.codex, pane.screen)
                 ELSE Cleared(call.codex, pane.screen)
    IN  \E s \in {pane.screen, drawn} :
          pane' = [pane EXCEPT !.screen = s, !.rev = @ + 1,
                     !.typed = Append(@, [unit |-> unit, mine |-> pane.mine, at |-> call.at,
                                          clear |-> ~Drafted(call.codex, pane.screen)])]

\* The request is carried out and acknowledged.
Send ==
    /\ call.st = "running" /\ Step = "send"
    /\ Types
    /\ Goes(call)

\* It is carried out and the acknowledgement is late, cut off, malformed or lost;
\* a tmux client that is killed at its deadline may have delivered, too.
SendUnanswered ==
    /\ call.st = "running" /\ Step = "send"
    /\ Types
    /\ Ends("possible", "fault")

\* A request fails, times out or is refused, and has no effect.
RequestFails(wire) ==
    /\ call.st = "running" /\ call.wire = wire /\ Step # "judge"
    /\ Ends(Failure, "fault")
    /\ UNCHANGED pane
\* tmux: the command ends with an error or is killed at its deadline.
run_bounded == RequestFails("tmux")
\* The bridge: no connection, a foreign peer, a late or malformed answer.
call_async == RequestFails("bridge")
\* A native server, which refuses the bridge's requests as well.
call_native == RequestFails("native")

Disturbed == pane.human < MaxHuman /\ call.st = "running"

\* The human types into the agent, or takes what is there away.
HumanTypes ==
    /\ Disturbed /\ pane.mine
    /\ \/ /\ ~Drafted(call.codex, pane.screen)
          /\ pane' = [pane EXCEPT !.human = @ + 1, !.rev = @ + 1, !.drafted = call.at,
                                  !.screen = Draft(call.codex, @)]
       \/ /\ Drafted(call.codex, pane.screen)
          /\ pane' = [pane EXCEPT !.human = @ + 1, !.rev = @ + 1,
                                  !.screen = Cleared(call.codex, @)]
    /\ UNCHANGED call

\* The agent ends and the pane has another process.
TargetReplaced ==
    /\ Disturbed /\ pane.mine
    /\ pane' = [pane EXCEPT !.human = @ + 1, !.rev = @ + 1, !.mine = FALSE, !.swapped = call.at]
    /\ UNCHANGED call

DeliveryNext ==
    \/ /\ call.st = "idle"
       /\ \E wire \in Wires, codex \in BOOLEAN, a \in Actions, b \in Bindings, height \in Heights :
            Execute(wire, codex, a, b, height)
    \/ ValidateIdentity
    \/ ReadPane
    \/ RequireSafe
    \/ Send
    \/ SendUnanswered
    \/ run_bounded
    \/ call_async
    \/ call_native
    \/ HumanTypes
    \/ TargetReplaced

-----------------------------------------------------------------------------
\* How many requests may lie between the last identity check, or the last read
\* of the lines, and the request that types.
IdentityWindow == [w \in Wires |-> CASE w = "tmux" -> 1 [] w = "bridge" -> 2 [] w = "native" -> 3]
ComposerWindow == [w \in Wires |-> CASE w = "tmux" -> 4 [] w = "bridge" -> 3 [] w = "native" -> 2]

\* truncate_capture keeps the first bytes: what the composer of a longer screen is
\* judged by is a line above it.
Cutoff == Len(Captured(call.wire, pane.screen)) < Len(pane.screen)

\* Input goes to a process that is not the recorded one, or onto a line the
\* human has begun, only when that happened after the last identity check, or
\* the last read of the lines, that send_literal, send_key and submit_native
\* make, and no later than that: none is skipped, and no key of a sequence rides
\* on the checks of an earlier one.  The exception is a tmux screen that is cut
\* off above its composer, of which the check says nothing.
NoBlindInput ==
    \A i \in DOMAIN pane.typed :
      LET u == pane.typed[i] IN
      /\ u.mine \/ pane.swapped > u.at - IdentityWindow[call.wire]
      /\ u.clear \/ ~u.mine \/ Cutoff \/ pane.drafted > u.at - ComposerWindow[call.wire]

\* What execute returns is what happened: nothing was typed when the error says
\* unsafe or integration, which the transaction takes for no side effect, and
\* all of the action, in order and once, when it says committed.
OutcomeIsTrue ==
    LET units == [i \in DOMAIN pane.typed |-> pane.typed[i].unit] IN
    /\ call.out \in {"unsafe", "integration", "captured"} => units = <<>>
    /\ call.out = "committed" => units = Units(call.act)
    /\ Len(units) <= Len(Units(call.act)) /\ \A i \in DOMAIN units : units[i] = Units(call.act)[i]

\* Lines that the composer is judged by, or that a capture returns, are the
\* recorded process's, whatever happens to the pane while they are read: on tmux
\* and on the bridge the identity is asked for again after the read.  (A native
\* read, and Herdr's typed state, have no such second check.)
SeenIsOfTarget ==
    \/ call.own \/ call.wire = "native"
    \/ call.wire = "bridge" /\ call.act.kind = "capture"
    \/ call.st = "running" /\ Step # "judge" /\ call.place > 1 /\ PlanNow[call.place - 1] = "read"
    \/ call.out \in {"integration", "possible"}

\* A tmux target is taken for another one only when the pane has got another
\* process: the identity is the pane's identifiers and the process's start time,
\* as docs/compatibility.md says.  The code compares more than that.
SameTargetAccepted == call.wire = "tmux" /\ call.why = "identity" => ~pane.mine

DeliverySpec == DeliveryInit /\ [][DeliveryNext]_deliveryVars

-----------------------------------------------------------------------------
(***************************************************************************)
(* The inductive invariant behind them.  In each plan, q is the place of a  *)
(* request that was answered.                                               *)
(***************************************************************************)
Checks == {"id", "pin", "same"}
Answered == 1..(call.place - 1)

\* The composer of Codex has a blank line and the status line below it.
ScreenInv ==
    LET n == Len(pane.screen) IN
    IF call.codex THEN n >= 3 /\ pane.screen[n] = "footer" /\ pane.screen[n - 1] = "blank" ELSE n >= 1

\* A call that has not begun has done nothing, and nothing has happened later than
\* the next request.
BeginInv ==
    /\ call.st = "idle" => call = Idle /\ pane.typed = <<>> /\ pane.mine
    /\ call.st = "running" => call.out = "none"
    /\ call.at = 1 => call.unit = 0
    /\ pane.swapped <= call.at /\ pane.drafted <= call.at

\* What was typed are the first units, up to the one whose plan has typed.
Sent == \E q \in Answered : PlanNow[q] = "send"
TypedInv ==
    call.st = "running" =>
       Len(pane.typed) = IF Sent \/ call.unit = 0 THEN call.unit ELSE call.unit - 1

\* Another process came after every identity check that was passed in this plan,
IdentityInv ==
    call.st = "running" /\ ~pane.mine =>
       \A q \in Answered : PlanNow[q] \in Checks => pane.swapped > call.at - (call.place - q)

\* a draft after every read of the lines that was judged, as long as nothing of
\* WatchMe's own is on the line,
ComposerInv ==
    call.st = "running" /\ (call.act.kind = "keys" \/ pane.typed = <<>>)
    /\ pane.mine /\ ~Cutoff /\ Drafted(call.codex, pane.screen) =>
       \A q \in Answered : PlanNow[q] = "read" =>
          \/ pane.drafted > call.at - (call.place - q)
          \/ /\ composer_state(call.codex, call.wire, call.seen) # "safe"
             /\ \A j \in Answered : j > q => PlanNow[j] # "judge"

\* and lines of another process were read just now.
SeenInv ==
    call.st = "running" /\ ~call.own => ~pane.mine

DeliveryInv ==
    /\ DeliveryTypeOK /\ ScreenInv /\ BeginInv /\ TypedInv /\ IdentityInv /\ ComposerInv /\ SeenInv
    /\ NoBlindInput /\ OutcomeIsTrue /\ SeenIsOfTarget
=============================================================================
