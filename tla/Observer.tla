------------------------------ MODULE Observer ------------------------------
(***************************************************************************)
(* One observation of a watcher: GenericObserver::observe                    *)
(* (daemon/observer_runtime.rs).  It asks the sources one after the other,   *)
(* the strongest first, and returns what the first of them says; between     *)
(* two questions the agent, its files, its pane and its screen may change.   *)
(***************************************************************************)
EXTENDS Places

CONSTANTS MaxRows,    \* rows of a screen
          Bottom,     \* live rows that are looked at, 40 in the code
          MaxChanges  \* changes of the world during one observation

ASSUME BottomAssumption == Bottom \in Nat \ {0}
ASSUME RowsAssumption == MaxRows \in Nat

VARIABLES watch, \* the watcher's state, as the observation got it
          scene, \* the agent, its files, its pane and its screen
          obs    \* the observation

observerVars == <<watch, scene, obs>>

NoEvent == [source |-> "none", category |-> "none", hint |-> "none", moves |-> 0, reset |-> FALSE]
Event(source, category, hint) == [NoEvent EXCEPT !.source = source, !.category = category, !.hint = hint]

-----------------------------------------------------------------------------
(* Claude's hook: the last marker of the session, by what its text contains. *)
Features == {"retry", "account", "weekly", "session", "limit", "overload", "reset time"}
NoMarker == {"no marker"}

classify_stop_failure(text) ==
    CASE "retry" \in text -> "retry"
      [] "account" \in text /\ "retry" \notin text -> "human"
      [] "weekly" \in text /\ text \cap {"retry", "account"} = {} -> "weekly"
      [] "session" \in text /\ text \cap {"retry", "account", "weekly"} = {} -> "session"
      [] "limit" \in text /\ text \cap {"retry", "account", "weekly", "session"} = {} -> "usage"
      [] "overload" \in text /\ text \subseteq {"overload", "reset time"} -> "overload"
      [] OTHER -> "unknown"

\* The process, the transcript and the session are still the registered ones.
correlated_hook_event ==
    LET class == classify_stop_failure(scene.marker) IN
    CASE ~scene.bound \/ scene.marker = NoMarker \/ class \in {"retry", "unknown"} -> NoEvent
      [] OTHER -> [IF class = "human" THEN Event("hook", "failure", "human") ELSE Event("hook", class, "wait")
                   EXCEPT !.reset = "reset time" \in scene.marker]

claude_candidate == watch.waiting /\ watch.last = "limit" /\ watch.due

-----------------------------------------------------------------------------
(* Codex: the goal, as one of three files tells it.                          *)
Goals == [status : {"active", "completed", "other"}, error : {"auth"}, approval : {FALSE}]
         \cup [status : {"blocked", "paused"}, error : {"capacity", "auth"}, approval : BOOLEAN]

classify_goal_snapshot(g) ==
    CASE g.status \notin {"blocked", "paused"} -> "none"
      [] g.status \in {"blocked", "paused"} /\ ~g.approval /\ g.error = "capacity" -> "resume"
      [] OTHER -> "human"

structured_goal_event(g) ==
    CASE classify_goal_snapshot(g) = "resume" -> Event("codex", "capacity", "wait")
      [] classify_goal_snapshot(g) = "human" -> Event("codex", "blocked", "human")
      [] g.status = "active" -> Event("codex", "working", "observe")
      [] g.status = "completed" -> Event("codex", "idle", "observe")
      [] OTHER -> NoEvent

codex_candidate == watch.waiting /\ watch.last = "capacity"

\* The first of the files that is still the bound one.  A rollout counts only
\* while nothing was written to it.
probe_structured_source ==
    CASE scene.bound /\ scene.local -> "local"
      [] scene.bound /\ ~scene.local /\ scene.app -> "app"
      [] scene.bound /\ ~scene.local /\ ~scene.app /\ scene.rollout = "bound" -> "rollout"
      [] OTHER -> "none"

\* The rollout itself, opened by its path: half a last line is no evidence, nor
\* is a file that another observation saw with another size or time.
correlated_rollout_event ==
    IF scene.rollout \in {"torn", "gone"} \/ (watch.logged /\ scene.rollout # "bound")
    THEN NoEvent ELSE structured_goal_event(scene.goal)

-----------------------------------------------------------------------------
(* The screen: rows of text, of code fences, quoted rows and options of a    *)
(* menu, of which one has the cursor.                                        *)
Options == [label : {"wait", "other"}, cursor : BOOLEAN]
Plain == {[label |-> t, cursor |-> FALSE] : t \in {"text", "fence", "quoted"}}
IsOption(row) == row \in Options
Screens == UNION {[1..n -> Options \cup Plain] : n \in 0..MaxRows}

Fenced(rows, i) ==
    rows[i].label = "fence" \/ Cardinality({j \in 1..i - 1 : rows[j].label = "fence"}) % 2 = 1

\* trusted_tmux_screen: without a boundary from the adapter nothing is live.
trusted_tmux_screen(rows) ==
    IF watch.live < Len(rows) THEN {i \in watch.live + 1..Len(rows) : ~Fenced(rows, i)} ELSE {}

\* The live rows at the bottom, or nothing when the last row is not one.
actionable_bottom(rows) ==
    LET live == trusted_tmux_screen(rows) IN
    IF Len(rows) \in live THEN Pick(rows, Highest(live, Bottom)) ELSE <<>>

menu_rows(rows) == Pick(rows, {i \in DOMAIN rows : IsOption(rows[i])})
looks_quoted(rows) == \E i \in DOMAIN rows : rows[i].label = "quoted"

\* Two captures that agree, one cursor, one row that waits: the distance, in a set.
labelled_wait_menu_backwards(first, second) ==
    LET menu == menu_rows(first)
        waits == {i \in DOMAIN menu : menu[i].label = "wait"}
        cursors == {i \in DOMAIN menu : menu[i].cursor}
    IN  IF first = second /\ ~looks_quoted(first) /\ Cardinality(waits) = 1 /\ Cardinality(cursors) = 1
        THEN {c - t : t \in waits, c \in cursors} ELSE {}
labelled_wait_menu(first, second) ==
    LET menu == menu_rows(first)
        waits == {i \in DOMAIN menu : menu[i].label = "wait"}
        cursors == {i \in DOMAIN menu : menu[i].cursor}
    IN  IF first = second /\ ~looks_quoted(first) /\ Cardinality(waits) = 1 /\ Cardinality(cursors) = 1
        THEN {t - c : t \in waits, c \in cursors} ELSE {}

menu_keys(moves) == [i \in 1..(IF moves < 0 THEN -moves ELSE moves) |-> IF moves < 0 THEN "UP" ELSE "DOWN"]
                    \o <<"ENTER">>

-----------------------------------------------------------------------------
(* Recipes: the input or the wait that an event leads to.                    *)
menu_action(e) == menu_keys(e.moves)
wait_for_reset(e) == IF e.reset THEN <<"wait until">> ELSE <<>>
overload_wait == <<"wait">>
ClaudeResume == <<"Continue">>
ClaudeRecipes(e) ==
    CASE e.source = "screen" /\ e.hint = "keys" -> menu_action(e)
      [] e.source = "hook" /\ e.category \in {"usage", "session", "weekly"} -> wait_for_reset(e)
      [] e.source = "hook" /\ e.category = "overload" -> overload_wait
      [] e.source = "hook" /\ e.hint = "resume" -> ClaudeResume
      [] OTHER -> <<>>
capacity_wait == <<"wait">>
GoalResume == <<"/goal resume">>
CodexRecipes(e) ==
    CASE e.hint = "wait" -> capacity_wait
      [] e.hint = "resume" -> GoalResume
      [] OTHER -> <<>>
action_for(e) == IF e.source = "codex" THEN CodexRecipes(e) ELSE ClaudeRecipes(e)

-----------------------------------------------------------------------------
(* Where an observation starts.                                             *)
Watches == [target : {"process", "tmux", "bridge", "native"}, agent : {"claude", "codex"},
            waiting : BOOLEAN, last : {"none", "limit", "capacity"}, due : BOOLEAN,
            logged : BOOLEAN, live : {0, 1, MaxRows}]
QuietGoal == [status |-> "active", error |-> "auth", approval |-> FALSE]
HerdrStates == {"working", "idle", "waiting", "terminated", "blocked", "other"}

Scenes == [marker : SUBSET (Features \cup NoMarker), bound : BOOLEAN, goal : Goals, local : BOOLEAN,
           app : BOOLEAN, rollout : {"bound", "grown", "torn", "gone"}, alive : BOOLEAN, pane : BOOLEAN,
           screen : Seq(Options \cup Plain), state : HerdrStates, events : SUBSET {"terminal", "progress"},
           changes : Nat]

ObserverEvents ==
    [source : {"none", "hook", "codex", "herdr", "process", "screen"},
     category : {"none", "failure", "usage", "session", "weekly", "overload", "model", "capacity", "limit"}
                \cup HerdrStates,
     hint : {"none", "human", "wait", "observe", "keys", "resume"}, moves : Int, reset : BOOLEAN]

ObserverTypeOK ==
    /\ watch \in Watches
    /\ scene \in Scenes
    /\ obs \in [pc : {"start", "hook", "codex", "candidate", "probe", "rollout", "target", "events",
                     "first", "second", "done"},
               event : ObserverEvents, error : BOOLEAN, first : Seq(Options \cup Plain),
               second : Seq(Options \cup Plain), truths : SUBSET Goals, blind : BOOLEAN]

Quiet == [marker |-> NoMarker, bound |-> TRUE, goal |-> QuietGoal, local |-> FALSE, app |-> FALSE,
          rollout |-> "gone", alive |-> TRUE, pane |-> TRUE, screen |-> <<>>, state |-> "other",
          events |-> {}, changes |-> 0]

Starts(goal) == [pc |-> "start", event |-> NoEvent, error |-> FALSE, first |-> <<>>, second |-> <<>>,
                 truths |-> {goal}, blind |-> FALSE]

\* A Claude with a marker or a screen, or a Codex with its files.
ObserverInit ==
    /\ watch \in Watches
    /\ watch.agent = "claude" => ~watch.logged /\ watch.last # "capacity"
    /\ watch.agent = "codex" => watch.last # "limit" /\ watch.due = FALSE /\ watch.live = MaxRows
    /\ watch.target # "tmux" => watch.live = MaxRows
    /\ \/ /\ watch.agent = "codex"
          /\ \E g \in Goals, l, a \in BOOLEAN, r \in {"bound", "gone"} :
               scene = [Quiet EXCEPT !.goal = g, !.local = l, !.app = a, !.rollout = r]
       \/ /\ watch.agent = "claude"
          /\ \E m \in {NoMarker} \cup {f \in SUBSET Features : Cardinality(f) <= 2} :
               scene = [Quiet EXCEPT !.marker = m]
       \/ /\ watch.agent = "claude" /\ watch.target = "tmux"
          /\ ~watch.waiting /\ watch.last = "none" /\ ~watch.due
          /\ \E s \in Screens : scene = [Quiet EXCEPT !.screen = s]
    /\ obs = Starts(scene.goal)

-----------------------------------------------------------------------------
(* The world.                                                               *)
Change(s) ==
    /\ obs.pc # "done" /\ scene.changes < MaxChanges
    /\ scene' = [s EXCEPT !.changes = scene.changes + 1]
    /\ obs' = [obs EXCEPT !.truths = @ \cup {s.goal}]
    /\ UNCHANGED watch
Fail(text) == watch.agent = "claude" /\ Change([scene EXCEPT !.marker = text])
\* The session ends, or one of its files is another file.
Unbind == scene.bound /\ Change([scene EXCEPT !.bound = FALSE])
\* Codex logs what becomes of the goal; half of the line may be there first.
MoveGoal(g, r) ==
    /\ watch.agent = "codex"
    /\ Change([scene EXCEPT !.goal = g, !.rollout = IF @ = "gone" THEN @ ELSE r])
Turn(l, a) == watch.agent = "codex" /\ Change([scene EXCEPT !.local = l, !.app = a])
Redraw(i, row) == i \in DOMAIN scene.screen /\ Change([scene EXCEPT !.screen[i] = row])
Swap == Change([scene EXCEPT !.pane = ~@])
Die == scene.alive /\ Change([scene EXCEPT !.alive = FALSE])
Report(st, ev) == watch.target = "bridge" /\ Change([scene EXCEPT !.state = st, !.events = ev])

-----------------------------------------------------------------------------
(* The observation.                                                         *)
Finish(e) == obs' = [obs EXCEPT !.pc = "done", !.event = e]
Go(pc) == obs' = [obs EXCEPT !.pc = pc]
Err == obs' = [obs EXCEPT !.pc = "done", !.error = TRUE]
\* What a source says, or the next one's turn.
Say(e, pc) == IF e = NoEvent THEN Go(pc) ELSE Finish(e)
Asks(pc) == obs.pc = pc /\ UNCHANGED <<watch, scene>>
ToPane == IF watch.target = "process" THEN "first" ELSE "target"

\* A wait is over and the hook still says why: the agent may be resumed.
observe ==
    /\ Asks("start")
    /\ IF claude_candidate /\ correlated_hook_event # NoEvent
       THEN Finish(Event("hook", "model", "resume")) ELSE Go("hook")
observe_hook == Asks("hook") /\ Say(correlated_hook_event, "codex")

\* observe_codex_event, when a wait for capacity is over: what the goal is now.
observe_codex_unasked ==
    /\ Asks("codex")
    /\ IF codex_candidate THEN Finish(Event("codex", "model", "resume")) ELSE Go("probe")
observe_codex_event ==
    /\ Asks("codex")
    /\ LET source == probe_structured_source IN
       CASE ~codex_candidate -> Go("probe")
         [] codex_candidate /\ source = "none" ->
              obs' = [obs EXCEPT !.pc = "done", !.blind = TRUE, !.event = Event("codex", "model", "resume")]
         [] codex_candidate /\ source = "rollout" -> Go("candidate")
         [] codex_candidate /\ source \in {"local", "app"} ->
              IF classify_goal_snapshot(scene.goal) = "resume"
              THEN Finish(Event("codex", "model", "resume"))
              ELSE Say(structured_goal_event(scene.goal), ToPane)
CandidateRollout ==
    /\ Asks("candidate")
    /\ LET e == correlated_rollout_event IN
       IF e.category = "capacity" THEN Finish(Event("codex", "model", "resume")) ELSE Say(e, "probe")
\* The files once more, for what they say.
ProbeAgain ==
    /\ Asks("probe")
    /\ CASE probe_structured_source = "none" -> Go(ToPane)
         [] probe_structured_source = "rollout" -> Go("rollout")
         [] OTHER -> Say(structured_goal_event(scene.goal), ToPane)
ReadRollout == Asks("rollout") /\ Say(correlated_rollout_event, ToPane)

\* The pane must still be the registered one, with the registered process.
validate_observed_herdr_identity ==
    /\ Asks("target") /\ watch.target \in {"bridge", "native"}
    /\ IF ~scene.pane THEN Err ELSE IF watch.target = "native" THEN Finish(NoEvent) ELSE Go("events")
classify_herdr_state ==
    CASE scene.state \in {"working", "idle", "waiting"} -> Event("herdr", scene.state, "observe")
      [] scene.state \in {"terminated", "blocked"} /\ "terminal" \in scene.events ->
           Event("herdr", scene.state, "observe")
      [] OTHER -> NoEvent
\* The identity once more, then the state and the events; without events a
\* screen is read and nothing is said.
observe_herdr ==
    /\ Asks("events")
    /\ IF ~scene.pane THEN Err
       ELSE \/ Finish(IF scene.events = {} THEN NoEvent ELSE classify_herdr_state)
            \/ scene.events = {} /\ Err

ObserveProcess ==
    /\ Asks("first") /\ watch.target = "process"
    /\ Finish(Event("process", IF scene.alive THEN "working" ELSE "terminated", "observe"))

ResolveTmux ==
    /\ Asks("target") /\ watch.target = "tmux"
    /\ IF scene.pane THEN Go("first") ELSE Err
\* A screen without a menu tells only that it is blank.
GenericTail(rows) == IF rows = <<>> THEN Event("screen", "idle", "observe") ELSE NoEvent
FirstCapture ==
    /\ Asks("first") /\ watch.target = "tmux"
    /\ CASE ~scene.pane -> Err
         [] scene.pane /\ actionable_bottom(scene.screen) = <<>> -> Finish(GenericTail(scene.screen))
         [] OTHER -> obs' = [obs EXCEPT !.pc = "second", !.first = scene.screen]
trusted_menu_event(rows) ==
    {[Event("screen", "limit", "keys") EXCEPT !.moves = m] :
       m \in labelled_wait_menu(actionable_bottom(obs.first), actionable_bottom(rows))}
SecondCapture ==
    /\ Asks("second")
    /\ IF ~scene.pane THEN Err
       ELSE \E e \in IF trusted_menu_event(scene.screen) # {} THEN trusted_menu_event(scene.screen)
                     ELSE {GenericTail(obs.first)} :
              obs' = [obs EXCEPT !.pc = "done", !.event = e, !.second = scene.screen]

ObserverNext ==
    \/ \E text \in {{"limit"}, {"account"}, NoMarker} : Fail(text)
    \/ Unbind \/ Swap \/ Die
    \/ \E g \in Goals, r \in {"grown", "torn"} : MoveGoal(g, r)
    \/ \E l, a \in BOOLEAN : Turn(l, a)
    \/ \E i \in 1..MaxRows, row \in Options \cup Plain : Redraw(i, row)
    \/ \E st \in HerdrStates, ev \in SUBSET {"terminal", "progress"} : Report(st, ev)
    \/ observe \/ observe_hook
    \/ observe_codex_event \/ CandidateRollout \/ ProbeAgain \/ ReadRollout
    \/ validate_observed_herdr_identity \/ observe_herdr
    \/ ObserveProcess
    \/ ResolveTmux \/ FirstCapture \/ SecondCapture

ObserverSpec == ObserverInit /\ [][ObserverNext]_observerVars

-----------------------------------------------------------------------------
\* A Codex goal is resumed only if it was blocked for capacity at
\* some moment of this very observation, however it moves between the reads; the
\* one exception is that none of its files could be read.
ResumeIsBacked ==
    action_for(obs.event) = GoalResume
      => obs.blind \/ \E g \in obs.truths : classify_goal_snapshot(g) = "resume"

\* The menu that is drawn, and the row that the keys choose on it.
MenuOf(rows) == Pick(rows, {i \in trusted_tmux_screen(rows) : IsOption(rows[i])})
PressKey(menu, at, k) ==
    CASE k = "UP" /\ at > 1 -> at - 1
      [] k = "DOWN" /\ at < Len(menu) -> at + 1
      [] OTHER -> at
Press(menu, keys) ==
    LET at[n \in 0..Len(keys)] ==
          IF n = 0 THEN CHOOSE i \in DOMAIN menu : menu[i].cursor
          ELSE PressKey(menu, at[n - 1], keys[n])
    IN  at[Len(keys)]

\* The keys that a trusted menu leads to choose the row that waits, on the menu
\* as it was drawn at the second capture: also when only its bottom was looked
\* at, or it was redrawn in between.
MenuKeysSelectWait ==
    LET menu == MenuOf(obs.second) IN
    obs.event.hint = "keys" /\ Cardinality({i \in DOMAIN menu : menu[i].cursor}) = 1
      => menu[Press(menu, action_for(obs.event))].label = "wait"

\* What the two rest on: the goal of the moment is one of the observation's, an
\* event that asks for a resume is backed by one of them, and keys are the
\* distance on the two captures that were compared.
ObserverInv ==
    /\ ObserverTypeOK
    /\ scene.goal \in obs.truths
    /\ obs.event.source = "codex" /\ obs.event.hint = "resume"
         => obs.blind \/ \E g \in obs.truths : classify_goal_snapshot(g) = "resume"
    /\ obs.event.hint = "keys"
         => /\ obs.pc = "done" /\ obs.event.source = "screen"
            /\ obs.event.moves \in
                 labelled_wait_menu(actionable_bottom(obs.first), actionable_bottom(obs.second))
=============================================================================
