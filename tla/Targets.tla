------------------------------- MODULE Targets -------------------------------
(***************************************************************************)
(* Which process a watcher is about.  The command line finds the agent      *)
(* among its ancestors (process/mod.rs, process/scoring.rs,                 *)
(* registration_context.rs), the registry takes the watcher in, merges it   *)
(* with one it has, or refuses it (daemon/registry.rs, register), and the   *)
(* process monitor follows the process through its end and its re-exec      *)
(* (daemon/lifecycle.rs), while processes come, go and reuse each other's   *)
(* numbers.  All of them are one user's, on one terminal.                   *)
(***************************************************************************)
EXTENDS Naturals, FiniteSets, FiniteSetsExt, Functions

CONSTANTS MaxPid,     \* process numbers besides the shell's, which is 0
          Exes,       \* executables that are started
          Far,        \* distance from which ancestors count the same, 4 in the code
          Grace,      \* how long a lost process is waited for, 2000 ms in the code
          MaxFirst, MaxSpawn, MaxTime, MaxWatchers, MaxUpsets \* bounds of the model

ASSUME FarAssumption == Far \in 1..5
ASSUME GraceAssumption == Grace \in Nat
ASSUME TargetBoundsAssumption == /\ {MaxPid, MaxFirst, MaxSpawn, MaxTime} \subseteq Nat
                                 /\ MaxFirst <= MaxPid /\ "claude" \in Exes

VARIABLES proc,   \* the process table: by number, the live processes
          reg,    \* the registry: watchers by identifier
          mon,    \* the process monitor's LifecycleMonitor of each watcher
          world   \* clock, processes started, and those that an error or an update hit

targetVars == <<proc, reg, mon, world>>

\* A table with one entry added or replaced, and with one taken out.
With(f, x, v) == [y \in DOMAIN f \cup {x} |-> IF y = x THEN v ELSE f[y]]
Without(f, x) == [y \in DOMAIN f \ {x} |-> f[y]]

Nothing == [x \in {} |-> x]

Shell == 0
Pids == 1..MaxPid
None == "none"

\* identify_agent; "pi" stands for an executable that only a manifest names.
identify_agent(exe) == IF exe \in {"claude", "codex"} THEN exe ELSE None
agent_for(exe) == IF exe = "pi" THEN "manifest" ELSE identify_agent(exe)

\* What the kernel says of a process: its start tells two with the same number
\* apart.
Records == [start : 0..MaxSpawn, exe : Exes \cup {"sh", "deleted"}, group : 0..MaxSpawn]
Identity(p) == [pid |-> p, start |-> proc[p].start, exe |-> proc[p].exe, group |-> proc[p].group]
Identities == [pid : Pids \cup {Shell}, start : 0..MaxSpawn, exe : Exes \cup {"sh", "deleted"},
               group : 0..MaxSpawn]
exact_process_eq(a, b) == a.pid = b.pid /\ a.start = b.start
Alive(i) == i.pid \in DOMAIN proc /\ proc[i.pid].start = i.start

Watchers == [ident : Identities, rich : BOOLEAN, exe0 : Exes,
             life : {"active", "replayed", "stopped", "terminated"}, moved : BOOLEAN]
Monitors == [ident : Identities, since : SUBSET (0..MaxTime)]
Worlds == [now : 0..MaxTime, spawned : 0..MaxSpawn, top : 0..MaxPid,
           excused : SUBSET (0..MaxSpawn), upsets : Nat]

TargetsTypeOK ==
    /\ proc \in [DOMAIN proc -> Records]
    /\ reg \in [DOMAIN reg -> Watchers]
    /\ mon \in [DOMAIN mon -> Monitors] /\ DOMAIN mon \subseteq DOMAIN reg
    /\ world \in Worlds

TargetsInit ==
    /\ proc = [p \in Shell..MaxFirst |-> [start |-> 0, exe |-> IF p = Shell THEN "sh" ELSE "claude",
                                          group |-> 0]]
    /\ world = [now |-> 0, spawned |-> 0, top |-> MaxFirst, excused |-> {}, upsets |-> 0]
    /\ reg = Nothing /\ mon = Nothing

Upset == world.upsets < MaxUpsets
-----------------------------------------------------------------------------
(* The processes.                                                           *)

\* A process is started, in the shell's group or in one of its own, with the
\* next number or one that is free again.
Spawn(p, exe, own) ==
    /\ world.spawned < MaxSpawn /\ p \notin DOMAIN proc /\ p <= world.top + 1
    /\ LET n == world.spawned + 1 IN
       /\ proc' = With(proc, p, [start |-> n, exe |-> exe, group |-> IF own THEN n ELSE 0])
       /\ world' = [world EXCEPT !.spawned = n, !.top = Max({@, p})]
    /\ UNCHANGED <<reg, mon>>

Exit(p) ==
    /\ p # Shell
    /\ proc' = Without(proc, p)
    /\ UNCHANGED <<reg, mon, world>>

\* Its executable is replaced on disk, as an update does: the link to it now
\* ends in another name.
Upgrade(p) ==
    /\ Upset /\ p # Shell /\ proc[p].exe # "deleted"
    /\ proc' = [proc EXCEPT ![p].exe = "deleted"]
    /\ world' = [world EXCEPT !.excused = @ \cup {proc[p].start}, !.upsets = @ + 1]
    /\ UNCHANGED <<reg, mon>>

\* Time matters only while a process is missing.
Tick == /\ world.now < MaxTime /\ \E id \in DOMAIN mon : mon[id].since # {}
        /\ world' = [world EXCEPT !.now = @ + 1]
        /\ UNCHANGED <<proc, reg, mon>>

-----------------------------------------------------------------------------
(* Discovery.  The command line is a descendant of some processes, nearest  *)
(* first; the shell is the last of them.                                    *)
ancestry == UNION {{c \in [1..n -> DOMAIN proc \ {Shell}] : IsInjective(c)} :
                     n \in 0..Cardinality(DOMAIN proc) - 1}

\* score: an executable that is an agent's, the distance of an ancestor, and the
\* hints that agree; one that disagrees rules the process out.  Without a
\* terminal of its own the command line has only the user to compare.
Contradicts(p, hints) == hints.tty /\ proc[p].group # hints.group
score(p, hints, distance) ==
    8 + 2 + (IF distance = 0 THEN 0 ELSE 6 - Min({distance, Far}))
      + (IF hints.tty THEN 4 + 2 + 2 ELSE 0)
Candidates(found, hints) ==
    {[ident |-> Identity(f[1]), score |-> score(f[1], hints, f[2])] :
       f \in {f \in found : agent_for(proc[f[1]].exe) # None /\ ~Contradicts(f[1], hints)}}
processes_on_tty == DOMAIN proc

\* select_candidate: the best one, if no other is as good.
select_candidate(cs) ==
    LET best == {c \in cs : \A o \in cs : o.score <= c.score} IN
    IF Cardinality(best) = 1 THEN best ELSE {}
resolve(chain, hints) ==
    LET above == Candidates({<<chain[d], d>> : d \in DOMAIN chain}, hints) IN
    select_candidate(IF above = {} /\ hints.tty
                     THEN Candidates({<<p, 0>> : p \in processes_on_tty}, hints) ELSE above)

\* Whom a command line can find, wherever it runs.
Hints == [tty : {FALSE}, group : {0}] \cup [tty : {TRUE}, group : {proc[p].group : p \in DOMAIN proc}]
Resolvable == {c.ident : c \in UNION {resolve(chain, h) : chain \in ancestry, h \in Hints}}

-----------------------------------------------------------------------------
(* Registration.                                                            *)
stable_target_eq(w, f) == w.rich = f.rich /\ exact_process_eq(w.ident, f.ident)
is_richer_target(w, f) == ~w.rich /\ f.rich

\* refresh_existing: what a known watcher takes from a new registration.
refresh_existing(w, f) ==
    IF is_richer_target(w, f) \/ w.life = "replayed"
    THEN [w EXCEPT !.ident = f.ident, !.rich = f.rich, !.life = "active"] ELSE w

Watcher(f) == [ident |-> f.ident, rich |-> f.rich, life |-> "active", moved |-> FALSE,
               exe0 |-> f.ident.exe]

\* register: the same target, else the same process, else a new watcher.  What
\* knows less of a process than its watcher does leaves that one as it is.
registerUnmerged(f, id) ==
    LET same == {w \in DOMAIN reg : stable_target_eq(reg[w], f)} IN
    IF same # {} THEN {[reg EXCEPT ![w] = refresh_existing(@, f)] : w \in same}
    ELSE IF id \in DOMAIN reg THEN {reg}
    ELSE {With(reg, id, Watcher(f))}
register(f, id) ==
    LET same == {w \in DOMAIN reg : stable_target_eq(reg[w], f)}
        process == {w \in DOMAIN reg : exact_process_eq(reg[w].ident, f.ident)}
    IN  CASE id \in DOMAIN reg ->
               {IF id \in same THEN [reg EXCEPT ![id] = refresh_existing(@, f)] ELSE reg}
          [] id \notin DOMAIN reg /\ same # {} ->
               {[reg EXCEPT ![w] = refresh_existing(@, f)] : w \in same}
          [] id \notin DOMAIN reg /\ same = {} /\ process # {} ->
               {IF is_richer_target(reg[w], f) THEN [reg EXCEPT ![w] = refresh_existing(@, f)]
                ELSE reg : w \in process}
          [] OTHER ->
               {With(reg, id, Watcher(f))}

\* detect_current finds the process and its pane, and sends the watcher to the
\* daemon.  Nothing the registry decides looks at the processes again.
detect_current(ident, rich) ==
    /\ \E r \in register([ident |-> ident, rich |-> rich], <<rich, ident.pid, ident.start>>) :
         /\ Cardinality(DOMAIN r) <= MaxWatchers
         /\ reg' = r
    /\ UNCHANGED <<proc, mon, world>>

Stop(id) ==
    /\ reg[id].life \in {"active", "replayed"}
    /\ Upset
    /\ reg' = [reg EXCEPT ![id].life = "stopped"]
    /\ world' = [world EXCEPT !.upsets = @ + 1]
    /\ UNCHANGED <<proc, mon>>

\* A new daemon: watchers wait for a registration, monitors start afresh.
Restart ==
    /\ Upset
    /\ reg' = [id \in DOMAIN reg |-> [reg[id] EXCEPT !.life = IF @ = "active" THEN "replayed" ELSE @]]
    /\ mon' = Nothing
    /\ world' = [world EXCEPT !.upsets = @ + 1]
    /\ UNCHANGED proc

-----------------------------------------------------------------------------
(* The process monitor, one watcher at a time.                              *)
Followed(id) == reg[id].life \in {"active", "replayed"}
Monitor(id) == IF id \in DOMAIN mon THEN mon[id] ELSE [ident |-> reg[id].ident, since |-> {}]
same_process(i) == Alive(i) /\ proc[i.pid].exe = i.exe

continuity_matches(i, p) == i.group = proc[p].group
strong_reexec_match_any(i, p) == identify_agent(i.exe) # None /\ continuity_matches(i, p)
strong_reexec_match(i, p) ==
    /\ continuity_matches(i, p)
    /\ identify_agent(i.exe) # None
    /\ identify_agent(i.exe) = identify_agent(proc[p].exe)

Terminated(id) ==
    /\ reg' = [reg EXCEPT ![id].life = "terminated"]
    /\ mon' = Without(mon, id)

\* The watcher has ended: its monitor goes.
MonitorEnded(id) ==
    /\ ~Followed(id) /\ id \in DOMAIN mon
    /\ mon' = Without(mon, id)
    /\ UNCHANGED <<proc, reg, world>>

\* observe: the number still has the process.
MonitorAlive(id) ==
    /\ Followed(id) /\ same_process(Monitor(id).ident)
    /\ mon' = With(mon, id, Monitor(id))
    /\ UNCHANGED <<proc, reg, world>>

\* The number has another process, or the same with another executable.
MonitorOther(id) ==
    /\ Followed(id) /\ Monitor(id).ident.pid \in DOMAIN proc
    /\ ~same_process(Monitor(id).ident)
    /\ Terminated(id)
    /\ UNCHANGED <<proc, world>>

\* The inspection itself fails: any error but a lost process ends the watcher.
MonitorError(id) ==
    /\ Upset /\ Followed(id)
    /\ Terminated(id)
    /\ world' = [world EXCEPT !.excused = @ \cup {Monitor(id).ident.start}, !.upsets = @ + 1]
    /\ UNCHANGED <<proc>>

commit_reexec_forgotten(m, i) == m
commit_reexec(m, i) == [ident |-> i, since |-> {}]

\* The watcher becomes one of another process, and of nothing else: the pane, the
\* lifecycle and the identifier stay.
retarget_process(id, ident) == [reg EXCEPT ![id].ident = ident, ![id].moved = TRUE]

\* observe_missing: the process is gone.  Within the grace exactly one process
\* that continues it is taken for it, if the registry can write that.
MonitorMissing(id, written) ==
    LET m == Monitor(id)
        since == IF m.since = {} THEN {world.now} ELSE m.since
        heirs == {p \in processes_on_tty : strong_reexec_match(m.ident, p)}
        late == \A t \in since : world.now - t > Grace
        taken == ~late /\ Cardinality(heirs) = 1 /\ written
    IN  /\ Followed(id) /\ m.ident.pid \notin DOMAIN proc
        /\ \/ late /\ Terminated(id)
           \/ /\ ~late /\ ~taken
              /\ mon' = With(mon, id, [m EXCEPT !.since = since])
              /\ UNCHANGED reg
           \/ /\ taken
              /\ \E p \in heirs :
                   /\ reg' = retarget_process(id, Identity(p))
                   /\ mon' = With(mon, id, commit_reexec(m, Identity(p)))
        /\ UNCHANGED <<proc, world>>

TargetsNext ==
    \/ \E p \in Pids, exe \in Exes, own \in BOOLEAN : Spawn(p, exe, own)
    \/ \E p \in DOMAIN proc : Exit(p) \/ Upgrade(p)
    \/ Tick
    \/ \E ident \in Resolvable, rich \in BOOLEAN : detect_current(ident, rich)
    \/ Restart
    \/ \E id \in DOMAIN reg :
         \/ Stop(id)
         \/ MonitorEnded(id)
         \/ MonitorAlive(id)
         \/ MonitorOther(id)
         \/ MonitorError(id)
         \/ \E written \in BOOLEAN : MonitorMissing(id, written)

TargetsSpec == TargetsInit /\ [][TargetsNext]_targetVars

-----------------------------------------------------------------------------
\* A watcher ends with its target: one whose process still runs was given up
\* only because its executable was replaced, or because an inspection failed.
\* Neither a number that is used again, nor a re-exec, nor a lost registry write
\* ends a watcher whose process is there.
TerminatedIsGone ==
    \A id \in DOMAIN reg :
      reg[id].life = "terminated" /\ Alive(reg[id].ident)
        => reg[id].ident.start \in world.excused

\* Through any chain of re-execs a watcher stays with the kind of agent it was
\* registered for, on a terminal: it is never handed to another program.
ReexecKeepsAgent ==
    \A id \in DOMAIN reg :
      reg[id].moved => /\ identify_agent(reg[id].exe0) # None
                       /\ identify_agent(reg[id].ident.exe) = identify_agent(reg[id].exe0)

\* Registration never makes two watchers of one process, whichever identifiers
\* and panes it is registered with; only a re-exec can bring two together.
OneWatcherPerProcess ==
    \A a, b \in DOMAIN reg :
      a # b /\ exact_process_eq(reg[a].ident, reg[b].ident) => reg[a].moved \/ reg[b].moved

-----------------------------------------------------------------------------
(***************************************************************************)
(* The inductive invariant behind them.                                    *)
(***************************************************************************)

\* The starts of the processes tell them from every one that comes later.
TableInv ==
    /\ DOMAIN proc \subseteq Pids \cup {Shell}
    /\ \A p \in DOMAIN proc : proc[p].start <= world.spawned /\ proc[p].group <= world.spawned

\* What a watcher knows of its process: it is an agent, and while it lives it is
\* what the watcher says, unless its executable was replaced.
KnownInv(i) ==
    /\ i.start <= world.spawned
    /\ agent_for(i.exe) # None
    /\ Alive(i) => /\ proc[i.pid].group = i.group
                   /\ \/ proc[i.pid].exe = i.exe
                      \/ proc[i.pid].exe = "deleted" /\ i.start \in world.excused

\* The monitor and the registry speak of the same process, and it is of the kind
\* of agent that was registered.
FollowInv ==
    /\ \A id \in DOMAIN reg :
         /\ KnownInv(reg[id].ident)
         /\ identify_agent(reg[id].ident.exe) = identify_agent(reg[id].exe0)
         /\ reg[id].moved => identify_agent(reg[id].exe0) # None
    /\ \A id \in DOMAIN mon : mon[id].ident = reg[id].ident

TargetsInv ==
    /\ TargetsTypeOK
    /\ TableInv
    /\ FollowInv
    /\ TerminatedIsGone
    /\ OneWatcherPerProcess
=============================================================================
