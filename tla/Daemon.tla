------------------------------- MODULE Daemon -------------------------------
(***************************************************************************)
(* The life of the daemon and of the clients that start it: the lock file   *)
(* (daemon/lock.rs), the socket and the main loop (daemon/mod.rs), the idle *)
(* scheduler (daemon/scheduler.rs), connections and the shutdown handshake  *)
(* (daemon/ipc_service.rs), the process monitor's reports                   *)
(* (daemon/lifecycle.rs) and the client's retries (daemon_client.rs).       *)
(* What happens to one watcher in between is the module Watcher.            *)
(***************************************************************************)
EXTENDS Naturals, FiniteSets

CONSTANTS Procs,          \* processes that may be started as `daemon run`
          Clients,        \* client commands
          Targets,        \* targets a watcher is registered for
          None,
          MaxConnections, \* MAX_CONNECTIONS, 32 in the code
          StayResident,
          MaxAsks         \* bound on the requests of all clients

ASSUME ResidentAssumption == StayResident \in BOOLEAN
ASSUME ConnectionsAssumption == MaxConnections \in Nat \ {0}
ASSUME NoneAssumption == None \notin Procs \cup Clients
ASSUME LockFileAssumption == {"absent", "empty"} \cap Procs = {}
ASSUME AsksAssumption == MaxAsks \in Nat

VARIABLES lockFile, \* the lock file: absent, empty, or an identity
          flock,    \* the process that holds the advisory lock on it
          pc,       \* where each process is
          sock,     \* the process whose listener is bound at the socket path
          reg,      \* the registry: which targets have a live watcher
          sched,    \* the scheduler task of the serving daemon
          job,      \* processes with a recovery job on a blocking thread
          backlog,  \* connections made and not accepted
          slots,    \* the connection permits and what each one serves
          client,   \* the clients
          asks      \* requests so far

vars == <<lockFile, flock, pc, sock, reg, sched, job, backlog, slots, client, asks>>
lockVars == <<lockFile, flock>>
mainVars == <<sched, job, backlog, slots>>

\* created: create_new has made the file; held: and locked it; checked: the file
\* names a process that is gone; taken, emptied: its lock is taken, its content
\* is cut; locked: the identity is written; draining: wait_for_terminal_jobs;
\* acking: acknowledge_shutdown_requests; left: out of the loop; unlinked: the
\* socket path is removed; lingering: the locals are dropped, and the runtime
\* waits for its blocking threads.
Stages == {"none", "spawned", "created", "held", "checked", "taken", "emptied",
           "locked", "serving", "draining", "acking", "left", "unlinked",
           "lingering", "gone"}
Owning == {"held", "taken", "emptied", "locked", "serving", "draining",
           "acking", "left", "unlinked"}
Running == {"serving", "draining", "acking"}
Listens == Running \cup {"left"}
Alive(p) == pc[p] \notin {"none", "gone"}

\* Pausing a watcher is, here, the same as resuming it: either is a lifecycle
\* other than Stopped and TargetTerminated, and neither adds to the scheduler.
Requests == {"register", "status", "stop", "resume", "shutdown"}
\* `watchme` and `daemon start` start the daemon; the others only talk to it.
Starters == {"register", "status"}

Free == [by |-> None, req |-> "status", target |-> None, st |-> "free", current |-> FALSE, ok |-> FALSE]
Slots == [by : Clients \cup {None}, req : Requests, target : Targets \cup {None},
          st : {"free", "open", "reply", "signalled", "acked"},
          current : BOOLEAN, ok : BOOLEAN]
ClientStates == [st : {"idle", "trying", "waiting", "failed", "done"},
                 req : Requests, target : Targets \cup {None},
                 started : BOOLEAN, child : Procs \cup {None},
                 answer : {"none", "ok", "error"}]

TypeOK ==
    /\ lockFile \in {"absent", "empty"} \cup Procs
    /\ flock \in Procs \cup {None}
    /\ pc \in [Procs -> Stages]
    /\ sock \in Procs \cup {None}
    /\ reg \in [Targets -> {"absent", "active", "ended"}]
    /\ sched \in [map : SUBSET Targets, alive : BOOLEAN, monitored : BOOLEAN]
    /\ job \in SUBSET Procs
    /\ backlog \in SUBSET [by : Clients \cup {None}, req : Requests, target : Targets]
    /\ slots \in [1..MaxConnections -> Slots]
    /\ client \in [Clients -> ClientStates]
    /\ asks \in Nat

Init ==
    /\ lockFile = "absent"
    /\ flock = None
    /\ pc = [p \in Procs |-> "none"]
    /\ sock = None
    /\ reg = [t \in Targets |-> "absent"]
    /\ sched = [map |-> {}, alive |-> FALSE, monitored |-> FALSE]
    /\ job = {}
    /\ backlog = {}
    /\ slots = [s \in 1..MaxConnections |-> Free]
    /\ client = [c \in Clients |-> [st |-> "idle", req |-> "status", target |-> None,
                   started |-> FALSE, child |-> None, answer |-> "none"]]
    /\ asks = 0

-----------------------------------------------------------------------------
Goes(p, stage) == pc' = [pc EXCEPT ![p] = stage]
Active == {t \in Targets : reg[t] = "active"}

\* A client's command is over.
Answered(c, good) ==
    [c EXCEPT !.st = "done", !.started = FALSE, !.child = None, !.target = None,
              !.answer = IF good THEN "ok" ELSE "error"]

\* The clients at the other end of connections that are closed see an error.
Dropped(cl, by) ==
    [c \in Clients |-> IF c \in by THEN [cl[c] EXCEPT !.st = "failed"] ELSE cl[c]]
Backlogged == {k.by : k \in backlog}
Connected == {slots[s].by : s \in 1..MaxConnections}

\* A process ends: the kernel releases its lock and closes its sockets, and the
\* socket's path stays where it is.  cl is what the clients are otherwise.
Ends(p, cl) ==
    /\ Goes(p, "gone")
    /\ flock' = IF flock = p THEN None ELSE flock
    /\ job' = job \ {p}
    /\ IF pc[p] \in Listens
       THEN /\ backlog' = {}
            /\ slots' = [s \in 1..MaxConnections |-> Free]
            /\ client' = Dropped(cl, Backlogged \cup Connected)
       ELSE /\ UNCHANGED <<backlog, slots>>
            /\ client' = cl
    /\ UNCHANGED <<lockFile, sock, reg, sched, asks>>

-----------------------------------------------------------------------------
\* DaemonLock::acquire, one system call at a time.  create_lock:
LockAlone(p) == UNCHANGED <<sock, reg, client, asks>> /\ UNCHANGED mainVars
Create(p) ==
    /\ pc[p] = "spawned"
    /\ lockFile = "absent"
    /\ lockFile' = "empty"
    /\ Goes(p, "created")
    /\ UNCHANGED flock
    /\ LockAlone(p)

FlockNew(p) ==
    /\ pc[p] = "created"
    /\ flock = None       \* nobody else gets past an empty file
    /\ flock' = p
    /\ Goes(p, "held")
    /\ UNCHANGED lockFile
    /\ LockAlone(p)

\* read_lock and the probe.  An empty file is no identity, which is an error.
ReadLock(p) ==
    /\ pc[p] = "spawned"
    /\ lockFile # "absent"
    /\ IF lockFile \in Procs /\ ~Alive(lockFile) THEN Goes(p, "checked") ELSE Goes(p, "gone")
    /\ UNCHANGED lockVars
    /\ LockAlone(p)

\* Mutant: the file is rewritten without its lock.
TakeOverUnlocked(p) ==
    /\ pc[p] = "checked"
    /\ Goes(p, "taken")
    /\ UNCHANGED lockVars
    /\ LockAlone(p)

TakeOver(p) ==
    /\ pc[p] = "checked"
    /\ \/ flock = None /\ flock' = p /\ Goes(p, "taken")
       \/ flock # None /\ Goes(p, "gone") /\ UNCHANGED flock
    /\ UNCHANGED lockFile
    /\ LockAlone(p)

Truncate(p) ==
    /\ pc[p] = "taken"
    /\ lockFile' = "empty"
    /\ Goes(p, "emptied")
    /\ UNCHANGED flock
    /\ LockAlone(p)

WriteIdentity(p) ==
    /\ pc[p] \in {"held", "emptied"}
    /\ lockFile' = p
    /\ Goes(p, "locked")
    /\ UNCHANGED flock
    /\ LockAlone(p)

\* The socket is bound, whatever was at its path removed; then the registry is
\* loaded and the scheduler filled from it (scheduler_from_registry).  A
\* registry that cannot be read ends the daemon, through the same clean-up.
Bind(p) ==
    /\ pc[p] = "locked"
    /\ sock' = p
    /\ \/ Goes(p, "serving") /\ sched' = [map |-> Active, alive |-> TRUE, monitored |-> TRUE]
       \/ Goes(p, "left") /\ UNCHANGED sched
    /\ UNCHANGED <<reg, client, asks, job, backlog, slots>>
    /\ UNCHANGED lockVars

-----------------------------------------------------------------------------
\* daemon_client: request, and start_and_request after a first failure.
ClientAlone == UNCHANGED <<reg, sock, sched, asks>>
Ask(c, r, t) ==
    /\ client[c].st \in {"idle", "done"}
    /\ asks < MaxAsks
    /\ asks' = asks + 1
    /\ client' = [client EXCEPT ![c] = [st |-> "trying", req |-> r, target |-> t, started |-> FALSE,
                    child |-> None, answer |-> "none"]]
    /\ UNCHANGED <<pc, job, backlog, slots, reg, sock, sched>>
    /\ UNCHANGED lockVars

\* The request is written as soon as the socket is connected.
Connect(c) ==
    /\ client[c].st = "trying"
    /\ IF sock # None /\ pc[sock] \in Listens
       THEN /\ backlog' = backlog \cup {[by |-> c, req |-> client[c].req, target |-> client[c].target]}
            /\ client' = [client EXCEPT ![c].st = "waiting"]
       ELSE /\ UNCHANGED backlog
            /\ client' = [client EXCEPT ![c].st = "failed"]
    /\ UNCHANGED <<pc, job, slots>>
    /\ UNCHANGED lockVars
    /\ ClientAlone

\* The attempt's deadline passes: the daemon may still serve what was sent.
Orphan(k, c) == IF k.by = c THEN [k EXCEPT !.by = None] ELSE k
Timeout(c) ==
    /\ client[c].st = "waiting"
    /\ client' = [client EXCEPT ![c].st = "failed"]
    /\ backlog' = {Orphan(k, c) : k \in backlog}
    /\ slots' = [s \in 1..MaxConnections |-> Orphan(slots[s], c)]
    /\ UNCHANGED <<pc, job>>
    /\ UNCHANGED lockVars
    /\ ClientAlone

\* A first failure starts a daemon, or is the answer of an administrative command.
Spawn(c) ==
    /\ client[c].st = "failed"
    /\ ~client[c].started
    /\ \/ /\ client[c].req \in Starters
          /\ \E p \in Procs :
                /\ pc[p] = "none"
                /\ Goes(p, "spawned")
                /\ client' = [client EXCEPT ![c] = [@ EXCEPT !.st = "trying", !.started = TRUE, !.child = p]]
       \/ /\ client[c].req \in Starters => \A p \in Procs : pc[p] # "none"
          /\ client' = [client EXCEPT ![c] = Answered(@, FALSE)]
          /\ UNCHANGED pc
    /\ UNCHANGED <<job, backlog, slots>>
    /\ UNCHANGED lockVars
    /\ ClientAlone

\* wait_for_readiness: until the deadline, an attempt after every failure.
Retry(c) ==
    /\ client[c].st = "failed"
    /\ client[c].started
    /\ client' = [client EXCEPT ![c].st = "trying"]
    /\ UNCHANGED <<pc, job, backlog, slots>>
    /\ UNCHANGED lockVars
    /\ ClientAlone

\* Past the deadline child_failure_diagnostic kills the child, if it is still
\* there: it may be the daemon that serves everybody else.
GiveUp(c) ==
    /\ client[c].st = "failed"
    /\ client[c].started
    /\ LET told == [client EXCEPT ![c] = Answered(@, FALSE)]
       IN  IF Alive(client[c].child)
           THEN Ends(client[c].child, told)
           ELSE /\ client' = told
                /\ UNCHANGED <<pc, job, backlog, slots>>
                /\ UNCHANGED lockVars
                /\ ClientAlone

-----------------------------------------------------------------------------
MainAlone == UNCHANGED <<lockFile, reg, asks>>

\* Mutant: a connection is served with or without a permit.
AcceptUnbounded(p) ==
    /\ pc[p] = "serving"
    /\ \E k \in backlog :
        /\ backlog' = backlog \ {k}
        /\ slots' = [s \in DOMAIN slots \cup {Cardinality(DOMAIN slots) + 1} |->
                        IF s \in DOMAIN slots THEN slots[s]
                        ELSE [by |-> k.by, req |-> k.req, target |-> k.target, st |-> "open",
                              current |-> sched.alive, ok |-> FALSE]]
        /\ UNCHANGED client
    /\ UNCHANGED <<pc, sock, sched, job, flock>>
    /\ MainAlone

\* The accept branch: with no permit left the connection is dropped.
Accept(p) ==
    /\ pc[p] = "serving"
    /\ \E k \in backlog :
        /\ backlog' = backlog \ {k}
        /\ \/ \E s \in 1..MaxConnections :
                /\ slots[s].st = "free"
                /\ \A r \in 1..(s-1) : slots[r].st # "free"
                /\ slots' = [slots EXCEPT ![s] = [by |-> k.by, req |-> k.req, target |-> k.target,
                                st |-> "open", current |-> sched.alive, ok |-> FALSE]]
                /\ UNCHANGED client
           \/ /\ \A s \in 1..MaxConnections : slots[s].st # "free"
              /\ client' = Dropped(client, {k.by})
              /\ UNCHANGED slots
    /\ UNCHANGED <<pc, sock, sched, job, flock>>
    /\ MainAlone

\* What the scheduler's map becomes of an event sent through the handle a
\* connection was given; a handle of an ended scheduler task reaches nobody.
Notified(s, map) == IF slots[s].current /\ sched.alive THEN [sched EXCEPT !.map = map] ELSE sched

\* handle_request, under the registry lock, up to the answer.  A watcher that is
\* there is left as it is, or, promoted, is made live by a Resume, which the
\* scheduler ignores for an id it does not have.
Handled(s) ==
    LET t == slots[s].target
        r == slots[s].req
    IN  \/ /\ r = "register" /\ reg[t] = "absent"
           /\ reg' = [reg EXCEPT ![t] = "active"]
           /\ sched' = Notified(s, sched.map \cup {t})
        \/ /\ r = "register" /\ reg[t] # "absent"
           /\ reg' \in {reg, [reg EXCEPT ![t] = "active"]}
           /\ UNCHANGED sched
        \/ /\ r = "resume" /\ reg[t] # "absent"
           /\ reg' = [reg EXCEPT ![t] = "active"]
           /\ UNCHANGED sched
        \/ /\ r = "stop" /\ reg[t] # "absent"
           /\ reg' = [reg EXCEPT ![t] = "ended"]
           /\ sched' = Notified(s, sched.map \ {t})
        \/ r = "status" /\ UNCHANGED <<reg, sched>>

\* An error is answered for an unknown watcher and for a failed write.
Refused(s) ==
    /\ slots[s].req \in {"register", "resume", "stop"}
    /\ UNCHANGED <<reg, sched>>

Serve(s) ==
    /\ \E p \in Procs : pc[p] \in Running
    /\ slots[s].st = "open"
    /\ \/ /\ slots[s].req # "shutdown"
          /\ \/ Handled(s) /\ slots' = [slots EXCEPT ![s] = [@ EXCEPT !.st = "reply", !.ok = TRUE]]
             \/ Refused(s) /\ slots' = [slots EXCEPT ![s].st = "reply"]
       \/ /\ slots[s].req = "shutdown"   \* request_shutdown sends its signal
          /\ slots' = [slots EXCEPT ![s].st = "signalled"]
          /\ UNCHANGED <<reg, sched>>
    /\ UNCHANGED <<pc, sock, job, backlog, client, asks>>
    /\ UNCHANGED lockVars

\* write_response, to a client that may have gone; the task ends.
Reply(s) ==
    /\ slots[s].st \in {"reply", "acked"}
    /\ LET c == slots[s].by
           good == slots[s].ok \/ slots[s].st = "acked"
       IN  client' = IF c = None THEN client ELSE [client EXCEPT ![c] = Answered(@, good)]
    /\ slots' = [slots EXCEPT ![s] = Free]
    /\ UNCHANGED <<pc, sock, reg, sched, job, backlog, asks>>
    /\ UNCHANGED lockVars

-----------------------------------------------------------------------------
\* Scheduler::run: nothing to schedule for the idle grace.
IdleGrace(p) ==
    /\ pc[p] = "serving"
    /\ sched.alive
    /\ sched.map = {}
    /\ ~StayResident
    /\ sched' = [sched EXCEPT !.alive = FALSE]
    /\ UNCHANGED <<pc, sock, job, backlog, slots, client, flock>>
    /\ MainAlone

Signalled == {s \in 1..MaxConnections : slots[s].st = "signalled"}

\* The scheduler task has ended and no shutdown is asked for: the loop is left
\* when nothing is live and nobody connected, or else the scheduler is replaced.
\* The monitor and the connections there are keep the handle they were given.
IdleCheck(p) ==
    /\ pc[p] = "serving"
    /\ ~sched.alive
    /\ Signalled = {}
    /\ IF Active = {} /\ \A s \in 1..MaxConnections : slots[s].st = "free"
       THEN Goes(p, "left") /\ UNCHANGED <<sched, slots>>
       ELSE /\ sched' = [map |-> Active, alive |-> TRUE, monitored |-> FALSE]
            /\ slots' = [s \in 1..MaxConnections |-> [slots[s] EXCEPT !.current = FALSE]]
            /\ UNCHANGED pc
    /\ UNCHANGED <<sock, job, backlog, client, flock>>
    /\ MainAlone

\* The shutdown branch: scheduler told, begin_shutdown, observation aborted.
Drain(p) ==
    /\ pc[p] = "serving"
    /\ Signalled # {}
    /\ Goes(p, "draining")
    /\ sched' = [sched EXCEPT !.alive = FALSE]
    /\ UNCHANGED <<sock, job, backlog, slots, client, flock>>
    /\ MainAlone

\* Mutant: the shutdown is acknowledged while jobs still run.
AcknowledgeAtOnce(p) ==
    /\ pc[p] = "draining"
    /\ Goes(p, "acking")
    /\ slots' = [s \in 1..MaxConnections |->
                    IF s \in Signalled THEN [slots[s] EXCEPT !.st = "acked"] ELSE slots[s]]
    /\ UNCHANGED <<sock, sched, job, backlog, client, flock>>
    /\ MainAlone

\* wait_for_terminal_jobs is through; acknowledge_shutdown_requests.
Acknowledge(p) ==
    /\ pc[p] = "draining"
    /\ p \notin job
    /\ Goes(p, "acking")
    /\ slots' = [s \in 1..MaxConnections |->
                    IF s \in Signalled THEN [slots[s] EXCEPT !.st = "acked"] ELSE slots[s]]
    /\ UNCHANGED <<sock, sched, job, backlog, client, flock>>
    /\ MainAlone

\* The acknowledged answers are written; the other connections are aborted.
Leave(p) ==
    /\ pc[p] = "acking"
    /\ \A s \in 1..MaxConnections : slots[s].st # "acked"
    /\ Goes(p, "left")
    /\ slots' = [s \in 1..MaxConnections |-> Free]
    /\ client' = Dropped(client, Connected)
    /\ UNCHANGED <<sock, sched, job, backlog, flock>>
    /\ MainAlone

\* The locals are dropped in the reverse order of their declaration: first
\* SocketCleanup, which removes whatever is at the path, and the listener ...
Unlink(p) ==
    /\ pc[p] = "left"
    /\ sock' = None
    /\ Goes(p, "unlinked")
    /\ backlog' = {}
    /\ client' = Dropped(client, Backlogged)
    /\ UNCHANGED <<sched, job, slots, flock>>
    /\ MainAlone

\* ... and then the lock.
Release(p) ==
    /\ pc[p] = "unlinked"
    /\ flock' = None
    /\ Goes(p, "lingering")
    /\ UNCHANGED <<sock, client>>
    /\ UNCHANGED mainVars
    /\ MainAlone

\* Mutant: a second clean-up at the end of the process removes the path again.
QuitUnlinking(p) ==
    /\ pc[p] = "lingering"
    /\ p \notin job
    /\ sock' = None
    /\ Goes(p, "gone")
    /\ UNCHANGED <<reg, client, asks>>
    /\ UNCHANGED mainVars
    /\ UNCHANGED lockVars

\* Dropping the runtime waits for the blocking threads.
Quit(p) ==
    /\ pc[p] = "lingering"
    /\ p \notin job
    /\ Ends(p, client)

-----------------------------------------------------------------------------
\* The observation loop schedules a recovery job while the supervisor accepts
\* jobs; the job ends by itself.
JobStarts(p) ==
    /\ pc[p] = "serving"
    /\ p \notin job
    /\ Active # {}
    /\ job' = job \cup {p}
    /\ UNCHANGED <<pc, sock, sched, backlog, slots, client, flock>>
    /\ MainAlone

JobEnds(p) ==
    /\ p \in job
    /\ job' = job \ {p}
    /\ UNCHANGED <<pc, sock, sched, backlog, slots, client, flock>>
    /\ MainAlone

\* monitor_process_lifecycles: the target is gone; the scheduler is told through
\* the handle the monitor was started with.
TargetGone(t) ==
    /\ \E p \in Procs : pc[p] \in Running
    /\ reg[t] = "active"
    /\ reg' = [reg EXCEPT ![t] = "ended"]
    /\ sched' = IF sched.alive /\ sched.monitored THEN [sched EXCEPT !.map = @ \ {t}] ELSE sched
    /\ UNCHANGED <<pc, sock, job, backlog, slots, client, asks>>
    /\ UNCHANGED lockVars

Crash(p) == Alive(p) /\ Ends(p, client)

-----------------------------------------------------------------------------
Locking(p) == Create(p) \/ FlockNew(p) \/ ReadLock(p) \/ TakeOver(p) \/ Truncate(p)
              \/ WriteIdentity(p) \/ Bind(p)
MainLoop(p) == Accept(p) \/ IdleGrace(p) \/ IdleCheck(p) \/ Drain(p)
               \/ Acknowledge(p) \/ Leave(p) \/ Unlink(p) \/ Release(p) \/ Quit(p)
Connection(s) == Serve(s) \/ Reply(s)
ClientStep(c) == Connect(c) \/ Timeout(c) \/ Spawn(c) \/ Retry(c) \/ GiveUp(c)

Next ==
    \/ \E p \in Procs : Locking(p) \/ MainLoop(p) \/ JobStarts(p) \/ JobEnds(p) \/ Crash(p)
    \/ \E s \in 1..MaxConnections : Connection(s)
    \/ \E c \in Clients : ClientStep(c) \/ \E r \in Requests, t \in Targets : Ask(c, r, t)
    \/ \E t \in Targets : TargetGone(t)

Spec == Init /\ [][Next]_vars

\* Tasks of the runtime run, a job ends (its transaction is bounded), and a
\* client ends with its command.
FairSpec ==
    /\ Spec
    /\ \A p \in Procs : WF_vars(Locking(p)) /\ WF_vars(MainLoop(p)) /\ WF_vars(JobEnds(p))
    /\ \A s \in 1..MaxConnections : WF_vars(Connection(s))
    /\ \A c \in Clients : WF_vars(Timeout(c)) /\ WF_vars(Spawn(c)) /\ SF_vars(GiveUp(c))

-----------------------------------------------------------------------------
\* No two processes are past the lock at a time, whatever the order in which
\* they create, read, take over and rewrite the file, crash or are killed.
OneOwner == \A p, q \in Procs : pc[p] \in Owning /\ pc[q] \in Owning => p = q

\* Clients reach the daemon that serves: no other process, starting or leaving,
\* removes or takes its socket path.
SocketIsOwn == \A p \in Procs : pc[p] \in Running => sock = p

\* A client that is told Stopped, in answer to its shutdown, is told so after the
\* last recovery job of the daemon has ended: none is cut off by the exit.  (A job
\* of an earlier daemon, which left idle and lingers for it, may still run.)
StoppedMeansDrained ==
    [][\A c \in Clients :
          (client[c].req = "shutdown" /\ client[c].answer # "ok" /\ client'[c].answer = "ok")
             => \A p \in Procs : pc[p] \in Running => p \notin job]_vars

\* docs/commands.md: an empty daemon exits after the idle grace.
IdleDaemonExits ==
    <>[](Active = {}) => <>[](\A p \in Procs : pc[p] \notin Running)

-----------------------------------------------------------------------------
(***************************************************************************)
(* The inductive invariant behind the safety properties.                   *)
(***************************************************************************)
\* Whoever is past the lock holds it, and whoever listens is at the socket path.
LockInv == \A p \in Procs : /\ pc[p] \in Owning => flock = p
                            /\ pc[p] \in Listens => sock = p
\* The daemon that a client has started is a process, and a request is about a
\* target until it is answered.
ClientInv == \A c \in Clients :
                /\ client[c].started => client[c].child \in Procs
                /\ client[c].st \in {"trying", "waiting", "failed"} => client[c].target \in Targets
\* A client has one connection at a time, on which it waits for its request; one
\* that no longer waits has left no connection under its name.
Awaits(k) == k.by # None => client[k.by].st = "waiting" /\ client[k.by].req = k.req
ConnectionInv ==
    /\ \A k \in backlog : Awaits(k)
    /\ \A s \in 1..MaxConnections : Awaits(slots[s])
    /\ \A k, l \in backlog : k.by = l.by /\ k.by # None => k = l
    /\ \A s, r \in 1..MaxConnections : slots[s].by = slots[r].by /\ slots[s].by # None => s = r
    /\ \A k \in backlog, s \in 1..MaxConnections : k.by = slots[s].by => k.by = None
\* A request is served for its target.  A shutdown is answered by the
\* acknowledgement alone, which is given when the daemon has no job any more and
\* gets no new one.
DrainInv ==
    /\ \A s \in 1..MaxConnections :
         /\ slots[s].st = "open" => slots[s].target \in Targets
         /\ slots[s].st = "reply" \/ slots[s].ok => slots[s].req # "shutdown"
         /\ slots[s].st = "acked" => \E p \in Procs : pc[p] = "acking"
    /\ \A p \in Procs : pc[p] = "acking" => p \notin job
IInv == TypeOK /\ LockInv /\ ClientInv /\ ConnectionInv /\ DrainInv
=============================================================================
