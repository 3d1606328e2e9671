---------------------------- MODULE DaemonProofs ----------------------------
(***************************************************************************)
(* One owner of the lock and of the socket, and a shutdown that is answered *)
(* after the last job, for every number of processes, clients, targets and *)
(* permits.                                                                *)
(***************************************************************************)
EXTENDS Daemon, TLAPS

\* No process, no lock, no socket, and every client has yet to ask.
LEMMA InitInv == Init => IInv
<1> SUFFICES ASSUME Init PROVE IInv OBVIOUS
<1>1. TypeOK
  BY ConnectionsAssumption DEF Init, TypeOK, Stages, Slots, Free, Requests, ClientStates
<1>2. LockInv BY DEF Init, LockInv, Owning, Listens, Running
<1>3. ClientInv BY DEF Init, ClientInv
<1>4. ConnectionInv BY DEF Init, ConnectionInv, Awaits, Free
<1>5. DrainInv BY DEF Init, DrainInv, Free
<1> QED BY <1>1, <1>2, <1>3, <1>4, <1>5 DEF IInv

-----------------------------------------------------------------------------
(***************************************************************************)
(* Steps that touch the lock and the processes alone.                      *)
(***************************************************************************)
\* Who owns, listens or acknowledges at one stage and does not at another.
LEMMA StageFacts ==
    /\ \A stage \in {"none", "spawned", "created", "checked", "lingering", "gone"} : stage \notin Owning
    /\ \A stage \in Stages \ Listens : stage # "acking" /\ stage \notin Running
    /\ \A stage \in {"held", "taken", "emptied", "locked", "serving", "left"} : stage \in Owning
    /\ Listens \subseteq Owning
    /\ Running \subseteq Listens
    /\ Owning \subseteq Stages
  BY DEF Stages, Owning, Listens, Running

\* What the connections and the clients have to say only changes with them.
LEMMA QuietConnections ==
    ASSUME IInv, UNCHANGED <<backlog, slots, client>>
    PROVE  ConnectionInv' /\ ClientInv'
  BY DEF IInv, ConnectionInv, ClientInv, Awaits

\* Two processes that are past the lock are one.
LEMMA OwnerIsOne == IInv => OneOwner
  BY DEF IInv, LockInv, OneOwner

\* A process goes to another stage, and no other does.
LEMMA GoesFacts ==
    ASSUME TypeOK, NEW p \in Procs, NEW stage \in Stages, Goes(p, stage)
    PROVE  /\ pc' \in [Procs -> Stages]
           /\ pc'[p] = stage
           /\ \A q \in Procs : q # p => pc'[q] = pc[q]
  BY DEF TypeOK, Goes

\* A process moves on, and comes to hold the lock and the path it needs at the
\* stage it gets to; it takes neither from another.
LEMMA LockStep ==
    ASSUME TypeOK, LockInv, NEW p \in Procs, NEW stage \in Stages, Goes(p, stage),
           stage \in Owning => flock' = p,
           stage \in Listens => sock' = p,
           flock' = flock \/ flock \in {None, p},
           sock' = sock \/ pc[p] \in Owning
    PROVE  LockInv'
<1>1. /\ pc'[p] = stage
      /\ \A q \in Procs : q # p => pc'[q] = pc[q]
  BY GoesFacts
<1> SUFFICES ASSUME NEW q \in Procs
             PROVE  /\ pc'[q] \in Owning => flock' = q
                    /\ pc'[q] \in Listens => sock' = q
  BY DEF LockInv
<1>2. CASE q = p BY <1>1, <1>2
<1>3. CASE q # p
  <2>1. pc'[q] = pc[q] BY <1>1, <1>3
  <2>2. pc[q] \in Owning => flock = q /\ flock' = flock
    BY <1>3, NoneAssumption DEF LockInv
  <2>3. pc[q] \in Listens => sock = q /\ sock' = sock
    <3> SUFFICES ASSUME pc[q] \in Listens PROVE sock = q /\ sock' = sock OBVIOUS
    <3>1. pc[q] \in Owning BY StageFacts
    <3>2. pc[p] \notin Owning BY <1>3, <3>1 DEF LockInv
    <3> QED BY <3>2 DEF LockInv
  <2> QED BY <2>1, <2>2, <2>3
<1> QED BY <1>2, <1>3

\* A process that does not acknowledge moves on, and nothing is connected,
\* served or answered.
LEMMA MoveStep ==
    ASSUME IInv, TypeOK', NEW p \in Procs, NEW stage \in Stages, Goes(p, stage),
           stage # "acking", pc[p] # "acking",
           stage \in Owning => flock' = p,
           stage \in Listens => sock' = p,
           flock' = flock \/ flock \in {None, p},
           sock' = sock \/ pc[p] \in Owning,
           UNCHANGED <<backlog, slots, client, job>>
    PROVE  IInv'
<1> USE DEF IInv
<1>1. LockInv' BY LockStep
<1>2. ConnectionInv' /\ ClientInv' BY QuietConnections
<1>3. DrainInv'
  <2>1. \A q \in Procs : pc'[q] = "acking" <=> pc[q] = "acking" BY GoesFacts
  <2> QED BY <2>1 DEF DrainInv
<1> QED BY <1>1, <1>2, <1>3

\* The start of a daemon: it takes the file lock before the socket, one step
\* each.
LEMMA LockingStep ==
    ASSUME IInv, NEW p \in Procs, Locking(p)
    PROVE  IInv'
<1> USE DEF IInv, LockAlone, lockVars, mainVars
<1>0. /\ {"created", "held", "checked", "gone", "taken", "emptied", "locked", "serving", "left"} \subseteq Stages
      /\ \A stage \in {"created", "held", "checked", "gone", "taken", "emptied", "locked"} : stage \notin Listens
      /\ \A stage \in {"created", "checked", "gone"} : stage \notin Owning
      /\ \A stage \in {"held", "taken", "emptied", "locked"} : stage \in Owning
  BY DEF Stages, Owning, Listens, Running
<1>1. CASE Create(p)
  <2>1. Goes(p, "created") /\ TypeOK' BY <1>0, <1>1, GoesFacts DEF Create, TypeOK
  <2> QED BY <1>0, <1>1, <2>1, MoveStep DEF Create
<1>2. CASE FlockNew(p)
  <2>1. Goes(p, "held") /\ TypeOK' BY <1>0, <1>2, GoesFacts DEF FlockNew, TypeOK
  <2> QED BY <1>0, <1>2, <2>1, MoveStep DEF FlockNew
<1>3. CASE ReadLock(p)
  <2>1. PICK stage \in {"checked", "gone"} : Goes(p, stage) BY <1>3 DEF ReadLock
  <2>2. TypeOK' BY <1>0, <1>3, <2>1, GoesFacts DEF ReadLock, TypeOK
  <2> QED BY <1>0, <1>3, <2>1, <2>2, MoveStep DEF ReadLock
<1>4. CASE TakeOver(p)
  <2>1. CASE flock = None /\ flock' = p /\ Goes(p, "taken")
    <3>1. TypeOK' BY <1>0, <1>4, <2>1, GoesFacts DEF TakeOver, TypeOK
    <3> QED BY <1>0, <1>4, <2>1, <3>1, MoveStep DEF TakeOver
  <2>2. CASE flock # None /\ Goes(p, "gone") /\ UNCHANGED flock
    <3>1. TypeOK' BY <1>0, <1>4, <2>2, GoesFacts DEF TakeOver, TypeOK
    <3> QED BY <1>0, <1>4, <2>2, <3>1, MoveStep DEF TakeOver
  <2> QED BY <1>4, <2>1, <2>2 DEF TakeOver
<1>5. CASE Truncate(p)
  <2>1. Goes(p, "emptied") /\ TypeOK' BY <1>0, <1>5, GoesFacts DEF Truncate, TypeOK
  <2>2. flock = p BY <1>0, <1>5 DEF Truncate, LockInv
  <2> QED BY <1>0, <1>5, <2>1, <2>2, MoveStep DEF Truncate
<1>6. CASE WriteIdentity(p)
  <2>1. Goes(p, "locked") /\ TypeOK' BY <1>0, <1>6, GoesFacts DEF WriteIdentity, TypeOK
  <2>2. flock = p BY <1>0, <1>6 DEF WriteIdentity, LockInv
  <2> QED BY <1>0, <1>6, <2>1, <2>2, MoveStep DEF WriteIdentity
<1>7. CASE Bind(p)
  <2>1. PICK stage \in {"serving", "left"} : Goes(p, stage) BY <1>7 DEF Bind
  <2>2. sched' \in [map : SUBSET Targets, alive : BOOLEAN, monitored : BOOLEAN]
    <3>1. Active \in SUBSET Targets BY DEF Active
    <3>2. [map |-> Active, alive |-> TRUE, monitored |-> TRUE]
             \in [map : SUBSET Targets, alive : BOOLEAN, monitored : BOOLEAN]
      BY <3>1
    <3> QED BY <1>7, <3>2 DEF Bind, TypeOK
  <2>3. TypeOK' BY <1>0, <1>7, <2>1, <2>2, GoesFacts DEF Bind, TypeOK
  <2>4. flock = p /\ pc[p] \in Owning BY <1>0, <1>7 DEF Bind, LockInv
  <2> QED BY <1>0, <1>7, <2>1, <2>3, <2>4, MoveStep DEF Bind
<1> QED BY <1>1, <1>2, <1>3, <1>4, <1>5, <1>6, <1>7 DEF Locking

-----------------------------------------------------------------------------
(***************************************************************************)
(* The clients, and the connections that are closed under them.            *)
(***************************************************************************)
LEMMA AnsweredTypes ==
    ASSUME NEW c \in ClientStates, NEW good \in BOOLEAN
    PROVE  /\ Answered(c, good) \in ClientStates
           /\ Answered(c, good).st = "done"
           /\ Answered(c, good).req = c.req
           /\ ~Answered(c, good).started
           /\ Answered(c, good).answer = IF good THEN "ok" ELSE "error"
  BY DEF Answered, ClientStates

\* A client whose connection is closed changes in its stage only.
LEMMA DroppedTypes ==
    ASSUME NEW cl \in [Clients -> ClientStates], NEW by
    PROVE  /\ Dropped(cl, by) \in [Clients -> ClientStates]
           /\ \A c \in Clients \ by : Dropped(cl, by)[c] = cl[c]
           /\ \A c \in Clients : /\ Dropped(cl, by)[c].started = cl[c].started
                                 /\ Dropped(cl, by)[c].child = cl[c].child
                                 /\ Dropped(cl, by)[c].req = cl[c].req
                                 /\ Dropped(cl, by)[c].answer = cl[c].answer
                                 /\ Dropped(cl, by)[c].target = cl[c].target
<1>1. \A c \in Clients : [cl[c] EXCEPT !.st = "failed"] \in ClientStates BY DEF ClientStates
<1> QED BY <1>1 DEF Dropped, ClientStates

\* Clients that are dropped while they wait keep what they have to say.
LEMMA DroppedClients ==
    ASSUME NEW cl \in [Clients -> ClientStates], NEW by, client' = Dropped(cl, by),
           \A c \in Clients :
              /\ cl[c].started => cl[c].child \in Procs
              /\ cl[c].st \in {"trying", "waiting", "failed"} => cl[c].target \in Targets
              /\ c \in by => cl[c].st = "waiting"
    PROVE  ClientInv'
  BY DroppedTypes DEF ClientInv

\* Connections go or lose their client, and who keeps one waits as before.
LEMMA ThinnerConnections ==
    ASSUME ConnectionInv,
           \A s \in 1..MaxConnections :
              \/ slots'[s].by = None
              \/ /\ slots'[s].by = slots[s].by /\ slots'[s].req = slots[s].req
                 /\ client'[slots[s].by].st = client[slots[s].by].st
                 /\ client'[slots[s].by].req = client[slots[s].by].req,
           \A k \in backlog' :
              \/ k.by = None
              \/ /\ k \in backlog
                 /\ client'[k.by].st = client[k.by].st
                 /\ client'[k.by].req = client[k.by].req
    PROVE  ConnectionInv'
<1>1. \A k \in backlog' : Awaits(k)' BY DEF ConnectionInv, Awaits
<1>2. \A s \in 1..MaxConnections : Awaits(slots[s])' BY DEF ConnectionInv, Awaits
<1>3. \A k, l \in backlog' : k.by = l.by /\ k.by # None => k = l BY DEF ConnectionInv
<1>4. \A s, r \in 1..MaxConnections : slots'[s].by = slots'[r].by /\ slots'[s].by # None => s = r
  BY DEF ConnectionInv
<1>5. \A k \in backlog', s \in 1..MaxConnections : k.by = slots'[s].by => k.by = None
  BY DEF ConnectionInv
<1> QED BY <1>1, <1>2, <1>3, <1>4, <1>5 DEF ConnectionInv

\* A process ends, by itself, by a crash or by a client that gives up on it: its
\* connections go with it.  The client that gave up had no connection left.
LEMMA EndsStep ==
    ASSUME IInv, NEW p \in Procs, NEW cl \in [Clients -> ClientStates], Ends(p, cl),
           \A c \in Clients : /\ cl[c].started => cl[c].child \in Procs
                              /\ cl[c].st \in {"trying", "waiting", "failed"} => cl[c].target \in Targets
                              /\ client[c].st = "waiting" => cl[c] = client[c]
    PROVE  IInv'
<1> USE DEF IInv
<1>0. "gone" \in Stages /\ "gone" \notin Owning /\ "gone" \notin Listens
  BY DEF Stages, Owning, Listens, Running
<1>1. /\ pc' \in [Procs -> Stages]
      /\ pc'[p] = "gone"
      /\ \A q \in Procs : q # p => pc'[q] = pc[q]
  BY <1>0, GoesFacts DEF Ends
<1>2. Free \in Slots /\ Free.by = None /\ Free.st = "free" /\ ~Free.ok
  BY DEF Free, Slots, Requests
<1>3. client' \in [Clients -> ClientStates] BY DroppedTypes DEF Ends
<1>4. TypeOK' BY <1>1, <1>2, <1>3 DEF Ends, TypeOK
<1>5. LockInv' BY <1>0, LockStep DEF Ends
<1>6. ClientInv'
  <2>1. CASE pc[p] \in Listens
    <3>1. \A c \in Clients \cap (Backlogged \cup Connected) : client[c].st = "waiting"
      BY NoneAssumption DEF Backlogged, Connected, ConnectionInv, Awaits
    <3> QED BY <2>1, <3>1, DroppedClients DEF Ends
  <2>2. CASE pc[p] \notin Listens BY <2>2 DEF ClientInv, Ends
  <2> QED BY <2>1, <2>2
<1>7. ConnectionInv' /\ DrainInv'
  <2>1. CASE pc[p] \in Listens
    <3>1. backlog' = {} /\ \A s \in 1..MaxConnections : slots'[s] = Free BY <2>1 DEF Ends
    <3>2. ConnectionInv' BY <1>2, <3>1, ThinnerConnections
    <3>3. DrainInv' BY <1>1, <1>2, <3>1 DEF DrainInv, Ends
    <3> QED BY <3>2, <3>3
  <2>2. CASE pc[p] \notin Listens
    <3>1. UNCHANGED <<backlog, slots>> /\ client' = cl BY <2>2 DEF Ends
    <3>2. ConnectionInv'
      <4>1. \A k \in backlog : k.by # None => k.by \in Clients /\ client[k.by].st = "waiting"
        BY DEF TypeOK, ConnectionInv, Awaits
      <4>2. \A s \in 1..MaxConnections :
              slots[s].by # None => slots[s].by \in Clients /\ client[slots[s].by].st = "waiting"
        BY DEF TypeOK, Slots, ConnectionInv, Awaits
      <4> QED BY <3>1, <4>1, <4>2, ThinnerConnections
    <3>3. DrainInv' BY <1>1, <2>2, <3>1 DEF DrainInv, Ends, Listens, Running
    <3> QED BY <3>2, <3>3
  <2> QED BY <2>1, <2>2
<1> QED BY <1>4, <1>5, <1>6, <1>7

\* What the processes have to say only changes with them.
LEMMA QuietProcesses ==
    ASSUME IInv, UNCHANGED <<pc, flock, sock>>
    PROVE  LockInv'
  BY DEF IInv, LockInv

\* Whoever has a connection under its name waits.
LEMMA ConnectedWait ==
    ASSUME IInv
    PROVE  /\ \A k \in backlog : k.by # None => k.by \in Clients /\ client[k.by].st = "waiting"
           /\ \A s \in 1..MaxConnections :
                slots[s].by # None => slots[s].by \in Clients /\ client[slots[s].by].st = "waiting"
  BY DEF IInv, TypeOK, Slots, ConnectionInv, Awaits

\* A client that does not wait goes on, and the daemon does not hear of it.
LEMMA ClientAside ==
    ASSUME IInv, NEW c \in Clients, NEW next \in ClientStates,
           client[c].st # "waiting",
           client' = [client EXCEPT ![c] = next],
           next.started => next.child \in Procs,
           next.st # "done" => next.target \in Targets,
           UNCHANGED <<backlog, slots>>
    PROVE  client' \in [Clients -> ClientStates] /\ ClientInv' /\ ConnectionInv'
<1> USE DEF IInv
<1>1. /\ client' \in [Clients -> ClientStates]
      /\ client'[c] = next
      /\ \A d \in Clients \ {c} : client'[d] = client[d]
  BY DEF TypeOK
<1>2. ClientInv' BY <1>1 DEF ClientInv
<1>3. ConnectionInv' BY <1>1, ConnectedWait, ThinnerConnections
<1> QED BY <1>1, <1>2, <1>3

\* A client that begins waits for nothing yet.
LEMMA AskStep ==
    ASSUME IInv, NEW c \in Clients, NEW r \in Requests, NEW t \in Targets, Ask(c, r, t)
    PROVE  IInv'
<1> USE DEF IInv
<1> DEFINE next == [st |-> "trying", req |-> r, target |-> t, started |-> FALSE,
                    child |-> None, answer |-> "none"]
<1>1. next \in ClientStates /\ ~next.started /\ next.target \in Targets BY DEF ClientStates
<1>2. client' = [client EXCEPT ![c] = next] BY DEF Ask
<1>3. client[c].st # "waiting" BY DEF Ask
<1> HIDE DEF next
<1>4. client' \in [Clients -> ClientStates] /\ ClientInv' /\ ConnectionInv'
  BY <1>1, <1>2, <1>3, ClientAside DEF Ask
<1>5. TypeOK' BY <1>4 DEF TypeOK, Ask, lockVars
<1>6. LockInv' BY QuietProcesses DEF Ask, lockVars
<1>7. DrainInv' BY DEF DrainInv, Ask
<1> QED BY <1>4, <1>5, <1>6, <1>7

\* A client whose connection is queued waits for the answer to its own request.
LEMMA ConnectStep ==
    ASSUME IInv, NEW c \in Clients, Connect(c)
    PROVE  IInv'
<1> USE DEF IInv
<1>0. client[c] \in ClientStates BY DEF TypeOK
<1>1a. client[c].target \in Targets BY DEF ClientInv, Connect
<1>1. LockInv' BY QuietProcesses DEF Connect, ClientAlone, lockVars
<1>2. DrainInv' BY DEF DrainInv, Connect
<1>3. CASE sock # None /\ pc[sock] \in Listens
  <2> DEFINE k == [by |-> c, req |-> client[c].req, target |-> client[c].target]
             next == [client[c] EXCEPT !.st = "waiting"]
  <2>1. backlog' = backlog \cup {k} /\ client' = [client EXCEPT ![c] = next]
    BY <1>3 DEF Connect
  <2>2. /\ k \in [by : Clients \cup {None}, req : Requests, target : Targets]
        /\ k.by = c /\ k.req = client[c].req
    BY <1>0, <1>1a DEF ClientStates
  <2>3. /\ next \in ClientStates /\ next.st = "waiting" /\ next.req = client[c].req
        /\ next.started = client[c].started /\ next.child = client[c].child
        /\ next.target \in Targets
    BY <1>0, <1>1a DEF ClientStates
  <2> HIDE DEF k, next
  <2>4. /\ client' \in [Clients -> ClientStates]
        /\ client'[c] = next
        /\ \A d \in Clients \ {c} : client'[d] = client[d]
    BY <2>1, <2>3 DEF TypeOK
  <2>5. TypeOK' BY <2>1, <2>2, <2>4 DEF TypeOK, Connect, ClientAlone, lockVars
  <2>6. ClientInv' BY <2>3, <2>4 DEF ClientInv
  <2>7. /\ \A l \in backlog : l.by # c
        /\ \A s \in 1..MaxConnections : slots[s].by # c
    BY NoneAssumption, ConnectedWait DEF Connect
  <2>8. ConnectionInv'
    <3> slots' = slots BY DEF Connect
    <3>1. \A l \in backlog' : Awaits(l)'
      BY <2>1, <2>2, <2>3, <2>4, <2>7, ConnectedWait DEF Awaits, ConnectionInv
    <3>2. \A s \in 1..MaxConnections : Awaits(slots[s])'
      BY <2>4, <2>7, ConnectedWait DEF Awaits, ConnectionInv
    <3>3. \A l, m \in backlog' : l.by = m.by /\ l.by # None => l = m
      BY <2>1, <2>2, <2>7 DEF ConnectionInv
    <3>4. \A l \in backlog', s \in 1..MaxConnections : l.by = slots'[s].by => l.by = None
      BY <2>1, <2>2, <2>7 DEF ConnectionInv
    <3> QED BY <3>1, <3>2, <3>3, <3>4 DEF ConnectionInv
  <2> QED BY <1>1, <1>2, <2>5, <2>6, <2>8
<1>4. CASE ~(sock # None /\ pc[sock] \in Listens)
  <2> DEFINE next == [client[c] EXCEPT !.st = "failed"]
  <2>1. UNCHANGED <<backlog, slots>> /\ client' = [client EXCEPT ![c] = next]
    BY <1>4 DEF Connect
  <2>2. /\ next \in ClientStates
        /\ next.started = client[c].started /\ next.child = client[c].child
        /\ next.target \in Targets
    BY <1>0, <1>1a DEF ClientStates
  <2> HIDE DEF next
  <2>3. client' \in [Clients -> ClientStates] /\ ClientInv' /\ ConnectionInv'
    BY <2>1, <2>2, ClientAside DEF Connect, ClientInv
  <2>4. TypeOK' BY <2>1, <2>3 DEF TypeOK, Connect, ClientAlone, lockVars
  <2> QED BY <1>1, <1>2, <2>3, <2>4
<1> QED BY <1>3, <1>4

\* A client that gives its connection up leaves it without an owner.
LEMMA TimeoutStep ==
    ASSUME IInv, NEW c \in Clients, Timeout(c)
    PROVE  IInv'
<1> USE DEF IInv
<1>0. client[c] \in ClientStates BY DEF TypeOK
<1>1a. client[c].target \in Targets BY DEF ClientInv, Timeout
<1> DEFINE next == [client[c] EXCEPT !.st = "failed"]
<1>1. client' = [client EXCEPT ![c] = next] BY DEF Timeout
<1>2. /\ next \in ClientStates
      /\ next.started = client[c].started /\ next.child = client[c].child
      /\ next.target \in Targets
  BY <1>0, <1>1a DEF ClientStates
<1> HIDE DEF next
<1>3. /\ client' \in [Clients -> ClientStates]
      /\ client'[c] = next
      /\ \A d \in Clients \ {c} : client'[d] = client[d]
  BY <1>1, <1>2 DEF TypeOK
<1>4. \A k \in backlog : /\ Orphan(k, c) \in [by : Clients \cup {None}, req : Requests, target : Targets]
                         /\ Orphan(k, c).by = None \/ (Orphan(k, c) = k /\ k.by # c)
  BY DEF TypeOK, Orphan
<1>5. \A s \in 1..MaxConnections :
        /\ slots'[s] = Orphan(slots[s], c)
        /\ slots'[s] \in Slots
        /\ slots'[s].by = None \/ (slots'[s] = slots[s] /\ slots[s].by # c)
        /\ slots'[s].st = slots[s].st /\ slots'[s].ok = slots[s].ok /\ slots'[s].req = slots[s].req
        /\ slots'[s].target = slots[s].target
  BY DEF Timeout, TypeOK, Orphan, Slots
<1>6. TypeOK'
  <2>1. backlog' \in SUBSET [by : Clients \cup {None}, req : Requests, target : Targets]
    BY <1>4 DEF Timeout
  <2>2. slots' \in [1..MaxConnections -> Slots] BY <1>5 DEF Timeout
  <2> QED BY <1>3, <2>1, <2>2 DEF TypeOK, Timeout, ClientAlone, lockVars
<1>7. LockInv' BY QuietProcesses DEF Timeout, ClientAlone, lockVars
<1>8. ClientInv' BY <1>2, <1>3 DEF ClientInv
<1>9. ConnectionInv'
  <2>1. \A k \in backlog' : k.by = None \/ (k \in backlog /\ k.by # c) BY <1>4 DEF Timeout
  <2> QED BY <1>3, <1>5, <2>1, ConnectedWait, ThinnerConnections
<1>10. DrainInv' BY <1>5 DEF DrainInv, Timeout
<1> QED BY <1>6, <1>7, <1>8, <1>9, <1>10

\* The process a client starts is a new one, without the lock.
LEMMA SpawnStep ==
    ASSUME IInv, NEW c \in Clients, Spawn(c)
    PROVE  IInv'
<1> USE DEF IInv
<1>0. client[c] \in ClientStates BY DEF TypeOK
<1>1. UNCHANGED <<flock, sock, lockFile, reg, sched, asks, job, backlog, slots>>
  BY DEF Spawn, ClientAlone, lockVars
<1>2. ASSUME NEW p \in Procs, pc[p] = "none", Goes(p, "spawned"),
             client' = [client EXCEPT ![c] = [@ EXCEPT !.st = "trying", !.started = TRUE, !.child = p]]
      PROVE  IInv'
  <2> DEFINE next == [client[c] EXCEPT !.st = "trying", !.started = TRUE, !.child = p]
  <2>1. client' = [client EXCEPT ![c] = next] BY <1>2
  <2>2. next \in ClientStates /\ next.child = p /\ next.target \in Targets
    BY <1>0 DEF ClientStates, ClientInv, Spawn
  <2> HIDE DEF next
  <2>3. client' \in [Clients -> ClientStates] /\ ClientInv' /\ ConnectionInv'
    BY <1>1, <2>1, <2>2, ClientAside DEF Spawn
  <2>4. "spawned" \in Stages /\ "spawned" \notin Owning /\ "spawned" \notin Listens
    BY DEF Stages, Owning, Listens, Running
  <2>5. pc' \in [Procs -> Stages] BY <1>2, <2>4, GoesFacts
  <2>6. TypeOK' BY <1>1, <2>3, <2>5 DEF TypeOK
  <2>7. LockInv' BY <1>1, <1>2, <2>4, LockStep
  <2>8. \A q \in Procs : pc'[q] = "acking" <=> pc[q] = "acking" BY <1>2, <2>4, GoesFacts
  <2>9. DrainInv' BY <1>1, <2>8 DEF DrainInv
  <2> QED BY <2>3, <2>6, <2>7, <2>9
<1>3. CASE client' = [client EXCEPT ![c] = Answered(@, FALSE)] /\ UNCHANGED pc
  <2>1. client' = [client EXCEPT ![c] = Answered(client[c], FALSE)] BY <1>3
  <2>2. client' \in [Clients -> ClientStates] /\ ClientInv' /\ ConnectionInv'
    BY <1>0, <1>1, <2>1, AnsweredTypes, ClientAside DEF Spawn
  <2>3. TypeOK' BY <1>1, <1>3, <2>2 DEF TypeOK
  <2>4. LockInv' BY <1>1, <1>3, QuietProcesses
  <2>5. DrainInv' BY <1>1, <1>3 DEF DrainInv
  <2> QED BY <2>2, <2>3, <2>4, <2>5
<1> QED BY <1>2, <1>3 DEF Spawn

\* A client that tries again has a target, and waits for nothing.
LEMMA RetryStep ==
    ASSUME IInv, NEW c \in Clients, Retry(c)
    PROVE  IInv'
<1> USE DEF IInv
<1>0. client[c] \in ClientStates BY DEF TypeOK
<1>1a. client[c].target \in Targets BY DEF ClientInv, Retry
<1> DEFINE next == [client[c] EXCEPT !.st = "trying"]
<1>1. client' = [client EXCEPT ![c] = next] BY DEF Retry
<1>2. /\ next \in ClientStates
      /\ next.started = client[c].started /\ next.child = client[c].child
      /\ next.target \in Targets
  BY <1>0, <1>1a DEF ClientStates
<1> HIDE DEF next
<1>3. client' \in [Clients -> ClientStates] /\ ClientInv' /\ ConnectionInv'
  BY <1>1, <1>2, ClientAside DEF Retry, ClientInv
<1>4. TypeOK' BY <1>3 DEF TypeOK, Retry, ClientAlone, lockVars
<1>5. LockInv' BY QuietProcesses DEF Retry, ClientAlone, lockVars
<1>6. DrainInv' BY DEF DrainInv, Retry
<1> QED BY <1>3, <1>4, <1>5, <1>6

\* A client that gives up kills the process it started: it ends as by a crash.
LEMMA GiveUpStep ==
    ASSUME IInv, NEW c \in Clients, GiveUp(c)
    PROVE  IInv'
<1> USE DEF IInv
<1>0. client[c] \in ClientStates BY DEF TypeOK
<1> DEFINE told == [client EXCEPT ![c] = Answered(client[c], FALSE)]
<1>1. /\ told \in [Clients -> ClientStates]
      /\ told[c] = Answered(client[c], FALSE)
      /\ \A d \in Clients \ {c} : told[d] = client[d]
  BY <1>0, AnsweredTypes DEF TypeOK
<1>2. client[c].child \in Procs BY DEF GiveUp, ClientInv
<1>3. CASE Alive(client[c].child)
  <2>1. Ends(client[c].child, told) BY <1>3 DEF GiveUp
  <2>2. \A d \in Clients : /\ told[d].started => told[d].child \in Procs
                           /\ told[d].st \in {"trying", "waiting", "failed"} => told[d].target \in Targets
                           /\ client[d].st = "waiting" => told[d] = client[d]
    BY <1>0, <1>1, AnsweredTypes DEF GiveUp, ClientInv
  <2> HIDE DEF told
  <2> QED BY <1>1, <1>2, <2>1, <2>2, EndsStep
<1>4. CASE ~Alive(client[c].child)
  <2>1. /\ client' = told
        /\ UNCHANGED <<flock, sock, lockFile, reg, sched, asks, job, backlog, slots, pc>>
    BY <1>4 DEF GiveUp, ClientAlone, lockVars
  <2>2. client' \in [Clients -> ClientStates] /\ ClientInv' /\ ConnectionInv'
    BY <1>0, <2>1, AnsweredTypes, ClientAside DEF GiveUp
  <2>3. TypeOK' BY <2>1, <2>2 DEF TypeOK
  <2>4. LockInv' BY <2>1, QuietProcesses
  <2>5. DrainInv' BY <2>1 DEF DrainInv
  <2> QED BY <2>2, <2>3, <2>4, <2>5
<1> QED BY <1>3, <1>4

-----------------------------------------------------------------------------
(***************************************************************************)
(* The main loop.                                                          *)
(***************************************************************************)
LEMMA AcceptStep ==
    ASSUME IInv, NEW p \in Procs, Accept(p)
    PROVE  IInv'
<1> USE DEF IInv
<1>1. PICK k \in backlog :
        /\ backlog' = backlog \ {k}
        /\ \/ \E s \in 1..MaxConnections :
                /\ slots[s].st = "free"
                /\ slots' = [slots EXCEPT ![s] = [by |-> k.by, req |-> k.req, target |-> k.target,
                                st |-> "open", current |-> sched.alive, ok |-> FALSE]]
                /\ UNCHANGED client
           \/ client' = Dropped(client, {k.by}) /\ UNCHANGED slots
  BY DEF Accept
<1>2. UNCHANGED <<lockFile, reg, asks, pc, sock, sched, job, flock>> BY DEF Accept, MainAlone
<1>3. LockInv' BY <1>2, QuietProcesses
<1>4. backlog' \in SUBSET [by : Clients \cup {None}, req : Requests, target : Targets]
  BY <1>1 DEF TypeOK
<1>5. ASSUME NEW s \in 1..MaxConnections,
             slots' = [slots EXCEPT ![s] = [by |-> k.by, req |-> k.req, target |-> k.target,
                          st |-> "open", current |-> sched.alive, ok |-> FALSE]],
             UNCHANGED client
      PROVE  IInv'
  <2> DEFINE open == [by |-> k.by, req |-> k.req, target |-> k.target,
                      st |-> "open", current |-> sched.alive, ok |-> FALSE]
  <2>1. /\ open \in Slots /\ open.target \in Targets
        /\ open.by = k.by /\ open.req = k.req /\ open.st = "open" /\ ~open.ok
    BY <1>1 DEF TypeOK, Slots
  <2>2. slots' = [slots EXCEPT ![s] = open] BY <1>5
  <2> HIDE DEF open
  <2>3. /\ slots' \in [1..MaxConnections -> Slots]
        /\ slots'[s] = open
        /\ \A r \in 1..MaxConnections : r # s => slots'[r] = slots[r]
    BY <2>1, <2>2 DEF TypeOK
  <2>4. TypeOK' BY <1>2, <1>4, <1>5, <2>3 DEF TypeOK
  <2>5. ClientInv' BY <1>5 DEF ClientInv
  <2>6. DrainInv' BY <1>2, <2>1, <2>3 DEF DrainInv
  <2>7. ConnectionInv'
    <3>1. \A l \in backlog' : Awaits(l)' BY <1>1, <1>5 DEF ConnectionInv, Awaits
    <3>2. \A r \in 1..MaxConnections : Awaits(slots[r])'
      BY <1>1, <1>5, <2>1, <2>3 DEF ConnectionInv, Awaits
    <3>3. \A l, m \in backlog' : l.by = m.by /\ l.by # None => l = m BY <1>1 DEF ConnectionInv
    <3>4. \A r, q \in 1..MaxConnections : slots'[r].by = slots'[q].by /\ slots'[r].by # None => r = q
      BY <1>1, <2>1, <2>3 DEF ConnectionInv
    <3>5. \A l \in backlog', r \in 1..MaxConnections : l.by = slots'[r].by => l.by = None
      BY <1>1, <2>1, <2>3 DEF ConnectionInv
    <3> QED BY <3>1, <3>2, <3>3, <3>4, <3>5 DEF ConnectionInv
  <2> QED BY <1>3, <2>4, <2>5, <2>6, <2>7
<1>6. CASE client' = Dropped(client, {k.by}) /\ UNCHANGED slots
  <2> client \in [Clients -> ClientStates] BY DEF TypeOK
  <2>1. TypeOK' BY <1>2, <1>4, <1>6, DroppedTypes DEF TypeOK
  <2>2. ClientInv'
    <3>1. \A c \in Clients : c \in {k.by} => client[c].st = "waiting"
      BY <1>1, NoneAssumption, ConnectedWait
    <3> QED BY <1>6, <3>1, DroppedClients DEF ClientInv
  <2>3. DrainInv' BY <1>2, <1>6 DEF DrainInv
  <2>4. \A c \in Clients : c # k.by => client'[c] = client[c] BY <1>6, DroppedTypes
  <2>5. /\ \A l \in backlog' : l \in backlog /\ (l.by # None => l.by # k.by)
        /\ \A s \in 1..MaxConnections : slots[s].by # None => slots[s].by # k.by
    BY <1>1 DEF ConnectionInv
  <2>6. ConnectionInv' BY <1>6, <2>4, <2>5, ConnectedWait, ThinnerConnections
  <2> QED BY <1>3, <2>1, <2>2, <2>3, <2>6
<1> QED BY <1>1, <1>5, <1>6

\* Slots are served further under the same client and request, and none is
\* acknowledged or answered on the way.
LEMMA SlotsStep ==
    ASSUME IInv, UNCHANGED <<backlog, client, job>>, slots' \in [1..MaxConnections -> Slots],
           \A q \in Procs : pc'[q] = "acking" <=> pc[q] = "acking",
           \A s \in 1..MaxConnections :
              /\ slots'[s].by = slots[s].by /\ slots'[s].req = slots[s].req
              /\ slots'[s].st = "open" => slots[s].st = "open" /\ slots'[s].target = slots[s].target
              /\ slots'[s].st = "acked" => slots[s].st = "acked"
              /\ slots'[s].st = "reply" \/ slots'[s].ok => slots[s].req # "shutdown"
    PROVE  ConnectionInv' /\ ClientInv' /\ DrainInv'
<1> USE DEF IInv
<1>1. ConnectionInv' BY ThinnerConnections
<1>2. ClientInv' BY DEF ClientInv
<1>3. DrainInv' BY DEF DrainInv
<1> QED BY <1>1, <1>2, <1>3

\* The idle grace, its check and the drain move a daemon that listens.
LEMMA IdleStep ==
    ASSUME IInv, NEW p \in Procs, IdleGrace(p) \/ IdleCheck(p) \/ Drain(p)
    PROVE  IInv'
<1> USE DEF IInv, MainAlone
<1>0. /\ {"draining", "left"} \subseteq Stages
      /\ {"draining", "left", "serving"} \subseteq Listens
      /\ {"draining", "left", "serving"} \subseteq Owning
  BY DEF Stages, Owning, Listens, Running
<1>1. CASE IdleGrace(p)
  <2>1. sched' \in [map : SUBSET Targets, alive : BOOLEAN, monitored : BOOLEAN]
    BY <1>1 DEF IdleGrace, TypeOK
  <2>2. TypeOK' BY <1>1, <2>1 DEF IdleGrace, TypeOK
  <2>3. LockInv' BY <1>1, QuietProcesses DEF IdleGrace
  <2>4. ConnectionInv' /\ ClientInv' BY <1>1, QuietConnections DEF IdleGrace
  <2>5. DrainInv' BY <1>1 DEF IdleGrace, DrainInv
  <2> QED BY <2>2, <2>3, <2>4, <2>5
<1>2. CASE IdleCheck(p) /\ Goes(p, "left") /\ UNCHANGED <<sched, slots>>
  <2>1. TypeOK' BY <1>0, <1>2, GoesFacts DEF IdleCheck, TypeOK
  <2>2. pc[p] = "serving" /\ flock = p /\ sock = p BY <1>0, <1>2 DEF IdleCheck, LockInv
  <2> QED BY <1>0, <1>2, <2>1, <2>2, MoveStep DEF IdleCheck
<1>3. CASE /\ IdleCheck(p)
           /\ sched' = [map |-> Active, alive |-> TRUE, monitored |-> FALSE]
           /\ slots' = [s \in 1..MaxConnections |-> [slots[s] EXCEPT !.current = FALSE]]
           /\ UNCHANGED pc
  <2>1. Active \in SUBSET Targets BY DEF Active
  <2>2. sched' \in [map : SUBSET Targets, alive : BOOLEAN, monitored : BOOLEAN] BY <1>3, <2>1
  <2>3. /\ slots' \in [1..MaxConnections -> Slots]
        /\ \A s \in 1..MaxConnections :
             /\ slots'[s].by = slots[s].by /\ slots'[s].req = slots[s].req
             /\ slots'[s].st = slots[s].st /\ slots'[s].ok = slots[s].ok
             /\ slots'[s].target = slots[s].target
    BY <1>3, ZenonT(40) DEF TypeOK, Slots
  <2>4. TypeOK' BY <1>3, <2>2, <2>3 DEF IdleCheck, TypeOK
  <2>5. LockInv' BY <1>3, QuietProcesses DEF IdleCheck
  <2>6. ConnectionInv' /\ ClientInv' /\ DrainInv'
    BY <1>3, <2>3, SlotsStep DEF IdleCheck, DrainInv
  <2> QED BY <2>4, <2>5, <2>6
<1>4. CASE Drain(p)
  <2>1. sched' \in [map : SUBSET Targets, alive : BOOLEAN, monitored : BOOLEAN]
    BY <1>4 DEF Drain, TypeOK
  <2>2. Goes(p, "draining") /\ TypeOK' BY <1>0, <1>4, <2>1, GoesFacts DEF Drain, TypeOK
  <2>3. pc[p] = "serving" /\ flock = p /\ sock = p BY <1>0, <1>4 DEF Drain, LockInv
  <2> QED BY <1>0, <1>4, <2>2, <2>3, MoveStep DEF Drain
<1> QED BY <1>1, <1>2, <1>3, <1>4 DEF IdleCheck

\* The acknowledgement: the daemon has no job, and it is from now on acking.
LEMMA AcknowledgeStep ==
    ASSUME IInv, NEW p \in Procs, Acknowledge(p)
    PROVE  IInv'
<1> USE DEF IInv, MainAlone
<1>0. "acking" \in Stages /\ "acking" \in Owning /\ {"acking", "draining"} \subseteq Listens
  BY DEF Stages, Owning, Listens, Running
<1>1. /\ pc' \in [Procs -> Stages]
      /\ pc'[p] = "acking"
      /\ \A q \in Procs : q # p => pc'[q] = pc[q]
  BY <1>0, GoesFacts DEF Acknowledge
<1>2. \A s \in 1..MaxConnections : slots[s] \in Slots /\ [slots[s] EXCEPT !.st = "acked"] \in Slots
  BY DEF TypeOK, Slots
<1>3. /\ slots' \in [1..MaxConnections -> Slots]
      /\ \A s \in 1..MaxConnections :
           /\ slots'[s].by = slots[s].by /\ slots'[s].req = slots[s].req
           /\ slots'[s].st \in {slots[s].st, "acked"} /\ slots'[s].ok = slots[s].ok
           /\ slots'[s].target = slots[s].target
  BY <1>2 DEF Acknowledge, Slots
<1>4. TypeOK' BY <1>1, <1>3 DEF Acknowledge, TypeOK
<1>5. flock = p /\ sock = p
  <2>1. pc[p] \in Owning /\ pc[p] \in Listens BY <1>0, StageFacts DEF Acknowledge
  <2> QED BY <2>1 DEF LockInv
<1>6. LockInv' BY <1>0, <1>5, LockStep DEF Acknowledge
<1>7. ConnectionInv' BY <1>3, ThinnerConnections DEF Acknowledge
<1>8. ClientInv' BY DEF Acknowledge, ClientInv
<1>9. DrainInv' BY <1>1, <1>3 DEF Acknowledge, DrainInv
<1> QED BY <1>4, <1>6, <1>7, <1>8, <1>9

\* A daemon that leaves the loop keeps the lock, and answers nobody any more.
LEMMA LeaveStep ==
    ASSUME IInv, NEW p \in Procs, Leave(p)
    PROVE  IInv'
<1> USE DEF IInv, MainAlone
<1>0. "left" \in Stages /\ "left" \in Owning /\ {"left", "acking"} \subseteq Listens /\ "acking" \in Owning
  BY DEF Stages, Owning, Listens, Running
<1>1. /\ pc' \in [Procs -> Stages]
      /\ pc'[p] = "left"
      /\ \A q \in Procs : q # p => pc'[q] = pc[q]
  BY <1>0, GoesFacts DEF Leave
<1>2. Free \in Slots /\ Free.by = None /\ Free.st = "free" /\ ~Free.ok BY DEF Free, Slots, Requests
<1>3. \A s \in 1..MaxConnections : slots'[s] = Free BY DEF Leave
<1>4. client \in [Clients -> ClientStates] BY DEF TypeOK
<1>5. TypeOK' BY <1>1, <1>2, <1>4, DroppedTypes DEF Leave, TypeOK
<1>6. flock = p /\ sock = p BY <1>0 DEF LockInv, Leave
<1>7. LockInv' BY <1>0, <1>6, LockStep DEF Leave
<1>8. ClientInv'
  <2>1. \A c \in Clients \cap Connected : client[c].st = "waiting"
    BY NoneAssumption, ConnectedWait DEF Connected
  <2> QED BY <1>4, <2>1, DroppedClients DEF ClientInv, Leave
<1>9. ConnectionInv'
  <2>1. \A k \in backlog : k.by # None => k.by \in Clients \ Connected
    BY ConnectedWait DEF ConnectionInv, Connected
  <2>2. \A c \in Clients \ Connected : client'[c] = client[c] BY <1>4, DroppedTypes DEF Leave
  <2>3. backlog' = backlog BY DEF Leave
  <2> QED BY <1>2, <1>3, <2>1, <2>2, <2>3, ThinnerConnections
<1>10. DrainInv' BY <1>1, <1>2, <1>3 DEF Leave, DrainInv
<1> QED BY <1>5, <1>7, <1>8, <1>9, <1>10

\* The socket is removed by the process that holds the lock.
LEMMA UnlinkStep ==
    ASSUME IInv, NEW p \in Procs, Unlink(p)
    PROVE  IInv'
<1> USE DEF IInv, MainAlone
<1>0. /\ "unlinked" \in Stages /\ "unlinked" \in Owning /\ "unlinked" \notin Listens
      /\ "left" \in Owning
  BY DEF Stages, Owning, Listens, Running
<1>1. /\ pc' \in [Procs -> Stages]
      /\ pc'[p] = "unlinked"
      /\ \A q \in Procs : q # p => pc'[q] = pc[q]
  BY <1>0, GoesFacts DEF Unlink
<1>2. client \in [Clients -> ClientStates] BY DEF TypeOK
<1>3. TypeOK' BY <1>1, <1>2, DroppedTypes DEF Unlink, TypeOK
<1>4. flock = p BY <1>0 DEF LockInv, Unlink
<1>5. LockInv' BY <1>0, <1>4, LockStep DEF Unlink
<1>6. ClientInv'
  <2>1. \A c \in Clients \cap Backlogged : client[c].st = "waiting"
    BY NoneAssumption, ConnectedWait DEF Backlogged
  <2> QED BY <1>2, <2>1, DroppedClients DEF ClientInv, Unlink
<1>7. ConnectionInv'
  <2>1. \A s \in 1..MaxConnections : slots[s].by # None => slots[s].by \in Clients \ Backlogged
    BY ConnectedWait DEF ConnectionInv, Backlogged
  <2>2. \A c \in Clients \ Backlogged : client'[c] = client[c] BY <1>2, DroppedTypes DEF Unlink
  <2>3. backlog' = {} /\ slots' = slots BY DEF Unlink
  <2> QED BY <2>1, <2>2, <2>3, ThinnerConnections
<1>8. \A q \in Procs : pc'[q] = "acking" <=> pc[q] = "acking" BY <1>1 DEF Unlink
<1>9. DrainInv' BY <1>8 DEF Unlink, DrainInv
<1> QED BY <1>3, <1>5, <1>6, <1>7, <1>9

\* The lock is given up after the socket is gone.
LEMMA ReleaseStep ==
    ASSUME IInv, NEW p \in Procs, Release(p)
    PROVE  IInv'
<1> USE DEF IInv, MainAlone
<1>0. /\ "lingering" \in Stages /\ "lingering" \notin Owning /\ "lingering" \notin Listens
      /\ "unlinked" \in Owning
  BY DEF Stages, Owning, Listens, Running
<1>1. Goes(p, "lingering") /\ TypeOK' BY <1>0, GoesFacts DEF Release, TypeOK, mainVars
<1>2. flock = p BY <1>0 DEF LockInv, Release
<1> QED BY <1>0, <1>1, <1>2, MoveStep DEF Release, mainVars

\* A job starts in a daemon that serves, and so in none that acknowledges.
LEMMA JobStep ==
    ASSUME IInv, NEW p \in Procs, JobStarts(p) \/ JobEnds(p)
    PROVE  IInv'
<1> USE DEF IInv, MainAlone
<1>1. TypeOK' BY DEF JobStarts, JobEnds, TypeOK
<1>2. LockInv' BY QuietProcesses DEF JobStarts, JobEnds
<1>3. ConnectionInv' /\ ClientInv' BY QuietConnections DEF JobStarts, JobEnds
<1>4. DrainInv' BY DEF JobStarts, JobEnds, DrainInv
<1> QED BY <1>1, <1>2, <1>3, <1>4

\* Every step of a daemon's main task.
LEMMA MainStep ==
    ASSUME IInv, NEW p \in Procs, MainLoop(p) \/ JobStarts(p) \/ JobEnds(p) \/ Crash(p)
    PROVE  IInv'
<1>1. CASE Quit(p) \/ Crash(p)
  <2>1. Ends(p, client) BY <1>1 DEF Quit, Crash
  <2>2. client \in [Clients -> ClientStates] BY DEF IInv, TypeOK
  <2> QED BY <2>1, <2>2, EndsStep DEF IInv, ClientInv
<1> QED BY <1>1, AcceptStep, IdleStep, AcknowledgeStep, LeaveStep, UnlinkStep, ReleaseStep, JobStep
        DEF MainLoop

-----------------------------------------------------------------------------
(***************************************************************************)
(* The connections, and the process monitor.                               *)
(***************************************************************************)
LEMMA NotifiedTypes ==
    ASSUME TypeOK, NEW s \in 1..MaxConnections, NEW map \in SUBSET Targets
    PROVE  Notified(s, map) \in [map : SUBSET Targets, alive : BOOLEAN, monitored : BOOLEAN]
  BY DEF TypeOK, Notified

\* A handler answers its own request; a shutdown is only acknowledged.
LEMMA ServeStep ==
    ASSUME IInv, NEW s \in 1..MaxConnections, Serve(s)
    PROVE  IInv'
<1> USE DEF IInv
<1>1. UNCHANGED <<pc, sock, job, backlog, client, asks, lockFile, flock>> BY DEF Serve, lockVars
<1>2. LockInv' BY <1>1, QuietProcesses
<1>3. slots[s] \in Slots /\ slots[s].target \in Targets BY DEF TypeOK, DrainInv, Serve
<1>4. /\ reg' \in [Targets -> {"absent", "active", "ended"}]
      /\ sched' \in [map : SUBSET Targets, alive : BOOLEAN, monitored : BOOLEAN]
  <2>1. CASE Handled(s)
    <3> DEFINE t == slots[s].target
    <3>1. sched.map \cup {t} \in SUBSET Targets /\ sched.map \ {t} \in SUBSET Targets
      BY <1>3 DEF TypeOK
    <3>2. /\ Notified(s, sched.map \cup {t}) \in [map : SUBSET Targets, alive : BOOLEAN, monitored : BOOLEAN]
          /\ Notified(s, sched.map \ {t}) \in [map : SUBSET Targets, alive : BOOLEAN, monitored : BOOLEAN]
      BY <3>1, NotifiedTypes
    <3>3. sched' \in {sched, Notified(s, sched.map \cup {t}), Notified(s, sched.map \ {t})}
      BY <2>1 DEF Handled
    <3>4. reg' \in {reg, [reg EXCEPT ![t] = "active"], [reg EXCEPT ![t] = "ended"]}
      BY <2>1 DEF Handled
    <3> QED BY <1>3, <3>2, <3>3, <3>4 DEF TypeOK
  <2>2. CASE UNCHANGED <<reg, sched>> BY <2>2 DEF TypeOK
  <2> QED BY <2>1, <2>2 DEF Serve, Refused
<1>5. PICK next \in Slots :
        /\ slots' = [slots EXCEPT ![s] = next]
        /\ next.by = slots[s].by /\ next.req = slots[s].req
        /\ next.st \in {"reply", "signalled"}
        /\ next.st = "reply" => slots[s].req # "shutdown"
        /\ next.ok => slots[s].ok \/ slots[s].req # "shutdown"
  <2> DEFINE good == [slots[s] EXCEPT !.st = "reply", !.ok = TRUE]
             bad == [slots[s] EXCEPT !.st = "reply"]
             signal == [slots[s] EXCEPT !.st = "signalled"]
  <2>1. good \in Slots /\ bad \in Slots /\ signal \in Slots BY <1>3 DEF Slots
  <2>2. CASE slots[s].req # "shutdown" /\ slots' \in {[slots EXCEPT ![s] = good], [slots EXCEPT ![s] = bad]}
    BY <1>3, <2>1, <2>2 DEF Slots
  <2>3. CASE slots[s].req = "shutdown" /\ slots' = [slots EXCEPT ![s] = signal]
    BY <1>3, <2>1, <2>3 DEF Slots
  <2> QED BY <2>2, <2>3 DEF Serve
<1>6. /\ slots' \in [1..MaxConnections -> Slots]
      /\ slots'[s] = next
      /\ \A r \in 1..MaxConnections : r # s => slots'[r] = slots[r]
  BY <1>5 DEF TypeOK
<1>7. TypeOK' BY <1>1, <1>4, <1>6 DEF TypeOK
<1>8. ConnectionInv' /\ ClientInv' /\ DrainInv'
  BY <1>1, <1>5, <1>6, SlotsStep DEF DrainInv
<1> QED BY <1>2, <1>7, <1>8

\* An answer frees its slot and ends the wait of its client.
LEMMA ReplyStep ==
    ASSUME IInv, NEW s \in 1..MaxConnections, Reply(s)
    PROVE  IInv'
<1> USE DEF IInv
<1>1. UNCHANGED <<pc, sock, reg, sched, job, backlog, asks, lockFile, flock>> BY DEF Reply, lockVars
<1>2. LockInv' BY <1>1, QuietProcesses
<1> DEFINE c == slots[s].by
           good == slots[s].ok \/ slots[s].st = "acked"
<1>3. slots[s] \in Slots /\ c \in Clients \cup {None} /\ good \in BOOLEAN BY DEF TypeOK, Slots
<1>4. client' = IF c = None THEN client ELSE [client EXCEPT ![c] = Answered(client[c], good)]
  BY DEF Reply
<1> HIDE DEF good
<1>5. /\ client' \in [Clients -> ClientStates]
      /\ \A d \in Clients : d # c => client'[d] = client[d]
      /\ c # None => ~client'[c].started /\ client'[c].st = "done"
  BY <1>3, <1>4, AnsweredTypes DEF TypeOK
<1>6. Free \in Slots /\ Free.by = None /\ Free.st = "free" /\ ~Free.ok BY DEF Free, Slots, Requests
<1>7. /\ slots' \in [1..MaxConnections -> Slots]
      /\ slots'[s] = Free
      /\ \A r \in 1..MaxConnections : r # s => slots'[r] = slots[r]
  BY <1>6 DEF TypeOK, Reply
<1>8. TypeOK' BY <1>1, <1>5, <1>7 DEF TypeOK
<1>9. ClientInv' BY <1>3, <1>5, NoneAssumption DEF ClientInv
<1>10. ConnectionInv'
  <2>1. \A k \in backlog : k.by # None => k.by # c BY DEF ConnectionInv
  <2>2. \A r \in 1..MaxConnections : r # s /\ slots[r].by # None => slots[r].by # c
    BY DEF ConnectionInv
  <2> HIDE DEF c
  <2> QED BY <1>1, <1>5, <1>6, <1>7, <2>1, <2>2, ConnectedWait, ThinnerConnections
<1>11. DrainInv' BY <1>1, <1>6, <1>7 DEF DrainInv
<1> QED BY <1>2, <1>8, <1>9, <1>10, <1>11

\* A target that ends leaves locks and connections alone.
LEMMA TargetGoneStep ==
    ASSUME IInv, NEW t \in Targets, TargetGone(t)
    PROVE  IInv'
<1> USE DEF IInv
<1>1. UNCHANGED <<pc, sock, job, backlog, slots, client, asks, lockFile, flock>>
  BY DEF TargetGone, lockVars
<1>2. sched' \in [map : SUBSET Targets, alive : BOOLEAN, monitored : BOOLEAN]
  BY DEF TargetGone, TypeOK
<1>3. TypeOK' BY <1>1, <1>2 DEF TargetGone, TypeOK
<1>4. LockInv' BY <1>1, QuietProcesses
<1>5. ConnectionInv' /\ ClientInv' BY <1>1, QuietConnections
<1>6. DrainInv' BY <1>1 DEF DrainInv
<1> QED BY <1>3, <1>4, <1>5, <1>6

-----------------------------------------------------------------------------
(***************************************************************************)
(* The theorems.                                                           *)
(***************************************************************************)
LEMMA NextStep == IInv /\ [Next]_vars => IInv'
<1> SUFFICES ASSUME IInv, [Next]_vars PROVE IInv' OBVIOUS
<1>1. ASSUME NEW p \in Procs, Locking(p) \/ MainLoop(p) \/ JobStarts(p) \/ JobEnds(p) \/ Crash(p)
      PROVE  IInv'
  BY <1>1, LockingStep, MainStep
<1>2. ASSUME NEW s \in 1..MaxConnections, Connection(s) PROVE IInv'
  BY <1>2, ServeStep, ReplyStep DEF Connection
<1>3. ASSUME NEW c \in Clients, ClientStep(c) PROVE IInv'
  BY <1>3, ConnectStep, TimeoutStep, SpawnStep, RetryStep, GiveUpStep DEF ClientStep
<1>4. ASSUME NEW c \in Clients, NEW r \in Requests, NEW t \in Targets, Ask(c, r, t) PROVE IInv'
  BY <1>4, AskStep
<1>5. ASSUME NEW t \in Targets, TargetGone(t) PROVE IInv' BY <1>5, TargetGoneStep
<1>6. CASE UNCHANGED vars
  <2> UNCHANGED <<lockFile, flock, pc, sock, reg, sched, job, backlog, slots, client, asks>>
    BY <1>6 DEF vars
  <2>1. TypeOK' BY DEF IInv, TypeOK
  <2>2. LockInv' BY QuietProcesses
  <2>3. ConnectionInv' /\ ClientInv' BY QuietConnections
  <2>4. DrainInv' BY DEF IInv, DrainInv
  <2> QED BY <2>1, <2>2, <2>3, <2>4 DEF IInv
<1> QED BY <1>1, <1>2, <1>3, <1>4, <1>5, <1>6 DEF Next

\* The inductive invariant of the daemons, their lock, socket, connections and
\* jobs, and of the clients that start, ask and kill them.
THEOREM DaemonInvariant == Spec => []IInv
  BY InitInv, NextStep, PTL DEF Spec

\* However many processes are started, race for the lock file (lock.rs), crash
\* or are killed, one at most is past the lock.
THEOREM LockHasOneOwner == Spec => []OneOwner
<1>1. IInv => OneOwner BY OwnerIsOne
<1> QED BY <1>1, DaemonInvariant, PTL

\* The daemon that serves is the one clients reach at the socket path (mod.rs).
THEOREM SocketIsServing == Spec => []SocketIsOwn
<1>1. IInv => SocketIsOwn BY DEF IInv, LockInv, SocketIsOwn, Listens
<1> QED BY <1>1, DaemonInvariant, PTL

\* A process that ends gives no client an answer but the one that gave up on it.
LEMMA EndsAnswer ==
    ASSUME IInv, NEW p \in Procs, NEW cl \in [Clients -> ClientStates], Ends(p, cl), NEW c \in Clients
    PROVE  client'[c].answer = cl[c].answer
  BY DroppedTypes DEF Ends

\* Only the reply on its connection tells a client that its request succeeded.
LEMMA OkIsReply ==
    ASSUME IInv, Next, NEW c \in Clients, client[c].answer # "ok", client'[c].answer = "ok"
    PROVE  \E s \in 1..MaxConnections : Reply(s) /\ slots[s].by = c
<1> client \in [Clients -> ClientStates] BY DEF IInv, TypeOK
<1> client[c] \in ClientStates OBVIOUS
<1>1. ASSUME NEW p \in Procs, Locking(p) PROVE FALSE
  <2>1. client' = client
    BY <1>1 DEF Locking, Create, FlockNew, ReadLock, TakeOver, Truncate, WriteIdentity, Bind, LockAlone
  <2> QED BY <2>1
<1>2. ASSUME NEW p \in Procs, MainLoop(p) \/ JobStarts(p) \/ JobEnds(p) \/ Crash(p) PROVE FALSE
  <2>1. CASE Quit(p) \/ Crash(p)
    <3>1. Ends(p, client) BY <2>1 DEF Quit, Crash
    <3> QED BY <3>1, EndsAnswer
  <2>2. CASE Accept(p) \/ Leave(p) \/ Unlink(p)
    <3>1. client' = client \/ \E by : client' = Dropped(client, by) BY <2>2 DEF Accept, Leave, Unlink
    <3> QED BY <3>1, DroppedTypes
  <2>3. CASE IdleGrace(p) \/ IdleCheck(p) \/ Drain(p) \/ Acknowledge(p) \/ Release(p)
             \/ JobStarts(p) \/ JobEnds(p)
    <3>1. client' = client
      BY <2>3 DEF IdleGrace, IdleCheck, Drain, Acknowledge, Release, JobStarts, JobEnds
    <3> QED BY <3>1
  <2> QED BY <1>2, <2>1, <2>2, <2>3 DEF MainLoop
<1>3. ASSUME NEW s \in 1..MaxConnections, Serve(s) PROVE FALSE BY <1>3 DEF Serve
<1>4. ASSUME NEW s \in 1..MaxConnections, Reply(s) PROVE slots[s].by = c
  <2>1. slots[s].by \in Clients \cup {None} BY DEF IInv, TypeOK, Slots
  <2> QED BY <1>4, <2>1 DEF Reply
<1>5. ASSUME NEW d \in Clients, Connect(d) \/ Timeout(d) \/ Retry(d) PROVE FALSE
  <2>1. client[d] \in ClientStates OBVIOUS
  <2>2. \E st : client' = [client EXCEPT ![d] = [client[d] EXCEPT !.st = st]]
    BY <1>5 DEF Connect, Timeout, Retry
  <2> QED BY <2>1, <2>2 DEF ClientStates
<1>6. ASSUME NEW d \in Clients, Spawn(d) PROVE FALSE
  <2>1. client[d] \in ClientStates OBVIOUS
  <2>2. CASE client' = [client EXCEPT ![d] = Answered(@, FALSE)]
    BY <2>1, <2>2, AnsweredTypes
  <2>3. ASSUME NEW p \in Procs,
               client' = [client EXCEPT ![d] = [@ EXCEPT !.st = "trying", !.started = TRUE, !.child = p]]
        PROVE  FALSE
    BY <2>1, <2>3 DEF ClientStates
  <2> QED BY <1>6, <2>2, <2>3 DEF Spawn
<1>7. ASSUME NEW d \in Clients, GiveUp(d) PROVE FALSE
  <2> DEFINE told == [client EXCEPT ![d] = Answered(client[d], FALSE)]
  <2>1. client[d] \in ClientStates /\ client[d].child \in Procs BY <1>7 DEF GiveUp, IInv, ClientInv
  <2>2. told \in [Clients -> ClientStates] /\ told[c].answer # "ok"
    BY <2>1, AnsweredTypes
  <2>3. client' = told \/ Ends(client[d].child, told) BY <1>7 DEF GiveUp
  <2> HIDE DEF told
  <2> QED BY <2>1, <2>2, <2>3, EndsAnswer
<1>8. ASSUME NEW d \in Clients, NEW r \in Requests, NEW t \in Targets, Ask(d, r, t) PROVE FALSE
  BY <1>8 DEF Ask
<1>9. ASSUME NEW t \in Targets, TargetGone(t) PROVE FALSE BY <1>9 DEF TargetGone
<1> QED BY <1>1, <1>2, <1>3, <1>4, <1>5, <1>6, <1>7, <1>8, <1>9 DEF Next, Connection, ClientStep

\* A client is told Stopped in answer to its shutdown (ipc_service.rs,
\* acknowledge_shutdown_requests) when the daemon it asked runs no job.
THEOREM ShutdownDrains == Spec => StoppedMeansDrained
<1> DEFINE Drained ==
      \A c \in Clients :
          (client[c].req = "shutdown" /\ client[c].answer # "ok" /\ client'[c].answer = "ok")
             => \A p \in Procs : pc[p] \in Running => p \notin job
<1>1. IInv /\ [Next]_vars => [Drained]_vars
  <2> SUFFICES ASSUME IInv, Next, NEW c \in Clients, client[c].req = "shutdown",
                      client[c].answer # "ok", client'[c].answer = "ok",
                      NEW p \in Procs, pc[p] \in Running
               PROVE  p \notin job
    OBVIOUS
  <2>1. PICK s \in 1..MaxConnections : Reply(s) /\ slots[s].by = c BY OkIsReply
  <2>2. slots[s].req = "shutdown" BY <2>1, NoneAssumption DEF IInv, ConnectionInv, Awaits
  <2>3. slots[s].st = "acked" BY <2>1, <2>2 DEF Reply, IInv, DrainInv
  <2>4. PICK q \in Procs : pc[q] = "acking" BY <2>3 DEF IInv, DrainInv
  <2>5. pc[p] \in Owning /\ pc[q] \in Owning BY <2>4 DEF Owning, Running
  <2>6. p = q BY <2>5, OwnerIsOne DEF OneOwner
  <2> QED BY <2>4, <2>6 DEF IInv, DrainInv
<1> QED BY <1>1, DaemonInvariant, PTL DEF Spec, StoppedMeansDrained
=============================================================================
