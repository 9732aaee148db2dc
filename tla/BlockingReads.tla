--------------------------- MODULE BlockingReads ---------------------------
(* The two gates every blocking read passes: ReadPool::with_conn over the      *)
(* SQLite connections (src/storage.rs) and NodeReader::read over the node's    *)
(* databases (src/node_reads.rs). A request waits for a permit, spawns a       *)
(* closure that owns the permit, and awaits its answer; the closure runs on    *)
(* the blocking pool and outlives a client that goes away.                     *)
(*                                                                             *)
(* Clients are connections that make one request after another, and the        *)
(* indexing loop, whose metadata fetches queue at the same gate.               *)
EXTENDS Integers, Sequences, FiniteSets

CONSTANTS
    READ_POOL_SIZE,             \* SQLite connections, and as many permits
    MAX_CONCURRENT_NODE_READS,  \* permits for reads of the node's databases
    Conns,                      \* the connections ReadPool::open opens
    Browsers,                   \* API clients
    Loop,                       \* the indexing loop
    Jobs,                       \* names for spawned closures
    NoOne, NoConn,              \* no owner, no connection
    MaxLost                     \* bound: panics inside a SQLite closure

ASSUME PoolAssumption ==
    /\ READ_POOL_SIZE \in Nat \ {0}
    /\ MAX_CONCURRENT_NODE_READS \in Nat \ {0}
    /\ IsFiniteSet(Conns) /\ Cardinality(Conns) = READ_POOL_SIZE
    /\ IsFiniteSet(Jobs)
    /\ NoConn \notin Conns
    /\ Loop \notin Browsers /\ NoOne \notin Browsers \cup {Loop}
    /\ MaxLost \in Nat

VARIABLES
    queue,    \* gate -> the clients waiting for a permit, first come first
    permits,  \* gate -> free permits
    conns,    \* the pooled connections
    job,      \* closure -> its state
    pc,       \* client -> where its handler is
    rest,     \* client -> the gates its handler still has to pass, the next first
    lost,     \* connections dropped by a panicking closure
    refused   \* reads answered "read pool exhausted"

vars == <<queue, permits, conns, job, pc, rest, lost, refused>>

-----------------------------------------------------------------------------
Gates == {"sqlite", "node"}
Clients == Browsers \cup {Loop}

(* ReadPool::open, NodeReader::new.                                            *)
PermitsOf(gate) ==
    IF gate = "sqlite" THEN READ_POOL_SIZE ELSE MAX_CONCURRENT_NODE_READS

(* The reads of a handler, one after another. Node first: /txs/{hash} and      *)
(* /address/{addr}. SQLite first: the feeds, hydrated from the node. The node  *)
(* twice: /stats without a committee record, an epoch's details.               *)
Handlers ==
    {<<"node">>, <<"sqlite">>, <<"node", "sqlite">>, <<"sqlite", "node">>, <<"node", "node">>}

NoJob == [phase |-> "none", gate |-> "node", owner |-> NoOne, conn |-> NoConn, ok |-> TRUE]

Held(gate) == {j \in Jobs : job[j].phase # "none" /\ job[j].gate = gate}
InUse == {j \in Jobs : job[j].conn # NoConn}

Init ==
    /\ queue = [g \in Gates |-> <<>>]
    /\ permits = [g \in Gates |-> PermitsOf(g)]
    /\ conns = Conns
    /\ job = [j \in Jobs |-> NoJob]
    /\ pc = [c \in Clients |-> "idle"]
    /\ rest = [c \in Clients |-> <<>>]
    /\ lost = 0
    /\ refused = FALSE

-----------------------------------------------------------------------------
(* A handler begins; the loop begins a metadata fetch.                         *)
Begin(c) ==
    /\ pc[c] = "idle"
    /\ \E h \in IF c = Loop THEN {<<"node">>} ELSE Handlers : rest' = [rest EXCEPT ![c] = h]
    /\ pc' = [pc EXCEPT ![c] = "ready"]
    /\ UNCHANGED <<queue, permits, conns, job, lost, refused>>

(* permits.acquire_owned(): a fair queue, nobody is rejected.                  *)
Ask(c) ==
    /\ pc[c] = "ready"
    /\ pc' = [pc EXCEPT ![c] = "queued"]
    /\ queue' = [queue EXCEPT ![Head(rest[c])] = Append(@, c)]
    /\ UNCHANGED <<permits, conns, job, rest, lost, refused>>

(* acquire_owned resolves for client c, which spawns the closure that owns the *)
(* permit.                                                                     *)
Spawn(gate, c) ==
    /\ \E j \in Jobs :
         /\ job[j].phase = "none"
         /\ job' = [job EXCEPT ![j] = [NoJob EXCEPT !.phase = "spawned", !.gate = gate,
                                                    !.owner = c]]
    /\ pc' = [pc EXCEPT ![c] = "awaiting"]
    /\ permits' = [permits EXCEPT ![gate] = @ - 1]
    /\ UNCHANGED <<conns, rest, lost, refused>>

(* Mutant of Acquire: the newest waiter is served first.                       *)
AcquireNewest(gate) ==
    /\ permits[gate] > 0 /\ queue[gate] # <<>>
    /\ Spawn(gate, queue[gate][Len(queue[gate])])
    /\ queue' = [queue EXCEPT ![gate] = SubSeq(@, 1, Len(@) - 1)]

(* Mutant of Acquire: a waiter is woken whether or not a permit is free.       *)
AcquireUnguarded(gate) ==
    /\ queue[gate] # <<>>
    /\ Spawn(gate, Head(queue[gate]))
    /\ queue' = [queue EXCEPT ![gate] = Tail(@)]

(* The oldest waiter gets the free permit.                                     *)
Acquire(gate) ==
    /\ permits[gate] > 0 /\ queue[gate] # <<>>
    /\ Spawn(gate, Head(queue[gate]))
    /\ queue' = [queue EXCEPT ![gate] = Tail(@)]

(* Mutant of PopConn: the connection is used without being taken.              *)
PeekConn(j, k) ==
    /\ k \in conns
    /\ conns' = conns
    /\ job' = [job EXCEPT ![j].phase = "running", ![j].conn = k]

(* conns.lock().pop(): which connection it is makes no difference.             *)
PopConn(j, k) ==
    /\ k \in conns
    /\ conns' = conns \ {k}
    /\ job' = [job EXCEPT ![j].phase = "running", ![j].conn = k]

(* A thread of the blocking pool takes the closure up. A SQLite closure needs  *)
(* a connection: "read pool exhausted" when there is none.                     *)
Run(j) ==
    /\ job[j].phase = "spawned"
    /\ \/ /\ job[j].gate = "node"
          /\ job' = [job EXCEPT ![j].phase = "running"]
          /\ UNCHANGED <<conns, refused>>
       \/ /\ job[j].gate = "sqlite" /\ conns # {}
          /\ \E k \in conns : PopConn(j, k)
          /\ UNCHANGED refused
       \/ /\ job[j].gate = "sqlite" /\ conns = {}
          /\ job' = [job EXCEPT ![j].phase = "leaving", ![j].ok = FALSE]
          /\ refused' = TRUE
          /\ UNCHANGED conns
    /\ UNCHANGED <<queue, permits, pc, rest, lost>>

(* The handler goes on with its next read, or has answered. An error ends it,  *)
(* and ends the loop.                                                          *)
Answer(c, ok) ==
    LET more == ok /\ Len(rest[c]) > 1 IN
    /\ pc' = [pc EXCEPT ![c] = CASE more -> "ready"
                                 [] ~more /\ ~ok /\ c = Loop -> "dead"
                                 [] OTHER -> "idle"]
    /\ rest' = [rest EXCEPT ![c] = IF more THEN Tail(@) ELSE <<>>]

AnswerOwner(j, ok) ==
    IF job[j].owner = NoOne THEN UNCHANGED <<pc, rest>> ELSE Answer(job[j].owner, ok)

(* Mutant of PushConn: a failed statement returns before the push.             *)
PushConnIfOk(j, ok) ==
    conns' = IF ok THEN conns \cup ({job[j].conn} \ {NoConn}) ELSE conns

PushConn(j, ok) == conns' = conns \cup ({job[j].conn} \ {NoConn})

(* The closure's work is done, well or badly. The SQLite closure pushes its    *)
(* connection back; the node closure sends its result, which reaches the       *)
(* client while the permit is still held.                                      *)
Work(j) ==
    /\ job[j].phase = "running"
    /\ \E ok \in BOOLEAN :
         /\ PushConn(j, ok)
         /\ \/ /\ job[j].gate = "sqlite"
               /\ job' = [job EXCEPT ![j].phase = "leaving", ![j].conn = NoConn, ![j].ok = ok]
               /\ UNCHANGED <<pc, rest>>
            \/ /\ job[j].gate = "node"
               /\ job' = [job EXCEPT ![j].phase = "leaving", ![j].owner = NoOne]
               /\ AnswerOwner(j, ok)
    /\ UNCHANGED <<queue, permits, lost, refused>>

(* The closure panics: its connection is dropped, not returned.                *)
Panic(j) ==
    /\ job[j].phase = "running"
    /\ job[j].gate = "sqlite" => lost < MaxLost
    /\ job' = [job EXCEPT ![j].phase = "leaving", ![j].conn = NoConn, ![j].ok = FALSE]
    /\ lost' = IF job[j].gate = "sqlite" THEN lost + 1 ELSE lost
    /\ UNCHANGED <<queue, permits, conns, pc, rest, refused>>

(* The closure ends, and with it the permit it owns; whoever still awaits it   *)
(* gets the result, or the error of a closure that never sent one.             *)
Leave(j) ==
    /\ job[j].phase = "leaving"
    /\ permits' = [permits EXCEPT ![job[j].gate] = @ + 1]
    /\ AnswerOwner(j, job[j].ok)
    /\ job' = [job EXCEPT ![j] = NoJob]
    /\ UNCHANGED <<queue, conns, lost, refused>>

(* A queue without the waiter c, who waits in it at most once.                 *)
Without(waiters, c) ==
    LET at == {i \in DOMAIN waiters : waiters[i] = c}
        k  == CHOOSE i \in at : TRUE
    IN  IF at = {} THEN waiters
        ELSE SubSeq(waiters, 1, k - 1) \o SubSeq(waiters, k + 1, Len(waiters))

Gone(c) == pc' = [pc EXCEPT ![c] = "idle"] /\ rest' = [rest EXCEPT ![c] = <<>>]

(* Mutant of Disconnect: dropping the handler drops the permit.                *)
DisconnectFrees(c) ==
    /\ pc[c] \in {"ready", "queued", "awaiting"}
    /\ queue' = [g \in Gates |-> Without(queue[g], c)]
    /\ job' = [j \in Jobs |-> IF job[j].owner = c THEN [job[j] EXCEPT !.owner = NoOne] ELSE job[j]]
    /\ permits' = [g \in Gates |-> permits[g] + Cardinality({j \in Held(g) : job[j].owner = c})]
    /\ Gone(c)
    /\ UNCHANGED <<conns, lost, refused>>

(* The client disconnects and its handler is dropped: it leaves the queue, but *)
(* a closure it spawned runs on, and keeps its permit.                         *)
Disconnect(c) ==
    /\ pc[c] \in {"ready", "queued", "awaiting"}
    /\ queue' = [g \in Gates |-> Without(queue[g], c)]
    /\ job' = [j \in Jobs |-> IF job[j].owner = c THEN [job[j] EXCEPT !.owner = NoOne] ELSE job[j]]
    /\ Gone(c)
    /\ UNCHANGED <<permits, conns, lost, refused>>

Next ==
    \/ \E c \in Clients : Begin(c) \/ Ask(c)
    \/ \E c \in Browsers : Disconnect(c)
    \/ \E g \in Gates : Acquire(g)
    \/ \E j \in Jobs : Run(j) \/ Work(j) \/ Panic(j) \/ Leave(j)

(* The runtime polls a ready handler and a woken waiter, the blocking pool     *)
(* runs what was spawned, and a read of a database ends.                       *)
Fairness ==
    /\ \A c \in Clients : WF_vars(Ask(c))
    /\ \A g \in Gates : WF_vars(Acquire(g))
    /\ \A j \in Jobs : WF_vars(Run(j)) /\ WF_vars(Work(j)) /\ WF_vars(Leave(j))

Spec == Init /\ [][Next]_vars /\ Fairness

-----------------------------------------------------------------------------
JobType ==
    [phase : {"none", "spawned", "running", "leaving"}, gate : Gates,
     owner : Clients \cup {NoOne}, conn : Conns \cup {NoConn}, ok : BOOLEAN]

TypeOK ==
    /\ queue \in [Gates -> Seq(Clients)]
    /\ permits \in [Gates -> Nat]
    /\ conns \subseteq Conns
    /\ job \in [Jobs -> JobType]
    /\ pc \in [Clients -> {"idle", "ready", "queued", "awaiting", "dead"}]
    /\ rest \in [Clients -> Seq(Gates)]
    /\ lost \in 0..MaxLost
    /\ refused \in BOOLEAN

(* "pool occupancy is bounded even if the caller disconnects" (with_conn),     *)
(* "a client disconnect cannot leak pool occupancy" (read): the closures on    *)
(* the blocking pool, those nobody waits for included, never outnumber the     *)
(* permits of their gate.                                                      *)
OccupancyBounded == \A g \in Gates : Cardinality(Held(g)) <= PermitsOf(g)

(* The connections are opened with SQLITE_OPEN_NO_MUTEX: one is never in two   *)
(* closures at a time, nor in a closure and in the pool.                       *)
ConnsExclusive ==
    \A j \in InUse : /\ job[j].conn \notin conns
                     /\ \A i \in InUse : job[i].conn = job[j].conn => i = j

(* A permit promises a connection: "read pool exhausted" is answered only      *)
(* after a closure has panicked, never because a connection was returned late  *)
(* or not at all (with_conn).                                                  *)
RefusedOnlyAfterPanic == refused => lost > 0

(* "overload queues on the semaphore, it never rejects": every request, and    *)
(* every metadata fetch of the loop behind them, is answered or its client     *)
(* goes away, whoever else keeps asking, disconnects or panics.                *)
EveryoneServed ==
    \A c \in Clients : pc[c] \in {"ready", "queued", "awaiting"} ~> pc[c] \in {"idle", "dead"}
=============================================================================
