------------------------- MODULE BlockingReadsProofs -------------------------
(* The two gates for every pool size, any number of clients and closures: the  *)
(* closures in flight never outnumber the permits, no connection is in two     *)
(* hands, and a permit is as good as a connection until a closure panics.      *)
EXTENDS BlockingReads, FiniteSetTheorems, TLAPS

(* A permit is free or owned by a closure: nothing else happens to it, even    *)
(* when the client that asked for it has gone.                                 *)
PermitsKept == \A g \in Gates : permits[g] + Cardinality(Held(g)) = PermitsOf(g)

(* A handler about to ask for a permit has a gate to ask at.                   *)
HandlersGoOn == \A c \in Clients : pc[c] = "ready" => Len(rest[c]) > 0

(* Exactly the running SQLite closures hold a connection.                      *)
RunningHoldsConn ==
    \A j \in Jobs : job[j].conn # NoConn <=> job[j].phase = "running" /\ job[j].gate = "sqlite"

(* A connection is pooled, in use, or lost in a panic.                         *)
ConnsKept == Cardinality(conns) + Cardinality(InUse) + lost = READ_POOL_SIZE

(* The inductive invariant.                                                    *)
IInv ==
    /\ TypeOK
    /\ HandlersGoOn
    /\ PermitsKept
    /\ RunningHoldsConn
    /\ ConnsExclusive
    /\ ConnsKept
    /\ RefusedOnlyAfterPanic

-----------------------------------------------------------------------------
(* The sets the invariant counts are finite.                                   *)
LEMMA CountedAreFinite ==
    ASSUME TypeOK
    PROVE  /\ IsFiniteSet(conns) /\ Cardinality(conns) \in Nat
           /\ IsFiniteSet(InUse) /\ Cardinality(InUse) \in Nat
           /\ \A g \in Gates : IsFiniteSet(Held(g)) /\ Cardinality(Held(g)) \in Nat
<1>1. IsFiniteSet(conns)
  BY PoolAssumption, FS_Subset DEF TypeOK
<1>2. IsFiniteSet(InUse)
  <2>1. InUse \in SUBSET Jobs
    BY DEF InUse
  <2> QED BY <2>1, PoolAssumption, FS_Subset
<1>3. ASSUME NEW g \in Gates PROVE IsFiniteSet(Held(g))
  <2>1. Held(g) \in SUBSET Jobs
    BY DEF Held
  <2> QED BY <2>1, PoolAssumption, FS_Subset
<1> QED BY <1>1, <1>2, <1>3, FS_CardinalityType

(* A queue stays a queue of clients when one leaves it.                        *)
LEMMA WithoutType ==
    ASSUME NEW waiters \in Seq(Clients), NEW c
    PROVE  Without(waiters, c) \in Seq(Clients)
<1> DEFINE at == {i \in DOMAIN waiters : waiters[i] = c}
           k  == CHOOSE i \in at : TRUE
<1>1. CASE at = {}
  BY <1>1 DEF Without
<1>2. CASE at # {}
  <2>1. k \in at
    BY <1>2
  <2>2. k \in 1..Len(waiters)
    BY <2>1
  <2>3. Without(waiters, c) = SubSeq(waiters, 1, k - 1) \o SubSeq(waiters, k + 1, Len(waiters))
    BY <1>2 DEF Without
  <2> HIDE DEF k
  <2>4. SubSeq(waiters, 1, k - 1) \in Seq(Clients)
    BY <2>2
  <2>5. SubSeq(waiters, k + 1, Len(waiters)) \in Seq(Clients)
    BY <2>2
  <2> QED BY <2>3, <2>4, <2>5
<1> QED BY <1>1, <1>2

(* Answering a client keeps the handlers well typed and going.                 *)
LEMMA AnswerKeeps ==
    ASSUME TypeOK, HandlersGoOn, NEW c \in Clients \cup {NoOne}, NEW ok \in BOOLEAN,
           IF c = NoOne THEN UNCHANGED <<pc, rest>> ELSE Answer(c, ok)
    PROVE  /\ pc' \in [Clients -> {"idle", "ready", "queued", "awaiting", "dead"}]
           /\ rest' \in [Clients -> Seq(Gates)]
           /\ HandlersGoOn'
<1>1. CASE c = NoOne
  BY <1>1 DEF TypeOK, HandlersGoOn
<1>2. CASE c # NoOne
  <2>1. c \in Clients /\ Answer(c, ok)
    BY <1>2
  <2>2. rest[c] \in Seq(Gates)
    BY <2>1 DEF TypeOK
  <2> DEFINE more == ok /\ Len(rest[c]) > 1
  <2>3. more => Tail(rest[c]) \in Seq(Gates) /\ Len(Tail(rest[c])) > 0
    BY <2>2
  <2>4. /\ rest' = [rest EXCEPT ![c] = IF more THEN Tail(rest[c]) ELSE <<>>]
        /\ more => pc' = [pc EXCEPT ![c] = "ready"]
        /\ ~more => pc' = [pc EXCEPT ![c] = "idle"] \/ pc' = [pc EXCEPT ![c] = "dead"]
    <3>1. CASE more
      BY <2>1, <3>1 DEF Answer
    <3>2. CASE ~more
      BY <2>1, <3>2 DEF Answer
    <3> QED BY <3>1, <3>2
  <2> HIDE DEF more
  <2>5. CASE more
    BY <2>1, <2>3, <2>4, <2>5 DEF TypeOK, HandlersGoOn
  <2>6. CASE ~more
    <3>1. <<>> \in Seq(Gates)
      OBVIOUS
    <3>2. rest' = [rest EXCEPT ![c] = <<>>] /\ rest' \in [Clients -> Seq(Gates)]
      BY <2>1, <2>4, <2>6, <3>1 DEF TypeOK
    <3>3. \/ pc' = [pc EXCEPT ![c] = "idle"]
          \/ pc' = [pc EXCEPT ![c] = "dead"]
      BY <2>4, <2>6
    <3> QED BY <2>1, <3>2, <3>3 DEF TypeOK, HandlersGoOn
  <2> QED BY <2>5, <2>6
<1> QED BY <1>1, <1>2

-----------------------------------------------------------------------------
(* The parts of the invariant that are about permits and connections.          *)
PoolInv ==
    PermitsKept /\ RunningHoldsConn /\ ConnsExclusive /\ ConnsKept /\ RefusedOnlyAfterPanic

(* Steps of clients alone leave the pool alone.                                *)
LEMMA ClientsOnly ==
    ASSUME IInv, UNCHANGED <<permits, conns, lost, refused>>,
           job' \in [Jobs -> JobType],
           \A j \in Jobs : /\ job'[j].phase = job[j].phase /\ job'[j].gate = job[j].gate
                           /\ job'[j].conn = job[j].conn
    PROVE  PoolInv'
<1>1. \A g \in Gates : Held(g)' = Held(g)
  BY DEF Held
<1>2. InUse' = InUse
  BY DEF InUse
<1>3. PermitsKept'
  BY <1>1 DEF IInv, PermitsKept
<1>4. RunningHoldsConn'
  BY DEF IInv, RunningHoldsConn
<1>5. ConnsExclusive'
  BY <1>2 DEF IInv, ConnsExclusive, InUse
<1>6. ConnsKept' /\ RefusedOnlyAfterPanic'
  BY <1>2 DEF IInv, ConnsKept, RefusedOnlyAfterPanic
<1> QED BY <1>3, <1>4, <1>5, <1>6 DEF PoolInv

(* Every handler passes at least one gate.                                     *)
LEMMA HandlersTyped == ASSUME NEW h \in Handlers PROVE h \in Seq(Gates) /\ Len(h) > 0
<1>1. "node" \in Gates /\ "sqlite" \in Gates
  BY DEF Gates
<1>2. \A x \in Gates : <<x>> \in Seq(Gates) /\ Len(<<x>>) = 1
  OBVIOUS
<1>3. \A x, y \in Gates : <<x, y>> \in Seq(Gates) /\ Len(<<x, y>>) = 2
  OBVIOUS
<1>4. (\E x \in Gates : h = <<x>>) \/ (\E x, y \in Gates : h = <<x, y>>)
  BY <1>1, Zenon DEF Handlers
<1>5. CASE \E x \in Gates : h = <<x>>
  <2>1. PICK x \in Gates : h = <<x>>
    BY <1>5
  <2>2. <<x>> \in Seq(Gates) /\ Len(<<x>>) = 1
    BY <1>2
  <2>3. Len(h) = 1
    BY <2>1, <2>2
  <2> QED BY <2>1, <2>2, <2>3
<1>6. CASE \E x, y \in Gates : h = <<x, y>>
  <2>1. PICK x, y \in Gates : h = <<x, y>>
    BY <1>6
  <2>2. <<x, y>> \in Seq(Gates) /\ Len(<<x, y>>) = 2
    BY <1>3
  <2>3. Len(h) = 2
    BY <2>1, <2>2
  <2> QED BY <2>1, <2>2, <2>3
<1> QED BY <1>4, <1>5, <1>6

(* A request begins.                                                           *)
LEMMA BeginKeeps == ASSUME IInv, NEW c \in Clients, Begin(c) PROVE IInv'
<1> USE DEF Begin
<1>1. PICK h \in Handlers : rest' = [rest EXCEPT ![c] = h]
  BY DEF Handlers
<1>2. h \in Seq(Gates) /\ Len(h) > 0
  BY HandlersTyped
<1>3. TypeOK'
  BY <1>1, <1>2 DEF IInv, TypeOK
<1>4. HandlersGoOn'
  BY <1>1, <1>2 DEF IInv, TypeOK, HandlersGoOn
<1>5. PoolInv'
  BY ClientsOnly DEF IInv, TypeOK
<1> QED BY <1>3, <1>4, <1>5 DEF IInv, PoolInv

(* A handler queues for its next permit.                                       *)
LEMMA AskKeeps == ASSUME IInv, NEW c \in Clients, Ask(c) PROVE IInv'
<1> USE DEF Ask
<1>1. Head(rest[c]) \in Gates
  BY DEF IInv, TypeOK, HandlersGoOn
<1>2. TypeOK'
  BY <1>1 DEF IInv, TypeOK
<1>3. HandlersGoOn'
  BY DEF IInv, TypeOK, HandlersGoOn
<1>4. PoolInv'
  BY ClientsOnly DEF IInv, TypeOK
<1> QED BY <1>2, <1>3, <1>4 DEF IInv, PoolInv

(* A dropped handler takes neither permit nor connection with it.              *)
LEMMA DisconnectKeeps == ASSUME IInv, NEW c \in Browsers, Disconnect(c) PROVE IInv'
<1> USE DEF Disconnect, Gone
<1>1. c \in Clients
  BY DEF Clients
<1>2. job' \in [Jobs -> JobType]
  <2>1. \A r \in JobType : [r EXCEPT !.owner = NoOne] \in JobType
    BY DEF JobType
  <2> QED BY <2>1 DEF IInv, TypeOK
<1>3. queue' \in [Gates -> Seq(Clients)]
  BY WithoutType DEF IInv, TypeOK
<1>4. <<>> \in Seq(Gates)
  OBVIOUS
<1>5. TypeOK'
  BY <1>1, <1>2, <1>3, <1>4 DEF IInv, TypeOK
<1>6. HandlersGoOn'
  BY <1>1 DEF IInv, TypeOK, HandlersGoOn
<1>7. \A j \in Jobs : /\ job'[j].phase = job[j].phase /\ job'[j].gate = job[j].gate
                      /\ job'[j].conn = job[j].conn
  BY DEF IInv, TypeOK, JobType
<1>8. PoolInv'
  BY <1>2, <1>7, ClientsOnly
<1> QED BY <1>5, <1>6, <1>8 DEF IInv, PoolInv

-----------------------------------------------------------------------------
(* A permit moves from the gate to a new closure.                              *)
LEMMA AcquireKeeps == ASSUME IInv, NEW gate \in Gates, Acquire(gate) PROVE IInv'
<1> DEFINE c == Head(queue[gate])
<1>1. /\ permits[gate] > 0 /\ queue[gate] # <<>>
      /\ Spawn(gate, c)
      /\ queue' = [queue EXCEPT ![gate] = Tail(@)]
  BY DEF Acquire
<1>2. c \in Clients /\ Tail(queue[gate]) \in Seq(Clients)
  BY <1>1 DEF IInv, TypeOK
<1> HIDE DEF c
<1>3. PICK j \in Jobs :
        /\ job[j].phase = "none"
        /\ job' = [job EXCEPT ![j] = [NoJob EXCEPT !.phase = "spawned", !.gate = gate,
                                                   !.owner = c]]
  BY <1>1 DEF Spawn
<1>4. /\ pc' = [pc EXCEPT ![c] = "awaiting"]
      /\ permits' = [permits EXCEPT ![gate] = @ - 1]
      /\ UNCHANGED <<conns, rest, lost, refused>>
  BY <1>1 DEF Spawn
<1>5. job[j].conn = NoConn
  BY <1>3 DEF IInv, RunningHoldsConn
<1>6. /\ job' \in [Jobs -> JobType]
      /\ job'[j].phase = "spawned" /\ job'[j].gate = gate /\ job'[j].conn = NoConn
      /\ \A i \in Jobs \ {j} : job'[i] = job[i]
  BY <1>2, <1>3 DEF IInv, TypeOK, JobType, NoJob
<1>7. TypeOK'
  BY <1>1, <1>2, <1>4, <1>6 DEF IInv, TypeOK
<1>8. HandlersGoOn'
  BY <1>2, <1>4 DEF IInv, TypeOK, HandlersGoOn
<1>9. PermitsKept'
  <2>1. Held(gate)' = Held(gate) \cup {j} /\ j \notin Held(gate)
    BY <1>3, <1>6 DEF Held
  <2>2. \A g \in Gates \ {gate} : Held(g)' = Held(g)
    BY <1>3, <1>6 DEF Held
  <2>3. IsFiniteSet(Held(gate)) /\ Cardinality(Held(gate)) \in Nat
    BY CountedAreFinite DEF IInv
  <2>4. Cardinality(Held(gate)') = Cardinality(Held(gate)) + 1
    BY <2>1, <2>3, FS_AddElement
  <2>5. permits[gate] \in Nat /\ permits'[gate] = permits[gate] - 1
    BY <1>4 DEF IInv, TypeOK
  <2>6. permits'[gate] + Cardinality(Held(gate)') = PermitsOf(gate)
    BY <2>3, <2>4, <2>5 DEF IInv, PermitsKept
  <2>7. ASSUME NEW g \in Gates \ {gate} PROVE permits'[g] + Cardinality(Held(g)') = PermitsOf(g)
    BY <2>2, <1>4 DEF IInv, TypeOK, PermitsKept
  <2> QED BY <2>6, <2>7 DEF PermitsKept, PermitsOf
<1>10. InUse' = InUse
  BY <1>5, <1>6 DEF InUse
<1>11. RunningHoldsConn'
  BY <1>6 DEF IInv, RunningHoldsConn
<1>12. ConnsExclusive'
  BY <1>4, <1>5, <1>6, <1>10 DEF IInv, ConnsExclusive, InUse
<1>13. ConnsKept' /\ RefusedOnlyAfterPanic'
  BY <1>4, <1>10 DEF IInv, ConnsKept, RefusedOnlyAfterPanic
<1> QED BY <1>7, <1>8, <1>9, <1>11, <1>12, <1>13 DEF IInv

(* A closure ends: its permit goes back to the gate.                           *)
LEMMA LeaveKeeps == ASSUME IInv, NEW j \in Jobs, Leave(j) PROVE IInv'
<1>0. PICK gate \in Gates : gate = job[j].gate
  BY DEF IInv, TypeOK, JobType
<1>1. /\ job[j].phase = "leaving"
      /\ permits' = [permits EXCEPT ![gate] = @ + 1]
      /\ AnswerOwner(j, job[j].ok)
      /\ job' = [job EXCEPT ![j] = NoJob]
      /\ UNCHANGED <<queue, conns, lost, refused>>
  BY <1>0 DEF Leave
<1>2. /\ job[j].ok \in BOOLEAN
      /\ job[j].owner \in Clients \cup {NoOne}
  BY DEF IInv, TypeOK, JobType
<1>3. job[j].conn = NoConn
  BY <1>1 DEF IInv, RunningHoldsConn
<1>4. /\ job' \in [Jobs -> JobType]
      /\ job'[j].phase = "none" /\ job'[j].conn = NoConn
      /\ \A i \in Jobs \ {j} : job'[i] = job[i]
  BY <1>1 DEF IInv, TypeOK, JobType, NoJob, Gates
<1>5. /\ pc' \in [Clients -> {"idle", "ready", "queued", "awaiting", "dead"}]
      /\ rest' \in [Clients -> Seq(Gates)]
      /\ HandlersGoOn'
  BY <1>1, <1>2, AnswerKeeps DEF IInv, AnswerOwner
<1>6. TypeOK'
  BY <1>1, <1>2, <1>4, <1>5 DEF IInv, TypeOK
<1>7. PermitsKept'
  <2>1. Held(gate)' = Held(gate) \ {j} /\ j \in Held(gate)
    BY <1>0, <1>1, <1>4 DEF Held
  <2>2. \A g \in Gates \ {gate} : Held(g)' = Held(g)
    BY <1>0, <1>1, <1>4 DEF Held
  <2>3. IsFiniteSet(Held(gate)) /\ Cardinality(Held(gate)) \in Nat
    BY CountedAreFinite DEF IInv
  <2>4. Cardinality(Held(gate)') = Cardinality(Held(gate)) - 1
    BY <2>1, <2>3, FS_RemoveElement
  <2>5. permits[gate] \in Nat /\ permits'[gate] = permits[gate] + 1
    BY <1>1 DEF IInv, TypeOK
  <2>6. permits'[gate] + Cardinality(Held(gate)') = PermitsOf(gate)
    BY <2>3, <2>4, <2>5 DEF IInv, PermitsKept
  <2>7. ASSUME NEW g \in Gates \ {gate} PROVE permits'[g] + Cardinality(Held(g)') = PermitsOf(g)
    BY <2>2, <1>1 DEF IInv, TypeOK, PermitsKept
  <2> QED BY <2>6, <2>7 DEF PermitsKept, PermitsOf
<1>8. InUse' = InUse
  BY <1>3, <1>4 DEF InUse
<1>9. RunningHoldsConn'
  BY <1>4 DEF IInv, RunningHoldsConn
<1>10. ConnsExclusive'
  BY <1>1, <1>3, <1>4, <1>8 DEF IInv, ConnsExclusive, InUse
<1>11. ConnsKept' /\ RefusedOnlyAfterPanic'
  BY <1>1, <1>8 DEF IInv, ConnsKept, RefusedOnlyAfterPanic
<1> QED BY <1>5, <1>6, <1>7, <1>9, <1>10, <1>11 DEF IInv

-----------------------------------------------------------------------------
(* A closure that stays in flight at its gate leaves the permits alone.        *)
LEMMA HeldSame ==
    ASSUME IInv, NEW j \in Jobs, job[j].phase # "none", job'[j].phase # "none",
           job'[j].gate = job[j].gate, \A i \in Jobs \ {j} : job'[i] = job[i],
           UNCHANGED permits
    PROVE  PermitsKept'
<1>1. \A g \in Gates : Held(g)' = Held(g)
  BY DEF Held
<1> QED BY <1>1 DEF IInv, PermitsKept

(* A closure starts on the blocking pool. It finds a connection unless one was *)
(* lost: the closures with a connection and this one have a permit each.       *)
LEMMA RunKeeps == ASSUME IInv, NEW j \in Jobs, Run(j) PROVE IInv'
<1>1. job[j].phase = "spawned" /\ UNCHANGED <<queue, permits, pc, rest, lost>>
  BY DEF Run
<1>2. job[j].conn = NoConn /\ j \notin InUse
  BY <1>1 DEF IInv, RunningHoldsConn, InUse
<1>3. HandlersGoOn'
  BY <1>1 DEF IInv, HandlersGoOn
<1>4. CASE /\ job[j].gate = "node" /\ job' = [job EXCEPT ![j].phase = "running"]
           /\ UNCHANGED <<conns, refused>>
  <2>1. /\ job' \in [Jobs -> JobType]
        /\ job'[j].phase = "running" /\ job'[j].gate = "node" /\ job'[j].conn = NoConn
        /\ \A i \in Jobs \ {j} : job'[i] = job[i]
    <3> DEFINE new == [job[j] EXCEPT !.phase = "running"]
    <3>1. job \in [Jobs -> JobType] /\ job[j] \in JobType
      BY DEF IInv, TypeOK
    <3>2. new \in JobType /\ new.phase = "running" /\ new.gate = job[j].gate /\ new.conn = job[j].conn
      BY <3>1 DEF JobType
    <3>3. job' = [job EXCEPT ![j] = new]
      BY <1>4
    <3> HIDE DEF new
    <3> QED BY <1>2, <1>4, <3>1, <3>2, <3>3
  <2>2. TypeOK'
    BY <1>1, <1>4, <2>1 DEF IInv, TypeOK
  <2>3. PermitsKept'
    BY <1>1, <1>4, <2>1, HeldSame
  <2>4. InUse' = InUse
    BY <1>2, <2>1 DEF InUse
  <2>5. RunningHoldsConn'
    BY <2>1 DEF IInv, RunningHoldsConn
  <2>6. ConnsExclusive'
    BY <1>2, <1>4, <2>1, <2>4 DEF IInv, ConnsExclusive, InUse
  <2>7. ConnsKept' /\ RefusedOnlyAfterPanic'
    BY <1>1, <1>4, <2>4 DEF IInv, ConnsKept, RefusedOnlyAfterPanic
  <2> QED BY <1>3, <2>2, <2>3, <2>5, <2>6, <2>7 DEF IInv
<1>5. CASE /\ job[j].gate = "sqlite" /\ conns # {}
           /\ \E k \in conns : PopConn(j, k)
           /\ UNCHANGED refused
  <2>1. PICK k \in conns : PopConn(j, k)
    BY <1>5
  <2>2. k \in Conns /\ k # NoConn
    BY PoolAssumption DEF IInv, TypeOK
  <2>3. /\ job' \in [Jobs -> JobType] /\ conns' = conns \ {k}
        /\ job'[j].phase = "running" /\ job'[j].gate = "sqlite" /\ job'[j].conn = k
        /\ \A i \in Jobs \ {j} : job'[i] = job[i]
    <3>1. job \in [Jobs -> JobType]
      BY DEF IInv, TypeOK
    <3>2. conns' = conns \ {k} /\ job' = [job EXCEPT ![j].phase = "running", ![j].conn = k]
      BY <2>1 DEF PopConn
    <3> DEFINE new == [job[j] EXCEPT !.phase = "running", !.conn = k]
    <3>3. job' = [job EXCEPT ![j] = new]
      BY <3>1, <3>2
    <3>4. /\ new \in JobType /\ new.phase = "running" /\ new.gate = job[j].gate
          /\ new.conn = k
      BY <3>1, <2>2 DEF JobType
    <3> HIDE DEF new
    <3> QED BY <1>5, <3>1, <3>2, <3>3, <3>4
  <2>4. TypeOK'
    BY <1>1, <1>5, <2>3 DEF IInv, TypeOK
  <2>5. PermitsKept'
    BY <1>1, <1>5, <2>3, HeldSame
  <2>6. InUse' = InUse \cup {j}
    BY <2>2, <2>3 DEF InUse
  <2>7. RunningHoldsConn'
    BY <2>2, <2>3 DEF IInv, RunningHoldsConn
  <2>8. ConnsExclusive'
    <3>1. \A i \in InUse : job'[i] = job[i] /\ i # j
      BY <1>2, <2>3 DEF InUse
    <3> QED BY <2>3, <2>6, <3>1 DEF IInv, ConnsExclusive
  <2>9. ConnsKept'
    <3>1. /\ IsFiniteSet(conns) /\ Cardinality(conns) \in Nat
          /\ IsFiniteSet(InUse) /\ Cardinality(InUse) \in Nat
      BY CountedAreFinite DEF IInv
    <3>2. Cardinality(InUse') = Cardinality(InUse) + 1
      BY <1>2, <2>6, <3>1, FS_AddElement
    <3>3. Cardinality(conns') = Cardinality(conns) - 1
      BY <2>3, <3>1, FS_RemoveElement
    <3>4. lost \in Nat /\ lost' = lost
      BY <1>1, PoolAssumption DEF IInv, TypeOK
    <3> QED BY <3>1, <3>2, <3>3, <3>4 DEF IInv, ConnsKept
  <2>10. RefusedOnlyAfterPanic'
    BY <1>1, <1>5 DEF IInv, RefusedOnlyAfterPanic
  <2> QED BY <1>3, <2>4, <2>5, <2>7, <2>8, <2>9, <2>10 DEF IInv
<1>6. CASE /\ job[j].gate = "sqlite" /\ conns = {}
           /\ job' = [job EXCEPT ![j].phase = "leaving", ![j].ok = FALSE]
           /\ refused' = TRUE
           /\ UNCHANGED conns
  <2>1. /\ job' \in [Jobs -> JobType]
        /\ job'[j].phase = "leaving" /\ job'[j].gate = "sqlite" /\ job'[j].conn = NoConn
        /\ \A i \in Jobs \ {j} : job'[i] = job[i]
    <3> DEFINE new == [job[j] EXCEPT !.phase = "leaving", !.ok = FALSE]
    <3>1. job \in [Jobs -> JobType] /\ job[j] \in JobType
      BY DEF IInv, TypeOK
    <3>2. new \in JobType /\ new.phase = "leaving" /\ new.gate = job[j].gate /\ new.conn = job[j].conn
      BY <3>1 DEF JobType
    <3>3. job' = [job EXCEPT ![j] = new]
      BY <1>6, <3>1 DEF JobType
    <3> HIDE DEF new
    <3> QED BY <1>2, <1>6, <3>1, <3>2, <3>3
  <2>2. TypeOK'
    BY <1>1, <1>6, <2>1 DEF IInv, TypeOK
  <2>3. PermitsKept'
    BY <1>1, <1>6, <2>1, HeldSame
  <2>4. InUse' = InUse
    BY <1>2, <2>1 DEF InUse
  <2>5. RunningHoldsConn'
    BY <2>1 DEF IInv, RunningHoldsConn
  <2>6. ConnsExclusive'
    BY <1>2, <1>6, <2>1, <2>4 DEF IInv, ConnsExclusive, InUse
  <2>7. ConnsKept'
    BY <1>1, <1>6, <2>4 DEF IInv, ConnsKept
  <2>8. lost > 0
    <3>1. "sqlite" \in Gates
      BY DEF Gates
    <3>2. /\ IsFiniteSet(InUse) /\ Cardinality(InUse) \in Nat
          /\ IsFiniteSet(Held("sqlite")) /\ Cardinality(Held("sqlite")) \in Nat
      BY <3>1, CountedAreFinite DEF IInv
    <3>3. InUse \cup {j} \in SUBSET Held("sqlite")
      BY <1>1, <1>6 DEF InUse, Held, IInv, RunningHoldsConn
    <3>4. Cardinality(InUse) + 1 <= Cardinality(Held("sqlite"))
      BY <1>2, <3>2, <3>3, FS_AddElement, FS_Subset
    <3>5. permits["sqlite"] \in Nat
      BY <3>1 DEF IInv, TypeOK
    <3>6. permits["sqlite"] + Cardinality(Held("sqlite")) = READ_POOL_SIZE
      BY <3>1 DEF IInv, PermitsKept, PermitsOf
    <3>7. Cardinality(conns) = 0
      BY <1>6, FS_EmptySet
    <3>8. lost \in Nat /\ READ_POOL_SIZE \in Nat
      BY PoolAssumption DEF IInv, TypeOK
    <3>9. Cardinality(conns) + Cardinality(InUse) + lost = READ_POOL_SIZE
      BY DEF IInv, ConnsKept
    <3> QED BY <3>2, <3>4, <3>5, <3>6, <3>7, <3>8, <3>9
  <2>9. RefusedOnlyAfterPanic'
    BY <1>1, <2>8 DEF RefusedOnlyAfterPanic
  <2> QED BY <1>3, <2>2, <2>3, <2>5, <2>6, <2>7, <2>9 DEF IInv
<1> QED BY <1>4, <1>5, <1>6 DEF Run

(* The work is done, well or badly: the connection is back in the pool before  *)
(* the permit is back at the gate.                                             *)
LEMMA WorkKeeps == ASSUME IInv, NEW j \in Jobs, Work(j) PROVE IInv'
<1>1. /\ job[j].phase = "running" /\ UNCHANGED <<queue, permits, lost, refused>>
      /\ job \in [Jobs -> JobType] /\ job[j] \in JobType
  BY DEF Work, IInv, TypeOK
<1>2. PICK ok \in BOOLEAN :
        /\ PushConn(j, ok)
        /\ \/ /\ job[j].gate = "sqlite"
              /\ job' = [job EXCEPT ![j].phase = "leaving", ![j].conn = NoConn, ![j].ok = ok]
              /\ UNCHANGED <<pc, rest>>
           \/ /\ job[j].gate = "node"
              /\ job' = [job EXCEPT ![j].phase = "leaving", ![j].owner = NoOne]
              /\ AnswerOwner(j, ok)
  BY DEF Work
<1>3. conns' = conns \cup ({job[j].conn} \ {NoConn})
  BY <1>2 DEF PushConn
<1>4. CASE job[j].gate = "sqlite"
  <2> DEFINE new == [job[j] EXCEPT !.phase = "leaving", !.conn = NoConn, !.ok = ok]
             k == job[j].conn
  <2>1. job' = [job EXCEPT ![j] = new] /\ UNCHANGED <<pc, rest>>
    BY <1>1, <1>2, <1>4
  <2>2. /\ new \in JobType /\ new.phase = "leaving" /\ new.gate = "sqlite"
        /\ new.conn = NoConn
    BY <1>1, <1>4 DEF JobType
  <2> HIDE DEF new
  <2>3. /\ job' \in [Jobs -> JobType]
        /\ job'[j].phase = "leaving" /\ job'[j].gate = "sqlite" /\ job'[j].conn = NoConn
        /\ \A i \in Jobs \ {j} : job'[i] = job[i]
    BY <1>1, <2>1, <2>2
  <2>4. k # NoConn /\ k \in Conns /\ j \in InUse
    BY <1>1, <1>4 DEF IInv, RunningHoldsConn, JobType, InUse
  <2>5. conns' = conns \cup {k} /\ k \notin conns
    BY <1>3, <2>4 DEF IInv, ConnsExclusive
  <2>6. TypeOK'
    BY <1>1, <2>1, <2>3, <2>4, <2>5 DEF IInv, TypeOK
  <2>7. HandlersGoOn'
    BY <2>1 DEF IInv, HandlersGoOn
  <2>8. PermitsKept'
    BY <1>1, <1>4, <2>3, HeldSame
  <2>9. InUse' = InUse \ {j}
    BY <2>3 DEF InUse
  <2>10. RunningHoldsConn'
    BY <2>3 DEF IInv, RunningHoldsConn
  <2>11. ConnsExclusive'
    <3>1. \A i \in InUse \ {j} : i \in Jobs /\ job'[i] = job[i] /\ job[i].conn # k
      BY <2>3, <2>4 DEF InUse, IInv, ConnsExclusive
    <3> QED BY <2>5, <2>9, <3>1 DEF IInv, ConnsExclusive
  <2>12. ConnsKept'
    <3> HIDE DEF k
    <3>1. /\ IsFiniteSet(conns) /\ Cardinality(conns) \in Nat
          /\ IsFiniteSet(InUse) /\ Cardinality(InUse) \in Nat
      BY CountedAreFinite DEF IInv
    <3>2. Cardinality(InUse') = Cardinality(InUse) - 1
      BY <2>4, <2>9, <3>1, FS_RemoveElement
    <3>3. Cardinality(conns') = Cardinality(conns) + 1
      BY <2>5, <3>1, FS_AddElement
    <3>4. lost \in Nat /\ lost' = lost
      BY <1>1, PoolAssumption DEF IInv, TypeOK
    <3> QED BY <3>1, <3>2, <3>3, <3>4 DEF IInv, ConnsKept
  <2>13. RefusedOnlyAfterPanic'
    BY <1>1 DEF IInv, RefusedOnlyAfterPanic
  <2> QED BY <2>6, <2>7, <2>8, <2>10, <2>11, <2>12, <2>13 DEF IInv
<1>5. CASE job[j].gate = "node"
  <2> DEFINE new == [job[j] EXCEPT !.phase = "leaving", !.owner = NoOne]
  <2>1. job' = [job EXCEPT ![j] = new] /\ AnswerOwner(j, ok)
    BY <1>1, <1>2, <1>5
  <2>2. job[j].conn = NoConn /\ conns' = conns
    BY <1>3, <1>5 DEF IInv, RunningHoldsConn
  <2>3. /\ new \in JobType /\ new.phase = "leaving" /\ new.gate = "node"
        /\ new.conn = NoConn
    BY <1>1, <1>5, <2>2 DEF JobType
  <2> HIDE DEF new
  <2>4. /\ job' \in [Jobs -> JobType]
        /\ job'[j].phase = "leaving" /\ job'[j].gate = "node" /\ job'[j].conn = NoConn
        /\ \A i \in Jobs \ {j} : job'[i] = job[i]
    BY <1>1, <2>1, <2>3
  <2>5. job[j].owner \in Clients \cup {NoOne}
    BY <1>1 DEF JobType
  <2>6. /\ pc' \in [Clients -> {"idle", "ready", "queued", "awaiting", "dead"}]
        /\ rest' \in [Clients -> Seq(Gates)]
        /\ HandlersGoOn'
    BY <2>1, <2>5, AnswerKeeps DEF IInv, AnswerOwner
  <2>7. TypeOK'
    BY <1>1, <2>2, <2>4, <2>6 DEF IInv, TypeOK
  <2>8. PermitsKept'
    BY <1>1, <1>5, <2>4, HeldSame
  <2>9. InUse' = InUse
    BY <2>2, <2>4 DEF InUse
  <2>10. RunningHoldsConn'
    BY <2>4 DEF IInv, RunningHoldsConn
  <2>11. ConnsExclusive'
    BY <2>2, <2>4, <2>9 DEF IInv, ConnsExclusive, InUse
  <2>12. ConnsKept' /\ RefusedOnlyAfterPanic'
    BY <1>1, <2>2, <2>9 DEF IInv, ConnsKept, RefusedOnlyAfterPanic
  <2> QED BY <2>6, <2>7, <2>8, <2>10, <2>11, <2>12 DEF IInv
<1> QED BY <1>1, <1>4, <1>5 DEF JobType, Gates

(* A panic drops the closure's connection: one more is lost, and counted.      *)
LEMMA PanicKeeps == ASSUME IInv, NEW j \in Jobs, Panic(j) PROVE IInv'
<1> DEFINE new == [job[j] EXCEPT !.phase = "leaving", !.conn = NoConn, !.ok = FALSE]
<1>1. /\ job[j].phase = "running" /\ job \in [Jobs -> JobType] /\ job[j] \in JobType
      /\ job[j].gate = "sqlite" => lost < MaxLost
      /\ job' = [job EXCEPT ![j] = new]
      /\ lost' = IF job[j].gate = "sqlite" THEN lost + 1 ELSE lost
      /\ UNCHANGED <<queue, permits, conns, pc, rest, refused>>
  BY DEF Panic, IInv, TypeOK
<1>2. /\ new \in JobType /\ new.phase = "leaving" /\ new.gate = job[j].gate
      /\ new.conn = NoConn
  BY <1>1 DEF JobType
<1> HIDE DEF new
<1>3. /\ job' \in [Jobs -> JobType]
      /\ job'[j].phase = "leaving" /\ job'[j].gate = job[j].gate /\ job'[j].conn = NoConn
      /\ \A i \in Jobs \ {j} : job'[i] = job[i]
  BY <1>1, <1>2
<1>4. lost \in Nat /\ MaxLost \in Nat
  BY PoolAssumption DEF IInv, TypeOK
<1>5. TypeOK'
  BY <1>1, <1>3, <1>4 DEF IInv, TypeOK
<1>6. HandlersGoOn'
  BY <1>1 DEF IInv, HandlersGoOn
<1>7. PermitsKept'
  BY <1>1, <1>3, HeldSame
<1>8. InUse' = InUse \ {j}
  BY <1>3 DEF InUse
<1>9. RunningHoldsConn'
  BY <1>3 DEF IInv, RunningHoldsConn
<1>10. ConnsExclusive'
  BY <1>1, <1>3, <1>8 DEF IInv, ConnsExclusive, InUse
<1>11. ConnsKept'
  <2>1. /\ Cardinality(conns) \in Nat
        /\ IsFiniteSet(InUse) /\ Cardinality(InUse) \in Nat
    BY CountedAreFinite DEF IInv
  <2>2. CASE job[j].gate = "sqlite"
    <3>1. j \in InUse
      BY <1>1, <2>2 DEF IInv, RunningHoldsConn, InUse
    <3>2. Cardinality(InUse') = Cardinality(InUse) - 1
      BY <1>8, <2>1, <3>1, FS_RemoveElement
    <3>3. lost' = lost + 1 /\ conns' = conns
      BY <1>1, <2>2
    <3> QED BY <1>4, <2>1, <3>2, <3>3 DEF IInv, ConnsKept
  <2>3. CASE job[j].gate # "sqlite"
    <3>1. j \notin InUse
      BY <2>3 DEF IInv, RunningHoldsConn, InUse
    <3> QED BY <1>1, <1>8, <2>3, <3>1 DEF IInv, ConnsKept
  <2> QED BY <2>2, <2>3
<1>12. RefusedOnlyAfterPanic'
  BY <1>1, <1>4 DEF IInv, RefusedOnlyAfterPanic
<1> QED BY <1>5, <1>6, <1>7, <1>9, <1>10, <1>11, <1>12 DEF IInv

-----------------------------------------------------------------------------
(* ReadPool::open and NodeReader::new: all permits free, all connections in.   *)
LEMMA InitIInv == Init => IInv
<1> SUFFICES ASSUME Init PROVE IInv
  OBVIOUS
<1> USE DEF Init
<1>1. <<>> \in Seq(Clients) /\ <<>> \in Seq(Gates)
  OBVIOUS
<1>2. \A g \in Gates : PermitsOf(g) \in Nat
  BY PoolAssumption DEF PermitsOf
<1>3. NoJob \in JobType /\ NoJob.phase = "none" /\ NoJob.conn = NoConn
  BY DEF NoJob, JobType, Gates
<1>4. TypeOK
  <2>1. queue \in [Gates -> Seq(Clients)] /\ rest \in [Clients -> Seq(Gates)]
    BY <1>1
  <2>2. permits \in [Gates -> Nat]
    BY <1>2
  <2>3. job \in [Jobs -> JobType]
    BY <1>3
  <2>4. conns \subseteq Conns /\ lost \in 0..MaxLost
    BY PoolAssumption
  <2>5. pc \in [Clients -> {"idle", "ready", "queued", "awaiting", "dead"}]
    OBVIOUS
  <2>6. refused \in BOOLEAN
    BY Zenon
  <2> QED BY <2>1, <2>2, <2>3, <2>4, <2>5, <2>6 DEF TypeOK
<1>5. \A g \in Gates : Held(g) = {}
  BY <1>3 DEF Held
<1>6. InUse = {}
  BY <1>3 DEF InUse
<1>7. HandlersGoOn /\ RunningHoldsConn /\ ConnsExclusive /\ RefusedOnlyAfterPanic
  BY <1>3, <1>6 DEF HandlersGoOn, RunningHoldsConn, ConnsExclusive, RefusedOnlyAfterPanic
<1>8. PermitsKept
  <2>1. ASSUME NEW g \in Gates PROVE permits[g] + Cardinality(Held(g)) = PermitsOf(g)
    <3>1. Cardinality(Held(g)) = 0
      BY <1>5, FS_EmptySet
    <3>2. permits[g] = PermitsOf(g) /\ PermitsOf(g) \in Nat
      BY <1>2
    <3> QED BY <3>1, <3>2
  <2> QED BY <2>1 DEF PermitsKept
<1>9. ConnsKept
  BY <1>6, PoolAssumption, FS_EmptySet DEF ConnsKept
<1> QED BY <1>4, <1>7, <1>8, <1>9 DEF IInv

(* Every step, or none, keeps the invariant.                                   *)
LEMMA NextIInv == IInv /\ [Next]_vars => IInv'
<1> SUFFICES ASSUME IInv, [Next]_vars PROVE IInv'
  OBVIOUS
<1>1. CASE \E c \in Clients : Begin(c) \/ Ask(c)
  BY <1>1, BeginKeeps, AskKeeps
<1>2. CASE \E c \in Browsers : Disconnect(c)
  BY <1>2, DisconnectKeeps
<1>3. CASE \E g \in Gates : Acquire(g)
  BY <1>3, AcquireKeeps
<1>4. CASE \E j \in Jobs : Run(j) \/ Work(j) \/ Panic(j) \/ Leave(j)
  BY <1>4, RunKeeps, WorkKeeps, PanicKeeps, LeaveKeeps
<1>5. CASE UNCHANGED vars
  <2>1. UNCHANGED <<queue, permits, conns, job, pc, rest, lost, refused>>
    BY <1>5 DEF vars
  <2>2. TypeOK' /\ HandlersGoOn'
    BY <2>1 DEF IInv, TypeOK, HandlersGoOn
  <2>3. PoolInv'
    BY <2>1, ClientsOnly DEF IInv, TypeOK
  <2> QED BY <2>2, <2>3 DEF IInv, PoolInv
<1> QED BY <1>1, <1>2, <1>3, <1>4, <1>5 DEF Next

(* The invariant holds throughout.                                             *)
LEMMA AlwaysIInv == Spec => []IInv
BY InitIInv, NextIInv, PTL DEF Spec

(* Type correctness of the gates.                                              *)
THEOREM TypeCorrect == Spec => []TypeOK
<1>1. IInv => TypeOK
  BY DEF IInv
<1> QED BY <1>1, AlwaysIInv, PTL

(* For any number of clients that disconnect at any moment, the closures on    *)
(* the blocking pool never outnumber the permits (ReadPool::with_conn,         *)
(* NodeReader::read).                                                          *)
THEOREM OccupancyAlwaysBounded == Spec => []OccupancyBounded
<1>1. ASSUME IInv PROVE OccupancyBounded
  <2>1. ASSUME NEW g \in Gates PROVE Cardinality(Held(g)) <= PermitsOf(g)
    <3>1. permits[g] \in Nat /\ Cardinality(Held(g)) \in Nat
      BY <1>1, CountedAreFinite DEF IInv, TypeOK
    <3>2. permits[g] + Cardinality(Held(g)) = PermitsOf(g)
      BY <1>1 DEF IInv, PermitsKept
    <3> QED BY <3>1, <3>2
  <2> QED BY <2>1 DEF OccupancyBounded
<1> QED BY <1>1, AlwaysIInv, PTL

(* No SQLite connection, opened without a mutex, is ever in two hands.         *)
THEOREM ConnsAlwaysExclusive == Spec => []ConnsExclusive
<1>1. IInv => ConnsExclusive
  BY DEF IInv
<1> QED BY <1>1, AlwaysIInv, PTL

(* Whoever holds a permit finds a connection, until a closure has panicked     *)
(* (with_conn's "read pool exhausted").                                        *)
THEOREM NeverRefusedBeforePanic == Spec => []RefusedOnlyAfterPanic
<1>1. IInv => RefusedOnlyAfterPanic
  BY DEF IInv
<1> QED BY <1>1, AlwaysIInv, PTL
=============================================================================
