----------------------- MODULE DetectionServerProofs -----------------------
(***************************************************************************)
(* The detection service for every number of clients, sockets, workers,    *)
(* slots and buffers: it is type correct, its connection slots are never   *)
(* lost nor released twice, no request waits for a buffer, the context is  *)
(* destroyed after the last request, and `server_busy' is never spurious.  *)
(***************************************************************************)
EXTENDS DetectionServer, FiniteSetTheorems, SequenceTheorems, TLAPS

USE PoolAssumption

\* The workers of the pool that f puts at one of the labels of L.
AtOneOf(f, L) == {w \in Workers : f[w] \in L}
\* Where a worker has an output buffer, and where it is done with its client.
WithBuffer == {"context", "native", "decode", "unlease"}
Over == {"leave", "forget"}

\* A connection is in one place: in the backlog, once in the queue, or with one
\* worker.  One that waits to be accepted is not yet in the server's set.
Places ==
  /\ \A w \in Workers : at[w] = None <=> pc[w] = "idle"
  /\ \A v, w \in Workers : at[v] = at[w] /\ at[v] # None => v = w
  /\ \A w \in Workers : at[w] \notin backlog \cup Queued
  /\ \A i, j \in 1 .. Len(queue) : queue[i] = queue[j] => i = j
  /\ backlog \cap (Queued \cup connections) = {}

\* Only a worker that is done with its client has answered it.
Answers == answered \subseteq {at[w] : w \in AtOneOf(pc, Over)}

\* Every inference slot and every buffer is free or with exactly one worker.
Slots == /\ inferSlots + Cardinality(AtOneOf(pc, Computing)) = InferenceWorkers
         /\ leases + Cardinality(AtOneOf(pc, WithBuffer)) = InferenceWorkers

\* The set of connections is finite and each has its own slot.
Doors == IsFiniteSet(connections) /\ SlotsMatchConnections

\* The drained pool stays empty, and the context is destroyed at the very end.
Shutdown == ContextOutlivesRequests /\ (context = "destroyed" => main = "end")

Inv == TypeOK /\ Slots /\ Doors /\ Places /\ Answers /\ Shutdown

-----------------------------------------------------------------------------
(* The labels of a pool of workers, counted. *)

\* One worker is at another label.
MovesTo(w, to) == pc' = [pc EXCEPT ![w] = to]

\* Moving a worker to another label adds it to the sets that have the new label
\* and takes it out of those that have the old one.
LEMMA CountMove ==
  ASSUME TypeOK, NEW w \in Workers, NEW to, NEW L, MovesTo(w, to)
  PROVE  /\ Cardinality(AtOneOf(pc, L)) \in Nat
         /\ Cardinality(AtOneOf(pc', L)) \in Nat
         /\ Cardinality(AtOneOf(pc', L)) = Cardinality(AtOneOf(pc, L))
              + (IF to \in L THEN 1 ELSE 0) - (IF pc[w] \in L THEN 1 ELSE 0)
<1> DEFINE f == pc
           g == pc'
           F == AtOneOf(f, L)
           G == AtOneOf(g, L)
<1>1. IsFiniteSet(F) /\ IsFiniteSet(G)
  BY FS_Subset, F \subseteq Workers, G \subseteq Workers DEF AtOneOf
<1>2. Cardinality(F) \in Nat /\ Cardinality(G) \in Nat
  BY <1>1, FS_CardinalityType
<1>3. \A v \in Workers : g[v] = IF v = w THEN to ELSE f[v]
  BY DEF MovesTo, TypeOK
<1>4. CASE to \in L /\ f[w] \notin L
  <2>1. G = F \cup {w} /\ w \notin F
    BY <1>3, <1>4 DEF AtOneOf
  <2>2. Cardinality(F \cup {w}) = Cardinality(F) + 1
    BY <1>1, <2>1, FS_AddElement
  <2> QED
    BY ONLY <1>2, <1>4, <2>1, <2>2
<1>5. CASE to \notin L /\ f[w] \in L
  <2>1. G = F \ {w} /\ w \in F
    BY <1>3, <1>5 DEF AtOneOf
  <2>2. Cardinality(F \ {w}) = Cardinality(F) - 1
    BY <1>1, <2>1, FS_RemoveElement
  <2> QED
    BY ONLY <1>2, <1>5, <2>1, <2>2
<1>6. CASE to \in L <=> f[w] \in L
  <2>1. G = F
    BY <1>3, <1>6 DEF AtOneOf
  <2> QED
    BY ONLY <1>2, <1>6, <2>1
<1> QED
  BY <1>4, <1>5, <1>6

\* Labels of a pool are counted in natural numbers.
LEMMA CountNat == ASSUME NEW f, NEW L PROVE Cardinality(AtOneOf(f, L)) \in Nat
  BY FS_Subset, FS_CardinalityType, AtOneOf(f, L) \subseteq Workers DEF AtOneOf

\* A set of workers that misses one member of another is smaller.
LEMMA CountStrict ==
  ASSUME NEW f, NEW w \in Workers, NEW L, NEW K, L \subseteq K, f[w] \in K \ L
  PROVE  Cardinality(AtOneOf(f, L)) < Cardinality(AtOneOf(f, K))
<1>1. /\ AtOneOf(f, L) \subseteq AtOneOf(f, K)
      /\ w \in AtOneOf(f, K) \ AtOneOf(f, L)
  BY DEF AtOneOf
<1>2. IsFiniteSet(AtOneOf(f, K)) /\ IsFiniteSet(AtOneOf(f, L))
  BY FS_Subset, AtOneOf(f, K) \subseteq Workers, AtOneOf(f, L) \subseteq Workers DEF AtOneOf
<1>3. /\ Cardinality(AtOneOf(f, L)) <= Cardinality(AtOneOf(f, K))
      /\ Cardinality(AtOneOf(f, L)) # Cardinality(AtOneOf(f, K))
  BY <1>1, <1>2, FS_Subset
<1>4. Cardinality(AtOneOf(f, L)) \in Nat /\ Cardinality(AtOneOf(f, K)) \in Nat
  BY <1>2, FS_CardinalityType
<1> QED
  BY <1>3, <1>4

-----------------------------------------------------------------------------
(* What the steps of a worker have in common. *)

\* A worker between the start of a request and its end: it moves to a label of
\* its own and touches neither the connections nor who has been answered.
Inside(w) == Start(w) \/ Read(w) \/ Body(w) \/ Interrupted(w) \/ Compute(w)

LEMMA InsideMoves ==
  ASSUME TypeOK, NEW w \in Workers, Inside(w)
  PROVE  /\ pc[w] \notin {"idle", "leave", "forget"}
         /\ \E to \in Labels \ {"idle", "forget"} : pc' = [pc EXCEPT ![w] = to]
         /\ Stay /\ UNCHANGED context
<1> USE DEF Move, Stay, Labels, computeVars
<1>1. CASE Start(w)
  BY <1>1 DEF Start
<1>2. CASE Read(w)
  BY <1>2 DEF Read
<1>3. CASE Body(w)
  BY <1>3 DEF Body
<1>4. CASE Interrupted(w)
  BY <1>4 DEF Interrupted
<1>5. CASE Compute(w)
  <2>1. CASE Post(w)
    BY <2>1 DEF Post
  <2>2. CASE Gate(w)
    BY <2>2 DEF Gate
  <2>3. CASE Lease(w)
    BY <2>3 DEF Lease
  <2>4. CASE Context(w)
    BY <2>4 DEF Context
  <2>5. CASE Native(w)
    BY <2>5 DEF Native
  <2>6. CASE GiveBack(w)
    BY <2>6 DEF GiveBack
  <2>7. CASE FreeSlot(w)
    BY <2>7 DEF FreeSlot
  <2> QED
    BY <1>5, <2>1, <2>2, <2>3, <2>4, <2>5, <2>6, <2>7 DEF Compute
<1> QED
  BY <1>1, <1>2, <1>3, <1>4, <1>5 DEF Inside

\* The steps of Next, by whom they are of.
MainActs == \/ \E c \in Conns : Connect(c) \/ Admit(c) \/ Refuse(c) \/ TerminateInAdmit(c)
            \/ Terminate \/ MainStep \/ Ended

LEMMA NextSplits ==
  ASSUME Next
  PROVE  \/ MainActs
         \/ \E w \in Workers : Take(w) \/ Inside(w) \/ Reply(w) \/ Hangup(w) \/ Forget(w)
  BY DEF Next, MainActs, Step, Inside

\* No step outside the pool moves a worker or touches slots and buffers.
LEMMA MainKeepsWorkers ==
  ASSUME MainActs
  PROVE  UNCHANGED <<pc, at, inferSlots, leases, answered>>
<1> USE DEF mainVars, doorVars, computeVars, workerVars, vars
<1>1. CASE \E c \in Conns : Connect(c) \/ Admit(c) \/ Refuse(c) \/ TerminateInAdmit(c)
  BY <1>1 DEF Connect, Admit, Refuse, TerminateInAdmit
<1>2. CASE Terminate \/ Ended
  BY <1>2 DEF Terminate, Ended
<1>3. CASE MainStep
  BY <1>3 DEF MainStep, CloseServer, InterruptOne, InterruptEnd, Drained, DestroyContext
<1> QED
  BY <1>1, <1>2, <1>3 DEF MainActs

-----------------------------------------------------------------------------
(* Inference slots and output buffers. *)

\* A slot is taken where a request starts to be computed and freed where it ends,
\* a buffer likewise, whatever way out of the SDK call the worker takes.
LEMMA SlotsStep ==
  ASSUME TypeOK, Slots, Next
  PROVE  Slots'
<1> DEFINE In(label, L) == IF label \in L THEN 1 ELSE 0
           Moves(w, to) ==
             /\ MovesTo(w, to)
             /\ inferSlots' = inferSlots + In(pc[w], Computing) - In(to, Computing)
             /\ leases' = leases + In(pc[w], WithBuffer) - In(to, WithBuffer)
<1>1. ASSUME NEW w \in Workers, NEW to, Moves(w, to) PROVE Slots'
  <2>1. pc \in [Workers -> Labels] /\ inferSlots \in Nat /\ leases \in Nat
    BY DEF TypeOK
  <2>2. ASSUME NEW L
        PROVE  /\ Cardinality(AtOneOf(pc, L)) \in Nat
               /\ Cardinality(AtOneOf(pc', L)) \in Nat
               /\ Cardinality(AtOneOf(pc', L)) = Cardinality(AtOneOf(pc, L))
                    + In(to, L) - In(pc[w], L)
    BY <1>1, CountMove
  <2>3. /\ inferSlots' + Cardinality(AtOneOf(pc', Computing))
             = inferSlots + Cardinality(AtOneOf(pc, Computing))
        /\ leases' + Cardinality(AtOneOf(pc', WithBuffer))
             = leases + Cardinality(AtOneOf(pc, WithBuffer))
    <3>1. /\ Cardinality(AtOneOf(pc, Computing)) \in Nat
          /\ Cardinality(AtOneOf(pc', Computing)) = Cardinality(AtOneOf(pc, Computing))
               + In(to, Computing) - In(pc[w], Computing)
      BY <2>2
    <3>2. /\ Cardinality(AtOneOf(pc, WithBuffer)) \in Nat
          /\ Cardinality(AtOneOf(pc', WithBuffer)) = Cardinality(AtOneOf(pc, WithBuffer))
               + In(to, WithBuffer) - In(pc[w], WithBuffer)
      BY <2>2
    <3> QED
      BY ONLY <1>1, <2>1, <3>1, <3>2
  <2> QED
    BY <2>3 DEF Slots, AtOneOf
<1>2. CASE MainActs
  BY <1>2, MainKeepsWorkers DEF Slots, AtOneOf
<1>3. ASSUME NEW w \in Workers,
             Take(w) \/ Inside(w) \/ Reply(w) \/ Hangup(w) \/ Forget(w)
      PROVE  \E to : Moves(w, to)
  <2> USE DEF MovesTo, Move, Stay, Computing, WithBuffer, computeVars, TypeOK
  <2>1. CASE Take(w) \/ Reply(w) \/ Hangup(w) \/ Forget(w)
    BY <2>1 DEF Take, Reply, Hangup, Forget
  <2>2. CASE Start(w) \/ Read(w) \/ Body(w) \/ Interrupted(w)
    BY <2>2 DEF Start, Read, Body, Interrupted
  <2>3. CASE Post(w)
    BY <2>3 DEF Post
  <2>4. CASE Gate(w) \/ Context(w) \/ Native(w)
    BY <2>4 DEF Gate, Context, Native
  <2>5. CASE Lease(w)
    BY <2>5 DEF Lease
  <2>6. CASE GiveBack(w)
    <3>1. /\ pc[w] \in {"decode", "unlease"} /\ pc' = [pc EXCEPT ![w] = "reply-free"]
          /\ leases' = leases + 1 /\ inferSlots' = inferSlots
      BY <2>6 DEF GiveBack
    <3>2. Moves(w, "reply-free")
      BY <3>1
    <3> HIDE DEF Moves
    <3> QED
      BY <3>2
  <2>7. CASE FreeSlot(w)
    BY <2>7 DEF FreeSlot
  <2> QED
    BY <1>3, <2>1, <2>2, <2>3, <2>4, <2>5, <2>6, <2>7 DEF Inside, Compute
<1> HIDE DEF Moves
<1> QED
  BY <1>1, <1>2, <1>3, NextSplits

-----------------------------------------------------------------------------
(* Connection slots. *)

\* An admission takes a slot for a connection that is not in the set; the worker
\* that takes a connection out of the set releases its slot, and no other does.
LEMMA DoorsStep ==
  ASSUME TypeOK, Doors, Places, Next
  PROVE  Doors'
<1> USE DEF Doors, SlotsMatchConnections, TypeOK
<1>0. Cardinality(connections) \in Nat
  BY FS_CardinalityType
<1>1. ASSUME UNCHANGED <<connections, connSlots>>, main' = "serve" => main = "serve"
      PROVE  Doors'
  BY <1>1
<1>2. ASSUME NEW c \in Conns, Connect(c) \/ Refuse(c) PROVE Doors'
  BY <1>1, <1>2 DEF Connect, Refuse, mainVars
<1>3. ASSUME NEW c \in backlog, connections' = connections \cup {c}, connSlots' = connSlots - 1,
             main' = "serve" => main = "serve"
      PROVE  Doors'
  <2>1. c \notin connections
    BY DEF Places
  <2>2. /\ IsFiniteSet(connections \cup {c})
        /\ Cardinality(connections \cup {c}) = Cardinality(connections) + 1
    BY <2>1, FS_AddElement
  <2> QED
    BY <1>0, <1>3, <2>2
<1>4. ASSUME NEW c \in Conns, Admit(c) PROVE Doors'
  BY <1>3, <1>4 DEF Admit, mainVars
<1>5. ASSUME NEW c \in Conns, TerminateInAdmit(c) PROVE Doors'
  <2>1. CASE connections' = connections \cup {c} /\ connSlots' = connSlots - 1
    BY <1>3, <1>5, <2>1 DEF TerminateInAdmit
  <2>2. CASE connections' = connections /\ connSlots' = connSlots - 1
    BY <1>0, <1>5, <2>2 DEF TerminateInAdmit
  <2>3. CASE connections' = connections /\ connSlots' = connSlots
    BY <1>1, <1>5, <2>3 DEF TerminateInAdmit
  <2> QED
    BY <1>5, <2>1, <2>2, <2>3 DEF TerminateInAdmit
<1>6. CASE Terminate \/ MainStep \/ Ended
  BY <1>1, <1>6 DEF Terminate, MainStep, Ended, CloseServer, InterruptOne, InterruptEnd, Drained,
                    DestroyContext, mainVars, doorVars, vars
<1>7. ASSUME NEW w \in Workers, Take(w) \/ Inside(w) \/ Reply(w) \/ Hangup(w)
      PROVE  Doors'
  <2>1. UNCHANGED <<main, connections, connSlots>>
    BY <1>7, InsideMoves DEF Take, Reply, Hangup, Stay, mainVars, doorVars
  <2> QED
    BY <1>1, <2>1
<1>8. ASSUME NEW w \in Workers, Forget(w) PROVE Doors'
  <2>1. CASE at[w] \in connections
    <3>1. /\ IsFiniteSet(connections \ {at[w]})
          /\ Cardinality(connections \ {at[w]}) = Cardinality(connections) - 1
      BY <2>1, FS_RemoveElement
    <3>2. connections' = connections \ {at[w]} /\ connSlots' = connSlots + 1 /\ main' = main
      BY <1>8, <2>1 DEF Forget, mainVars
    <3> QED
      BY <1>0, <3>1, <3>2
  <2>2. CASE at[w] \notin connections
    BY <1>1, <1>8, <2>2 DEF Forget, mainVars
  <2> QED
    BY <2>1, <2>2
<1> QED
  BY <1>2, <1>4, <1>5, <1>6, <1>7, <1>8, NextSplits DEF MainActs

-----------------------------------------------------------------------------
(* Types. *)

\* Every step keeps the variables in their ranges; what bounds a semaphore is
\* that each unit of it is held by somebody.
LEMMA TypeStep ==
  ASSUME TypeOK, Places, Slots', Doors', Next
  PROVE  TypeOK'
<1> USE DEF TypeOK, mainVars, doorVars, computeVars, workerVars
<1>1. Cardinality(connections') \in Nat
  BY FS_CardinalityType DEF Doors
<1>2. /\ Cardinality(AtOneOf(pc, Computing)') \in Nat
      /\ Cardinality(AtOneOf(pc, WithBuffer)') \in Nat
  <2>1. AtOneOf(pc, Computing)' \subseteq Workers /\ AtOneOf(pc, WithBuffer)' \subseteq Workers
    BY DEF AtOneOf
  <2> QED
    BY <2>1, FS_Subset, FS_CardinalityType
<1>3. /\ connSlots' \in Int => connSlots' <= MaxConnections
      /\ inferSlots' \in Int => inferSlots' <= InferenceWorkers
      /\ leases' \in Int => leases' <= InferenceWorkers
  BY <1>1, <1>2 DEF Slots, Doors, SlotsMatchConnections
<1>4. CASE MainActs
  <2>1. UNCHANGED <<pc, at, inferSlots, leases, answered>>
    BY <1>4, MainKeepsWorkers
  <2>2. CASE \E c \in Conns : Connect(c) \/ Refuse(c)
    BY <2>1, <2>2 DEF Connect, Refuse
  <2>3. ASSUME NEW c \in Conns, Admit(c) PROVE TypeOK'
    BY <1>3, <2>1, <2>3, AppendProperties DEF Admit
  <2>4. ASSUME NEW c \in Conns, TerminateInAdmit(c) PROVE TypeOK'
    BY <1>3, <2>1, <2>4, AppendProperties DEF TerminateInAdmit
  <2>5. CASE Terminate \/ Ended
    BY <2>1, <2>5 DEF Terminate, Ended, vars
  <2>6. CASE MainStep
    BY <2>1, <2>6 DEF MainStep, CloseServer, InterruptOne, InterruptEnd, Drained, DestroyContext
  <2> QED
    BY <1>4, <2>2, <2>3, <2>4, <2>5, <2>6 DEF MainActs
<1>5. ASSUME NEW w \in Workers, Take(w) PROVE TypeOK'
  <2>1. Head(queue) \in Conns /\ Tail(queue) \in Seq(Conns)
    BY <1>5, HeadTailProperties DEF Take
  <2> QED
    BY <1>5, <2>1 DEF Take, Move, Labels
<1>6. ASSUME NEW w \in Workers, Inside(w) PROVE TypeOK'
  <2>1. pc' \in [Workers -> Labels]
    BY <1>6, InsideMoves
  <2>2. inferSlots' \in Nat /\ leases' \in Nat
    <3>1. \/ inferSlots' \in {inferSlots, inferSlots + 1}
          \/ inferSlots > 0 /\ inferSlots' = inferSlots - 1
      BY <1>6 DEF Inside, Start, Read, Body, Interrupted, Compute, Post, Gate, Lease, Context,
                  Native, GiveBack, FreeSlot
    <3>2. \/ leases' \in {leases, leases + 1}
          \/ leases > 0 /\ leases' = leases - 1
      BY <1>6 DEF Inside, Start, Read, Body, Interrupted, Compute, Post, Gate, Lease, Context,
                  Native, GiveBack, FreeSlot
    <3> QED
      BY <3>1, <3>2
  <2>3. UNCHANGED <<mainVars, doorVars, at, dead, answered, context>>
    BY <1>6, InsideMoves DEF Stay
  <2> QED
    BY <1>3, <2>1, <2>2, <2>3
<1>7. ASSUME NEW w \in Workers, Reply(w) \/ Hangup(w) PROVE TypeOK'
  <2>1. at[w] \in Conns
    BY <1>7 DEF Reply, Hangup, Move, Places
  <2> QED
    BY <1>7, <2>1 DEF Reply, Hangup, Move, Labels
<1>8. ASSUME NEW w \in Workers, Forget(w) PROVE TypeOK'
  <2>1. connSlots' \in Int
    BY <1>8 DEF Forget
  <2> QED
    BY <1>3, <1>8, <2>1 DEF Forget, Move, Labels
<1> QED
  BY <1>4, <1>5, <1>6, <1>7, <1>8, NextSplits

-----------------------------------------------------------------------------
(* Where a connection is. *)

\* The queue after an admission and after a worker took its head.
LEMMA QueueAppend ==
  ASSUME TypeOK, NEW c \in Conns, queue' = Append(queue, c)
  PROVE  /\ Len(queue') = Len(queue) + 1 /\ queue'[Len(queue) + 1] = c
         /\ \A i \in 1 .. Len(queue) : queue'[i] = queue[i]
         /\ Queued' = Queued \cup {c}
<1>1. /\ Len(queue) \in Nat /\ DOMAIN queue = 1 .. Len(queue)
      /\ Append(queue, c) \in Seq(Conns)
      /\ Len(Append(queue, c)) = Len(queue) + 1
      /\ Append(queue, c)[Len(queue) + 1] = c
      /\ \A i \in 1 .. Len(queue) : Append(queue, c)[i] = queue[i]
  BY LenProperties, AppendProperties DEF TypeOK
<1>2. DOMAIN queue' = 1 .. Len(queue) + 1
  BY <1>1, LenProperties
<1>3. ASSUME NEW x PROVE x \in Queued' <=> x \in Queued \cup {c}
  BY <1>1, <1>2 DEF Queued
<1> QED
  BY <1>1, <1>3

LEMMA QueueTail ==
  ASSUME TypeOK, queue # <<>>, queue' = Tail(queue)
  PROVE  /\ Len(queue') = Len(queue) - 1
         /\ \A i \in 1 .. Len(queue') : queue'[i] = queue[i + 1]
         /\ 1 \in 1 .. Len(queue) /\ queue[1] = Head(queue)
         /\ Queued' \subseteq Queued /\ Head(queue) \in Queued
<1>1. /\ Len(queue) \in Nat /\ DOMAIN queue = 1 .. Len(queue) /\ Len(queue) > 0
      /\ Tail(queue) \in Seq(Conns) /\ Len(Tail(queue)) = Len(queue) - 1
      /\ \A i \in 1 .. Len(Tail(queue)) : Tail(queue)[i] = queue[i + 1]
      /\ Head(queue) = queue[1]
  BY LenProperties, HeadTailProperties, EmptySeq DEF TypeOK
<1>2. DOMAIN queue' = 1 .. Len(queue) - 1
  BY <1>1, LenProperties
<1> QED
  BY <1>1, <1>2 DEF Queued

\* A connection moves from the backlog to the queue and from there to one worker;
\* a new one is nowhere.
LEMMA PlacesStep ==
  ASSUME TypeOK, Places, Next
  PROVE  Places'
<1>1. ASSUME UNCHANGED <<pc, at, queue>>, backlog' \subseteq backlog,
             connections' \subseteq connections \cup (backlog \ backlog')
      PROVE  Places'
  BY <1>1 DEF Places, Queued
<1>2. ASSUME NEW c \in Conns, Connect(c) PROVE Places'
  <2>1. /\ UNCHANGED <<pc, at, queue, connections>> /\ backlog' = backlog \cup {c}
        /\ c \notin Queued \cup connections /\ \A w \in Workers : at[w] # c
    BY <1>2 DEF Connect, InUse, workerVars
  <2> QED
    BY <2>1 DEF Places, Queued
<1>3. ASSUME NEW c \in backlog, UNCHANGED <<pc, at>>, queue' = Append(queue, c),
             backlog' = backlog \ {c}, connections' \subseteq connections \cup {c}
      PROVE  Places'
  <2>1. /\ Len(queue') = Len(queue) + 1 /\ queue'[Len(queue) + 1] = c
        /\ \A i \in 1 .. Len(queue) : queue'[i] = queue[i]
        /\ Queued' = Queued \cup {c} /\ Len(queue) \in Nat
    BY <1>3, QueueAppend, LenProperties DEF TypeOK
  <2>2. \A i \in 1 .. Len(queue) : queue[i] # c
    BY LenProperties DEF Places, Queued, TypeOK
  <2>3. \A i, j \in 1 .. Len(queue') : queue'[i] = queue'[j] => i = j
    <3>1. \A i, j \in 1 .. Len(queue) : queue[i] = queue[j] => i = j
      BY DEF Places
    <3> QED
      BY ONLY <2>1, <2>2, <3>1
  <2>4. \A w \in Workers : at[w] \notin backlog' \cup Queued'
    BY <1>3, <2>1 DEF Places
  <2> QED
    BY <1>3, <2>1, <2>3, <2>4 DEF Places
<1>4. ASSUME NEW c \in Conns, Admit(c) \/ Refuse(c) \/ TerminateInAdmit(c)
      PROVE  Places'
  <2>1. CASE queue' = queue
    BY <1>1, <1>4, <2>1 DEF Admit, Refuse, TerminateInAdmit, workerVars
  <2>2. CASE queue' = Append(queue, c) /\ ~Refuse(c)
    BY <1>3, <1>4, <2>2 DEF Admit, TerminateInAdmit, workerVars
  <2> QED
    BY <1>4, <2>1, <2>2 DEF Admit, Refuse, TerminateInAdmit
<1>5. CASE Terminate \/ MainStep \/ Ended
  BY <1>1, <1>5 DEF Terminate, MainStep, Ended, CloseServer, InterruptOne, InterruptEnd, Drained,
                    DestroyContext, workerVars, doorVars, vars
<1>6. ASSUME NEW w \in Workers, Take(w) PROVE Places'
  <2>1. /\ queue # <<>> /\ queue' = Tail(queue) /\ UNCHANGED <<backlog, connections>>
        /\ pc' = [pc EXCEPT ![w] = "start"] /\ at' = [at EXCEPT ![w] = Head(queue)]
    BY <1>6 DEF Take, Move
  <2>2. /\ Len(queue') = Len(queue) - 1
        /\ \A i \in 1 .. Len(queue') : queue'[i] = queue[i + 1]
        /\ 1 \in 1 .. Len(queue) /\ queue[1] = Head(queue)
        /\ Queued' \subseteq Queued /\ Head(queue) \in Queued
    BY <2>1, QueueTail
  <2>3. Head(queue) # None
    <3>1. None \notin Conns
      BY DEF None, Conns
    <3> QED
      BY <2>1, <3>1, HeadTailProperties DEF TypeOK
  <2>4. /\ \A i, j \in 1 .. Len(queue) : queue[i] = queue[j] => i = j
        /\ Len(queue) \in Nat
    BY LenProperties DEF Places, TypeOK
  <2>5. \A i, j \in 1 .. Len(queue') : queue'[i] = queue'[j] => i = j
    BY ONLY <2>2, <2>4
  <2>6. Head(queue) \notin Queued'
    <3>1. \A i \in 1 .. Len(queue') : queue'[i] # Head(queue)
      BY ONLY <2>2, <2>4
    <3>2. DOMAIN queue' = 1 .. Len(queue')
      BY <2>1, HeadTailProperties, LenProperties DEF TypeOK
    <3> QED
      BY <3>1, <3>2 DEF Queued
  <2>7. \A v \in Workers : v # w => at[v] # Head(queue)
    BY <2>2 DEF Places
  <2>8. Head(queue) \notin backlog
    BY <2>2 DEF Places
  <2> QED
    BY <2>1, <2>2, <2>3, <2>5, <2>6, <2>7, <2>8 DEF Places, TypeOK
<1>7. ASSUME NEW w \in Workers, pc[w] # "idle", NEW to, to # "idle", pc' = [pc EXCEPT ![w] = to],
             UNCHANGED <<doorVars, at>>
      PROVE  Places'
  BY <1>7 DEF Places, Queued, TypeOK, doorVars
<1>8. ASSUME NEW w \in Workers, Inside(w) PROVE Places'
  BY <1>7, <1>8, InsideMoves DEF Stay
<1>9. ASSUME NEW w \in Workers, Reply(w) \/ Hangup(w) PROVE Places'
  BY <1>7, <1>9 DEF Reply, Hangup, Move
<1>10. ASSUME NEW w \in Workers, Forget(w) PROVE Places'
  <2>1. /\ pc' = [pc EXCEPT ![w] = "idle"] /\ at' = [at EXCEPT ![w] = None]
        /\ connections' \subseteq connections /\ UNCHANGED <<backlog, queue>>
    BY <1>10 DEF Forget, Move
  <2>2. None \notin Conns
    BY DEF None, Conns
  <2>3. Queued \subseteq Conns /\ backlog \subseteq Conns
    BY LenProperties DEF Queued, TypeOK
  <2> QED
    BY <2>1, <2>2, <2>3 DEF Places, TypeOK, Queued
<1> QED
  BY <1>2, <1>4, <1>5, <1>6, <1>8, <1>9, <1>10, NextSplits DEF MainActs

-----------------------------------------------------------------------------
(* Who has been answered, and the end of the service. *)

\* Only Reply adds an answered connection, and its worker is then done with it.
LEMMA AnswersStep ==
  ASSUME TypeOK, Places, Answers, Next
  PROVE  Answers'
<1> USE DEF Answers, AtOneOf, Over
<1>1. CASE MainActs
  BY <1>1, MainKeepsWorkers
<1>2. ASSUME NEW w \in Workers, pc[w] \notin Over, NEW to, pc' = [pc EXCEPT ![w] = to],
             answered' = answered, at' = at
      PROVE  Answers'
  BY <1>2 DEF TypeOK
<1>3. ASSUME NEW w \in Workers, Take(w) PROVE Answers'
  BY <1>3 DEF Take, Move, TypeOK
<1>4. ASSUME NEW w \in Workers, Inside(w) PROVE Answers'
  BY <1>2, <1>4, InsideMoves DEF Stay
<1>5. ASSUME NEW w \in Workers, Reply(w) \/ Hangup(w) PROVE Answers'
  <2>1. /\ answered' \subseteq answered \cup {at[w]} /\ at' = at
        /\ \E to \in Over : pc' = [pc EXCEPT ![w] = to]
        /\ answered' = answered \/ pc[w] \notin Over
    BY <1>5 DEF Reply, Hangup, Move
  <2> QED
    BY <2>1 DEF TypeOK
<1>6. ASSUME NEW w \in Workers, Forget(w) PROVE Answers'
  BY <1>6 DEF Forget, Move, TypeOK
<1> QED
  BY <1>1, <1>3, <1>4, <1>5, <1>6, NextSplits

\* Nothing is admitted after the main thread has left its loop, and it goes on to
\* destroy the context only when the pool is idle.
LEMMA ShutdownStep ==
  ASSUME TypeOK, Shutdown, Next
  PROVE  Shutdown'
<1> USE DEF Shutdown, ContextOutlivesRequests
<1>1. ASSUME UNCHANGED <<queue, pc, context>>, main' \in {main, "close", "interrupt", "drain"},
             context = "destroyed" => main' = main
      PROVE  Shutdown'
  BY <1>1
<1>2. ASSUME NEW c \in Conns, Connect(c) \/ Refuse(c) PROVE Shutdown'
  BY <1>1, <1>2 DEF Connect, Refuse, mainVars, workerVars, computeVars
<1>3. ASSUME NEW c \in Conns, Admit(c) \/ TerminateInAdmit(c) PROVE Shutdown'
  BY <1>3 DEF Admit, TerminateInAdmit, mainVars, workerVars, computeVars
<1>4. CASE Terminate \/ CloseServer \/ InterruptEnd
  BY <1>1, <1>4 DEF Terminate, CloseServer, InterruptEnd, doorVars, workerVars, computeVars
<1>5. ASSUME NEW c \in Conns, InterruptOne(c) PROVE Shutdown'
  BY <1>1, <1>5 DEF InterruptOne, doorVars, workerVars, computeVars
<1>6. CASE Drained
  BY <1>6 DEF Drained, doorVars, workerVars, computeVars
<1>7. CASE DestroyContext
  BY <1>7 DEF DestroyContext, doorVars, workerVars
<1>8. CASE Ended
  BY <1>8 DEF Ended, vars
<1>9. ASSUME NEW w \in Workers, Take(w) \/ Reply(w) \/ Hangup(w) \/ Forget(w)
      PROVE  Shutdown'
  <2>1. pc[w] # "idle" \/ queue # <<>>
    BY <1>9 DEF Take, Reply, Hangup, Forget, Move
  <2>2. main' = main /\ context' = context
    BY <1>9 DEF Take, Reply, Hangup, Forget, mainVars, computeVars
  <2> QED
    BY <2>1, <2>2
<1>10. ASSUME NEW w \in Workers, Inside(w) PROVE Shutdown'
  <2>1. pc[w] # "idle" /\ main' = main /\ context' = context
    BY <1>10, InsideMoves DEF Stay, mainVars
  <2> QED
    BY <2>1
<1> QED
  BY <1>2, <1>3, <1>4, <1>5, <1>6, <1>7, <1>8, <1>9, <1>10, NextSplits DEF MainActs, MainStep

-----------------------------------------------------------------------------
(* The theorems. *)

\* The service starts idle, with all slots and buffers free (main).
LEMMA InitInv == Init => Inv
<1> SUFFICES ASSUME Init PROVE Inv
  OBVIOUS
<1>1. /\ AtOneOf(pc, Computing) = {} /\ AtOneOf(pc, WithBuffer) = {}
      /\ Cardinality({}) = 0 /\ IsFiniteSet({})
  BY FS_EmptySet DEF Init, AtOneOf, Computing, WithBuffer
<1>2. TypeOK
  <2>1. /\ MaxConnections \in 0 .. MaxConnections /\ InferenceWorkers \in 0 .. InferenceWorkers
        /\ <<>> \in Seq(Conns)
    BY EmptySeq
  <2> QED
    BY <2>1 DEF Init, TypeOK, Labels
<1>3. Slots /\ Doors
  <2>1. /\ connections = {} /\ connSlots = MaxConnections
        /\ inferSlots = InferenceWorkers /\ leases = InferenceWorkers
    BY DEF Init
  <2> QED
    BY <1>1, <2>1 DEF Slots, Doors, SlotsMatchConnections
<1>4. Places
  BY EmptySeq DEF Init, Places, Queued, None
<1>5. Answers /\ Shutdown
  BY DEF Init, Answers, Shutdown, ContextOutlivesRequests
<1> QED
  BY <1>2, <1>3, <1>4, <1>5 DEF Inv

\* Every step of the main thread, a client or a worker preserves the invariant.
LEMMA NextInv == Inv /\ [Next]_vars => Inv'
<1> SUFFICES ASSUME Inv, [Next]_vars PROVE Inv'
  OBVIOUS
<1>1. CASE Next
  BY <1>1, SlotsStep, DoorsStep, TypeStep, PlacesStep, AnswersStep, ShutdownStep DEF Inv
<1>2. CASE UNCHANGED vars
  BY <1>2 DEF vars, Inv, TypeOK, Slots, Doors, Places, Answers, Shutdown, AtOneOf, Queued,
              SlotsMatchConnections, ContextOutlivesRequests
<1> QED
  BY <1>1, <1>2

\* The invariant holds throughout, for every pool and every number of clients.
THEOREM Invariant == Spec => []Inv
<1> QED
  BY InitInv, NextInv, PTL DEF Spec

\* The type invariant: no semaphore exceeds its initial value and no buffer list
\* its length.
THEOREM TypeCorrect == Spec => []TypeOK
<1>1. Inv => TypeOK
  BY DEF Inv
<1> QED
  BY <1>1, Invariant, PTL

\* While the service serves, every connection slot is free or belongs to one
\* connection of the set, and none is ever released twice, also when SIGTERM cuts
\* an admission short (process_request and _handle_connection).
THEOREM SlotsMatch == Spec => []SlotsMatchConnections
<1>1. Inv => SlotsMatchConnections
  BY DEF Inv, Doors
<1> QED
  BY <1>1, Invariant, PTL

\* A worker at borrow_outputs always finds a buffer: it holds a slot and no
\* buffer, so fewer buffers than slots are in use.
THEOREM BufferReady == Spec => []BufferForEverySlot
<1>1. Inv => BufferForEverySlot
  <2> SUFFICES ASSUME Inv, NEW w \in Workers, pc[w] = "lease" PROVE leases > 0
    BY DEF BufferForEverySlot
  <2>1. Cardinality(AtOneOf(pc, WithBuffer)) < Cardinality(AtOneOf(pc, Computing))
    <3>1. WithBuffer \subseteq Computing /\ pc[w] \in Computing \ WithBuffer
      BY DEF WithBuffer, Computing
    <3> QED
      BY <3>1, CountStrict
  <2>2. Cardinality(AtOneOf(pc, WithBuffer)) \in Nat /\ Cardinality(AtOneOf(pc, Computing)) \in Nat
    BY CountNat
  <2>3. /\ leases \in Nat /\ leases + Cardinality(AtOneOf(pc, WithBuffer)) = InferenceWorkers
        /\ inferSlots \in Nat
        /\ inferSlots + Cardinality(AtOneOf(pc, Computing)) = InferenceWorkers
    BY DEF Inv, Slots, TypeOK
  <2> QED
    BY ONLY <2>1, <2>2, <2>3
<1> QED
  BY <1>1, Invariant, PTL

\* The context is destroyed after the last request (_pool.shutdown before
\* backend.close).
THEOREM ContextLast == Spec => []ContextOutlivesRequests
<1>1. Inv => ContextOutlivesRequests
  BY DEF Inv, Shutdown
<1> QED
  BY <1>1, Invariant, PTL

\* A POST that is turned away sees all slots taken, each by a worker whose client
\* still waits for its answer (do_POST frees the slot before it answers).
THEOREM BusyHonest == Spec => BusyIsHonest
<1> DEFINE Honest == \A w \in Workers : pc[w] = "post" /\ pc'[w] = "busy" =>
              InferenceWorkers <= Cardinality({v \in Workers : pc[v] \in Computing /\ at[v] \notin answered})
<1>1. Inv /\ [Next]_vars => Honest
  <2> SUFFICES ASSUME Inv, [Next]_vars,
                      NEW w \in Workers, pc[w] = "post", pc'[w] = "busy"
               PROVE  InferenceWorkers <=
                        Cardinality({v \in Workers : pc[v] \in Computing /\ at[v] \notin answered})
    OBVIOUS
  <2>1. inferSlots = 0
    <3>1. PICK v \in Workers : Take(v) \/ Inside(v) \/ Reply(v) \/ Hangup(v) \/ Forget(v)
      BY NextSplits, MainKeepsWorkers DEF vars
    <3>2. v = w
      BY <3>1, InsideMoves DEF Take, Reply, Hangup, Forget, Move, Inv, TypeOK
    <3>3. Post(w)
      BY <3>1, <3>2 DEF Take, Inside, Start, Read, Body, Interrupted, Compute, Gate, Lease, Context,
                        Native, GiveBack, FreeSlot, Reply, Hangup, Forget, Move
    <3> QED
      BY <3>3 DEF Post, Move, Inv, TypeOK
  <2>2. {v \in Workers : pc[v] \in Computing /\ at[v] \notin answered} = AtOneOf(pc, Computing)
    <3>1. ASSUME NEW v \in Workers, pc[v] \in Computing PROVE at[v] \notin answered
      <4>1. SUFFICES ASSUME at[v] \in answered PROVE FALSE
        OBVIOUS
      <4>2. PICK u \in Workers : pc[u] \in Over /\ at[v] = at[u]
        BY <4>1 DEF Inv, Answers, AtOneOf
      <4>3. at[v] # None
        BY <3>1 DEF Inv, Places, Computing
      <4> QED
        BY <3>1, <4>2, <4>3 DEF Inv, Places, Computing, Over
    <3> QED
      BY <3>1 DEF AtOneOf
  <2>3. Cardinality(AtOneOf(pc, Computing)) \in Nat
    BY CountNat
  <2>4. InferenceWorkers = Cardinality(AtOneOf(pc, Computing))
    BY ONLY <2>1, <2>3, Inv DEF Inv, Slots
  <2> QED
    BY ONLY <2>2, <2>3, <2>4
<1> QED
  BY <1>1, Invariant, PTL DEF Spec, BusyIsHonest

=============================================================================
