-------------------------- MODULE DetectionServer --------------------------
(***************************************************************************)
(* The local detection service of the Connectivity App (service.py, with   *)
(* the runtime it guards in native.py and its start and stop in app.py).   *)
(*                                                                         *)
(* One main thread accepts connections and hands them to a pool of HTTP    *)
(* workers.  A POST needs an inference slot, a lease on an output buffer   *)
(* and the lock of the one RKNN context, in this order.  SIGTERM raises    *)
(* SystemExit in the main thread wherever it is; it then stops admission,  *)
(* interrupts the sockets, drains the pool and destroys the context.       *)
(*                                                                         *)
(* Abstracted: the content of requests and answers, the counter            *)
(* `completed' and the timings.  The sections under `state_lock' are       *)
(* single steps; nothing in them waits.                                    *)
(***************************************************************************)
EXTENDS Integers, Sequences, FiniteSets

CONSTANTS Clients,          \* clients, each of which waits for its answer
          Sockets,          \* connections one client may have open or closing
          Workers,          \* the pool's threads: HTTP_WORKERS of them
          InferenceWorkers, \* inference slots, and output buffers
          MaxConnections    \* MAX_HTTP_CONNECTIONS

ASSUME PoolAssumption ==
  /\ IsFiniteSet(Workers)
  /\ InferenceWorkers \in Nat \ {0} /\ MaxConnections \in Nat \ {0}

Conns == Clients \X Sockets
None == <<>> \* no connection; not a member of Conns

VARIABLES
  main,        \* where the main thread is
  closing,     \* the event `closing'
  backlog,     \* connections the kernel holds for accept
  queue,       \* the executor's queue
  connections, \* DetectionServer._connections
  connSlots,   \* value of _connection_slots
  interrupt,   \* server_close's snapshot, as far as still to be shut down
  pc,          \* where each worker is
  at,          \* the connection each worker handles
  inferSlots,  \* value of inference_slots
  leases,      \* buffers in _output_slots
  context,     \* "open" or "destroyed"
  dead,        \* connections in use whose socket is shut down or closed
  answered     \* connections in use whose client has its answer

vars == <<main, closing, backlog, queue, connections, connSlots, interrupt,
          pc, at, inferSlots, leases, context, dead, answered>>
mainVars == <<main, closing, interrupt>>
doorVars == <<backlog, queue, connections, connSlots>>
computeVars == <<inferSlots, leases, context>>
workerVars == <<pc, at>>

Init == /\ main = "serve" /\ closing = FALSE /\ interrupt = {}
        /\ backlog = {} /\ queue = <<>>
        /\ connections = {} /\ connSlots = MaxConnections
        /\ pc = [w \in Workers |-> "idle"] /\ at = [w \in Workers |-> None]
        /\ inferSlots = InferenceWorkers /\ leases = InferenceWorkers
        /\ context = "open" /\ dead = {} /\ answered = {}

Queued == {queue[i] : i \in DOMAIN queue}
InUse == backlog \cup Queued \cup connections \cup {at[w] : w \in Workers}

-----------------------------------------------------------------------------
(* Clients. *)

\* A client opens its next connection when its last one is over for it: answered,
\* refused or closed.
Connect(c) ==
  /\ ~closing /\ c \notin InUse
  /\ \A d \in InUse : d # None /\ d[1] = c[1] => d \in answered \cup dead
  /\ backlog' = backlog \cup {c}
  /\ UNCHANGED <<mainVars, queue, connections, connSlots, workerVars, computeVars, dead, answered>>

-----------------------------------------------------------------------------
(* The main thread. *)

\* process_request under state_lock: take a slot and queue the connection.
Admit(c) ==
  /\ main = "serve" /\ c \in backlog /\ connSlots > 0
  /\ backlog' = backlog \ {c}
  /\ connections' = connections \cup {c} /\ connSlots' = connSlots - 1
  /\ queue' = Append(queue, c)
  /\ UNCHANGED <<mainVars, workerVars, computeVars, dead, answered>>

\* No slot: the main thread itself answers 503 and closes the socket.
Refuse(c) ==
  /\ main = "serve" /\ c \in backlog /\ connSlots = 0
  /\ backlog' = backlog \ {c}
  /\ UNCHANGED <<mainVars, queue, connections, connSlots, workerVars, computeVars, dead, answered>>

\* SIGTERM while the main thread selects: SystemExit leaves serve_forever.
Terminate == /\ main = "serve" /\ main' = "close"
             /\ UNCHANGED <<closing, interrupt, doorVars, workerVars, computeVars, dead, answered>>

\* SIGTERM inside process_request.  The exit may come before the try, with the
\* slot taken and the connection perhaps in the set (it is never queued), or in
\* submit, before or after the queue took it (the except clause undoes the
\* admission).  The server base class closes the socket in each case.
TerminateInAdmit(c) ==
  /\ main = "serve" /\ c \in backlog /\ connSlots > 0 /\ main' = "close"
  /\ backlog' = backlog \ {c}
  /\ \/ /\ connections' \in {connections, connections \cup {c}} /\ connSlots' = connSlots - 1
        /\ UNCHANGED queue
     \/ /\ queue' \in {queue, Append(queue, c)}
        /\ UNCHANGED <<connections, connSlots>>
  /\ dead' = dead \cup ({c} \cap (Queued' \cup connections'))
  /\ UNCHANGED <<closing, interrupt, workerVars, computeVars, answered>>

\* Mutant: server_close does not look at the connections it has.
CloseListenerOnly ==
  /\ main = "close" /\ main' = "interrupt"
  /\ closing' = TRUE /\ interrupt' = {}
  /\ backlog' = {}
  /\ UNCHANGED <<queue, connections, connSlots, workerVars, computeVars, dead, answered>>

\* server_close under state_lock; closing the listener resets the backlog.
CloseServer ==
  /\ main = "close" /\ main' = "interrupt"
  /\ closing' = TRUE /\ interrupt' = connections
  /\ backlog' = {}
  /\ UNCHANGED <<queue, connections, connSlots, workerVars, computeVars, dead, answered>>

\* Shut down one socket of the snapshot, outside the lock; one that a worker has
\* closed meanwhile raises OSError, which is ignored.
InterruptOne(c) ==
  /\ main = "interrupt" /\ c \in interrupt
  /\ interrupt' = interrupt \ {c}
  /\ dead' = dead \cup ({c} \cap InUse)
  /\ UNCHANGED <<main, closing, doorVars, workerVars, computeVars, answered>>

InterruptEnd == /\ main = "interrupt" /\ interrupt = {} /\ main' = "drain"
                /\ UNCHANGED <<closing, interrupt, doorVars, workerVars, computeVars, dead, answered>>

\* Mutant: shutdown(wait=False).
DrainNothing == /\ main = "drain" /\ main' = "destroy"
                /\ UNCHANGED <<closing, interrupt, doorVars, workerVars, computeVars, dead, answered>>

\* _pool.shutdown(wait=True): queued work still runs; threads are joined.
Drained == /\ main = "drain" /\ queue = <<>>
           /\ \A w \in Workers : pc[w] = "idle"
           /\ main' = "destroy"
           /\ UNCHANGED <<closing, interrupt, doorVars, workerVars, computeVars, dead, answered>>

\* The worker inside the SDK holds _context_lock.
ContextFree == \A w \in Workers : pc[w] # "native"

\* backend.close takes the context lock and destroys the context.
DestroyContext == /\ main = "destroy" /\ ContextFree
                  /\ main' = "end" /\ context' = "destroyed"
                  /\ UNCHANGED <<closing, interrupt, doorVars, workerVars, inferSlots, leases, dead, answered>>

-----------------------------------------------------------------------------
(* The HTTP workers. *)

Move(w, from, to) == pc[w] = from /\ pc' = [pc EXCEPT ![w] = to]

\* A pool thread takes the next queued connection.
Take(w) == /\ queue # <<>> /\ Move(w, "idle", "start")
           /\ at' = [at EXCEPT ![w] = Head(queue)] /\ queue' = Tail(queue)
           /\ UNCHANGED <<mainVars, backlog, connections, connSlots, computeVars, dead, answered>>

Stay == UNCHANGED <<mainVars, doorVars, at, dead, answered>>

\* _handle_connection: a closing server does not even read the request.
Start(w) == /\ Move(w, "start", IF closing \/ at[w] \in dead THEN "leave" ELSE "read")
            /\ Stay /\ UNCHANGED computeVars

\* The request line and headers arrive, or they do not: the client goes away or
\* is silent for five seconds.
Read(w) == /\ at[w] \notin dead
           /\ \E to \in {"health", "post", "leave"} : Move(w, "read", to)
           /\ Stay /\ UNCHANGED computeVars

\* do_POST: an inference slot now, or 503.
Post(w) == /\ IF inferSlots > 0
              THEN Move(w, "post", "body") /\ inferSlots' = inferSlots - 1
              ELSE Move(w, "post", "busy") /\ UNCHANGED inferSlots
           /\ Stay /\ UNCHANGED <<leases, context>>

\* The body is read, checked and decoded; a bad request has an answer (reply), a
\* reset connection has none (drop).
Body(w) == /\ at[w] \notin dead
           /\ \E to \in {"gate", "reply-free", "drop-free"} : Move(w, "body", to)
           /\ Stay /\ UNCHANGED computeVars

\* The server has shut the socket down under a worker that reads from it.
Interrupted(w) == /\ at[w] \in dead
                  /\ \/ Move(w, "read", "leave")
                     \/ \E to \in {"reply-free", "drop-free"} : Move(w, "body", to)
                  /\ Stay /\ UNCHANGED computeVars

\* `if self.server.closing.is_set(): return'
Gate(w) == /\ Move(w, "gate", IF closing THEN "drop-free" ELSE "lease")
           /\ Stay /\ UNCHANGED computeVars

\* borrow_outputs: a buffer, or after five seconds `RKNN output buffers busy'.
Lease(w) == /\ IF leases > 0
               THEN Move(w, "lease", "context") /\ leases' = leases - 1
               ELSE Move(w, "lease", "reply-free") /\ UNCHANGED leases
            /\ Stay /\ UNCHANGED <<inferSlots, context>>

\* The context lock: into the SDK, or `context busy' after five seconds, or
\* `context closed'.
Context(w) == /\ IF ContextFree /\ context = "open"
                 THEN Move(w, "context", "native")
                 ELSE Move(w, "context", "unlease")
              /\ Stay /\ UNCHANGED computeVars

\* The SDK returns: outputs to decode, or an error.
Native(w) == /\ \E to \in {"decode", "unlease"} : Move(w, "native", to)
             /\ Stay /\ UNCHANGED computeVars

\* Mutant: an error skips the finally clause.
GiveBackOnSuccess(w) == /\ pc[w] \in {"decode", "unlease"} /\ Move(w, pc[w], "reply-free")
                        /\ leases' = leases + (IF pc[w] = "decode" THEN 1 ELSE 0)
                        /\ Stay /\ UNCHANGED <<inferSlots, context>>

\* The outputs are decoded inside the lease, and the buffer is given back on
\* every way out of borrow_outputs.
GiveBack(w) == /\ pc[w] \in {"decode", "unlease"} /\ Move(w, pc[w], "reply-free")
               /\ leases' = leases + 1
               /\ Stay /\ UNCHANGED <<inferSlots, context>>

\* Mutant: the answer is sent first, the slot is free afterwards.
AnswerThenFree(w) == /\ Move(w, "reply-free", "drop-free") \/ Move(w, "drop-free", "leave")
                     /\ inferSlots' = inferSlots + (IF pc[w] = "drop-free" THEN 1 ELSE 0)
                     /\ answered' = IF pc[w] = "reply-free" THEN answered \cup {at[w]} ELSE answered
                     /\ UNCHANGED <<mainVars, doorVars, at, dead, leases, context>>

\* do_POST's finally: the slot is free before the answer is sent.
FreeSlot(w) == /\ \/ Move(w, "reply-free", "reply")
                  \/ Move(w, "drop-free", "leave")
               /\ inferSlots' = inferSlots + 1
               /\ Stay /\ UNCHANGED <<leases, context>>

\* The answer reaches the client, or the socket is gone.
Reply(w) == /\ pc[w] \in {"health", "busy", "reply"} /\ Move(w, pc[w], "leave")
            /\ \/ at[w] \notin dead /\ answered' = answered \cup {at[w]}
               \/ UNCHANGED answered
            /\ UNCHANGED <<mainVars, doorVars, at, dead, computeVars>>

\* The finally clause closes the socket, then gives the connection back.
Hangup(w) == /\ Move(w, "leave", "forget")
             /\ dead' = dead \cup {at[w]}
             /\ UNCHANGED <<mainVars, doorVars, at, answered, computeVars>>

\* Mutant: discard instead of remove.
ForgetDiscard(w) == /\ Move(w, "forget", "idle") /\ at' = [at EXCEPT ![w] = None]
                    /\ dead' = dead \ {at[w]} /\ answered' = answered \ {at[w]}
                    /\ connections' = connections \ {at[w]} /\ connSlots' = connSlots + 1
                    /\ UNCHANGED <<mainVars, backlog, queue, computeVars>>

\* Mutant: the slot is released and the connection stays in the set.
ForgetSlotOnly(w) == /\ Move(w, "forget", "idle") /\ at' = [at EXCEPT ![w] = None]
                     /\ dead' = dead \ {at[w]} /\ answered' = answered \ {at[w]}
                     /\ connSlots' = connSlots + (IF at[w] \in connections THEN 1 ELSE 0)
                     /\ UNCHANGED connections
                     /\ UNCHANGED <<mainVars, backlog, queue, computeVars>>

\* remove raises KeyError for a connection that is no longer in the set, and the
\* slot is then not released a second time.
Forget(w) == /\ Move(w, "forget", "idle") /\ at' = [at EXCEPT ![w] = None]
             /\ dead' = dead \ {at[w]} /\ answered' = answered \ {at[w]}
             /\ IF at[w] \in connections
                THEN connections' = connections \ {at[w]} /\ connSlots' = connSlots + 1
                ELSE UNCHANGED <<connections, connSlots>>
             /\ UNCHANGED <<mainVars, backlog, queue, computeVars>>

Compute(w) == Post(w) \/ Gate(w) \/ Lease(w) \/ Context(w) \/ Native(w) \/ GiveBack(w) \/ FreeSlot(w)
\* What a worker does without waiting for its client.
Step(w) == Take(w) \/ Start(w) \/ Interrupted(w) \/ Compute(w) \/ Reply(w) \/ Hangup(w) \/ Forget(w)
MainStep == CloseServer \/ (\E c \in Conns : InterruptOne(c)) \/ InterruptEnd \/ Drained \/ DestroyContext

\* The process has ended; the operating system takes the rest.
Ended == main = "end" /\ UNCHANGED vars

Next == \/ \E c \in Conns : Connect(c) \/ Admit(c) \/ Refuse(c) \/ TerminateInAdmit(c)
        \/ Terminate \/ MainStep \/ Ended
        \/ \E w \in Workers : Step(w) \/ Read(w) \/ Body(w)

Spec == Init /\ [][Next]_vars
LiveSpec == Spec /\ WF_vars(MainStep) /\ \A w \in Workers : WF_vars(Step(w))

-----------------------------------------------------------------------------
(* Properties. *)

Labels == {"idle", "start", "read", "health", "post", "busy", "body", "gate", "lease", "context",
           "native", "decode", "unlease", "reply-free", "drop-free", "reply", "leave", "forget"}

\* Types and ranges of all variables.
TypeOK == /\ main \in {"serve", "close", "interrupt", "drain", "destroy", "end"}
          /\ closing \in BOOLEAN /\ interrupt \subseteq Conns
          /\ backlog \subseteq Conns /\ queue \in Seq(Conns)
          /\ connections \subseteq Conns /\ connSlots \in 0 .. MaxConnections
          /\ pc \in [Workers -> Labels] /\ at \in [Workers -> Conns \cup {None}]
          /\ inferSlots \in 0 .. InferenceWorkers /\ leases \in 0 .. InferenceWorkers
          /\ context \in {"open", "destroyed"}
          /\ dead \subseteq Conns /\ answered \subseteq Conns

\* Every connection in the set has its own slot, and while the server serves no
\* slot is lost.  A slot is never released twice, also after a SIGTERM in the
\* middle of an admission, when both the main thread and a worker clean up
\* (BoundedSemaphore would raise in the worker).
SlotsMatchConnections ==
  /\ connSlots + Cardinality(connections) <= MaxConnections
  /\ main = "serve" => connSlots + Cardinality(connections) = MaxConnections

\* A request that holds an inference slot never waits for an output buffer:
\* there are as many buffers as slots, and every way out of the SDK call gives
\* the buffer back before the slot.  (The five-second wait is never used.)
BufferForEverySlot == \A w \in Workers : pc[w] = "lease" => leases > 0

\* The context is destroyed after the last request: no admitted connection is
\* still queued and no worker is anywhere in a request, so no client is ever
\* told `context closed' and the SDK never runs on a destroyed context.
ContextOutlivesRequests ==
  main \in {"destroy", "end"} => queue = <<>> /\ \A w \in Workers : pc[w] = "idle"

Computing == {"body", "gate", "lease", "context", "native", "decode", "unlease", "reply-free", "drop-free"}

\* `server_busy' is never spurious: when a POST is turned away, as many others
\* as there are slots are being computed and have not been answered yet.  A
\* client that has its answer in hand is never the reason.
BusyIsHonest ==
  [][\A w \in Workers : pc[w] = "post" /\ pc'[w] = "busy" =>
       InferenceWorkers <= Cardinality({v \in Workers : pc[v] \in Computing /\ at[v] \notin answered})]_vars

\* After SIGTERM the process ends, however slow or silent its clients are.
ShutdownEnds == main = "close" ~> main = "end"
=============================================================================
