----------------------------- MODULE ReadAhead -----------------------------
(***************************************************************************)
(* The read-ahead pipeline of a storage write (installer/engine/src/       *)
(* pipeline.rs, used at flash.rs:343-354): a worker thread reads and       *)
(* hashes the source while the caller sends the previous blocks over USB.  *)
(* Two bounded channels connect them: `ready' carries filled buffers,      *)
(* `free' brings them back.  A range is a sequence of blocks 0, 1, ...     *)
(***************************************************************************)
EXTENDS Integers, Sequences

CONSTANTS Buffers, \* BUFFERS: buffers in the pool and slots in each channel
          Total    \* blocks in the range

ASSUME PoolAssumption == Buffers \in Nat \ {0} /\ Total \in Nat

Err == -1 \* the message Err(error)

VARIABLES
  free,   \* buffers waiting in the recycle channel
  ready,  \* messages waiting in the ready channel: block numbers or Err
  worker, \* where the worker is
  made,   \* the worker's offset: blocks it has sent
  hashed, \* blocks the worker has hashed
  caller, \* where the caller is
  offset, \* ReadAhead.offset: blocks `next' has returned
  sent,   \* the blocks the device acknowledged
  ends,   \* the channel ends the caller still holds
  answer  \* what the caller got from the pipeline

\* Mutant: the pool is larger than the channels.
InitLargePool == /\ free = Buffers + 1 /\ ready = <<>>
                 /\ worker = "take" /\ made = 0 /\ hashed = 0
                 /\ caller = "next" /\ offset = 0 /\ sent = <<>>
                 /\ ends = {"ready", "recycle"} /\ answer = "none"

vars == <<free, ready, worker, made, hashed, caller, offset, sent, ends, answer>>
workerVars == <<worker, made, hashed>>
callerVars == <<caller, offset, sent, ends, answer>>

Init == /\ free = Buffers /\ ready = <<>>
        /\ worker = "take" /\ made = 0 /\ hashed = 0
        /\ caller = "next" /\ offset = 0 /\ sent = <<>>
        /\ ends = {"ready", "recycle"} /\ answer = "none"

\* A worker that has ended, perhaps by a panic; its channel ends are dropped.
Gone == {"ok", "err", "panic"}

-----------------------------------------------------------------------------
(* The worker. *)

\* Mutant: the loop goes on at the end of the range.
TakeBeyond == /\ worker = "take" /\ made <= Total
              /\ \/ free > 0 /\ free' = free - 1 /\ worker' = "read"
                 \/ /\ free = 0 /\ "recycle" \notin ends
                    /\ worker' = "fail" /\ UNCHANGED free
              /\ UNCHANGED <<ready, made, hashed, callerVars>>

\* recv on `free': buffers that were sent are delivered even after the sender is
\* dropped; only then it fails.
Take == /\ worker = "take" /\ made < Total
        /\ \/ free > 0 /\ free' = free - 1 /\ worker' = "read"
           \/ /\ free = 0 /\ "recycle" \notin ends
              /\ worker' = "fail" /\ UNCHANGED free
        /\ UNCHANGED <<ready, made, hashed, callerVars>>

\* read_exact and hash.update; the source may be short or fail, a decompressor
\* may panic.
Read == /\ worker = "read"
        /\ \/ worker' = "send" /\ hashed' = hashed + 1
           \/ worker' \in {"fail", "panic"} /\ UNCHANGED hashed
        /\ UNCHANGED <<free, ready, made, callerVars>>

\* send blocks while the channel is full and fails when the receiver is gone.
Send == /\ worker = "send"
        /\ \/ /\ "ready" \in ends /\ Len(ready) < Buffers
              /\ ready' = Append(ready, made)
              /\ made' = made + 1 /\ worker' = "take"
           \/ /\ "ready" \notin ends
              /\ worker' = "fail" /\ UNCHANGED <<ready, made>>
        /\ UNCHANGED <<free, hashed, callerVars>>

Report == /\ worker = "fail"
          /\ \/ /\ "ready" \in ends /\ Len(ready) < Buffers
                /\ ready' = Append(ready, Err)
             \/ "ready" \notin ends /\ UNCHANGED ready
          /\ worker' = "err"
          /\ UNCHANGED <<free, made, hashed, callerVars>>

WorkerEnd == /\ worker = "take" /\ made = Total
             /\ worker' = "ok"
             /\ UNCHANGED <<free, ready, made, hashed, callerVars>>

-----------------------------------------------------------------------------
(* The caller: the loop of execute_with_gate. *)

\* recv on `ready' fails when it is empty and the worker is gone; check_block
\* refuses a block that is not the next one.
NextBlock ==
  /\ caller = "next" /\ offset < Total
  /\ \/ /\ ready # <<>>
        /\ ready' = Tail(ready)
        /\ IF Head(ready) = offset THEN caller' = "write" /\ offset' = offset + 1
                                   ELSE caller' = "drop" /\ UNCHANGED offset
     \/ /\ ready = <<>> /\ worker \in Gone
        /\ caller' = "drop" /\ UNCHANGED <<ready, offset>>
  /\ UNCHANGED <<free, workerVars, sent, ends, answer>>

\* Mutant: a short transfer is not refused.
WriteShort == /\ caller = "write"
              /\ caller' = "recycle" /\ sent' \in {sent, Append(sent, offset - 1)}
              /\ UNCHANGED <<free, ready, workerVars, offset, ends, answer>>

\* The USB transfer may fail or be short.
Write == /\ caller = "write"
         /\ \/ caller' = "recycle" /\ sent' = Append(sent, offset - 1)
            \/ caller' = "drop" /\ UNCHANGED sent
         /\ UNCHANGED <<free, ready, workerVars, offset, ends, answer>>

\* Mutant: the buffer is dropped instead of returned.
RecycleNothing == /\ caller = "recycle"
                  /\ caller' = "next"
                  /\ UNCHANGED <<free, ready, workerVars, offset, sent, ends, answer>>

\* send blocks while the channel is full; a worker that has finished is ignored.
Recycle == /\ caller = "recycle"
           /\ \/ worker \notin Gone /\ free < Buffers /\ free' = free + 1
              \/ worker \in Gone /\ UNCHANGED free
           /\ caller' = "next"
           /\ UNCHANGED <<ready, workerVars, offset, sent, ends, answer>>

LoopEnd == /\ caller = "next" /\ offset = Total
           /\ caller' = "finish"
           /\ UNCHANGED <<free, ready, workerVars, offset, sent, ends, answer>>

\* Mutant: the worker is joined before the recycle channel is disconnected.
CloseLate == /\ caller \in {"finish", "drop"} /\ "ready" \notin ends
             /\ "recycle" \in ends /\ worker \in Gone
             /\ ends' = ends \ {"recycle"}
             /\ UNCHANGED <<free, ready, workerVars, caller, offset, sent, answer>>

\* finish and drop disconnect one channel, then the other.  The messages still
\* in `ready' go with its receiver.
CloseReady == /\ caller \in {"finish", "drop"} /\ "ready" \in ends
              /\ ends' = ends \ {"ready"} /\ ready' = <<>>
              /\ UNCHANGED <<free, workerVars, caller, offset, sent, answer>>

CloseRecycle == /\ caller \in {"finish", "drop"} /\ "ready" \notin ends
                /\ "recycle" \in ends
                /\ ends' = ends \ {"recycle"}
                /\ UNCHANGED <<free, ready, workerVars, caller, offset, sent, answer>>

Join == /\ caller \in {"finish", "drop"} /\ ends = {} /\ worker \in Gone
        /\ answer' = IF caller = "finish" /\ worker = "ok" /\ offset = Total /\ made = Total
                     THEN "ok" ELSE "err"
        /\ caller' = "end"
        /\ UNCHANGED <<free, ready, workerVars, offset, sent, ends>>

Worker == Take \/ Read \/ Send \/ Report \/ WorkerEnd
Caller == NextBlock \/ Write \/ Recycle \/ LoopEnd \/ CloseReady \/ CloseRecycle \/ Join

\* Both threads have ended.
Ended == caller = "end" /\ worker \in Gone /\ UNCHANGED vars

Next == Worker \/ Caller \/ Ended

\* Threads are scheduled; reads of the source and USB transfers end (the latter
\* have a timeout).
Spec == Init /\ [][Next]_vars /\ WF_vars(Worker) /\ WF_vars(Caller)

-----------------------------------------------------------------------------
(* Properties. *)

\* The types of the channels and of the two threads' state.
TypeOK == /\ free \in 0..Buffers
          /\ ready \in Seq({Err} \cup 0..Total)
          /\ worker \in {"take", "read", "send", "fail"} \cup Gone
          /\ made \in 0..Total /\ hashed \in 0..Total /\ offset \in 0..Total
          /\ caller \in {"next", "write", "recycle", "finish", "drop", "end"}
          /\ sent \in Seq(0..Total)
          /\ ends \subseteq {"ready", "recycle"}
          /\ answer \in {"none", "ok", "err"}

\* Neither thread ever waits for room in a channel: the pool is as large as each
\* channel, and an error travels in the place of the block that failed.  A wait
\* there, with the other thread waiting here, is how this pipeline would hang
\* (pipeline.rs:37-59, 68-71).
NeverFull == /\ worker \in {"send", "fail"} /\ "ready" \in ends => Len(ready) < Buffers
             /\ caller = "recycle" /\ worker \notin Gone => free < Buffers

\* The range the caller reports good is the one that was hashed: every block,
\* once, in order, although either side may fail anywhere (pipeline.rs:72-79).
Stream == INSTANCE RangeStream WITH taken <- sent
InOrder == Stream!Spec

\* Whichever side fails or stops, the caller gets an answer (pipeline.rs:54-85).
Answers == <>(answer # "none")
=============================================================================
