---------------------------- MODULE HashWorker ----------------------------
(***************************************************************************)
(* The hashing pipeline of every full read (installer/engine/src/          *)
(* pipeline.rs): the caller fills a buffer from USB or from a decompressor *)
(* and a worker thread hashes the previous ones.  Used by the readback of  *)
(* a transaction, the comparison of a backup with the device and the check *)
(* of an archive; here with the caller of read_digest.                     *)
(***************************************************************************)
EXTENDS Naturals, Sequences

CONSTANTS Buffers, \* BUFFERS: buffers in the pool and slots in each channel
          Total    \* blocks in the range

ASSUME PoolAssumption == Buffers \in Nat \ {0} /\ Total \in Nat

VARIABLES
  free,    \* buffers waiting in the recycle channel
  pending, \* blocks waiting in the input channel
  worker,  \* where the worker is
  hashed,  \* the blocks it has hashed
  caller,  \* where the caller is
  offset,  \* blocks it has submitted
  ends,    \* the channel ends the caller still holds
  answer   \* what the caller got from the pipeline

vars == <<free, pending, worker, hashed, caller, offset, ends, answer>>
workerVars == <<worker, hashed>>
callerVars == <<caller, offset, ends, answer>>

\* A worker that has ended, perhaps by a panic; its channel ends are dropped.
Gone == {"ok", "err", "panic"}

\* Mutant: the pool is larger than the channels.
InitLargePool == /\ free = Buffers + 2 /\ pending = <<>>
                 /\ worker = "recv" /\ hashed = <<>>
                 /\ caller = "buffer" /\ offset = 0
                 /\ ends = {"input", "free"} /\ answer = "none"

Init == /\ free = Buffers /\ pending = <<>>
        /\ worker = "recv" /\ hashed = <<>>
        /\ caller = "buffer" /\ offset = 0
        /\ ends = {"input", "free"} /\ answer = "none"

-----------------------------------------------------------------------------
(* The worker. *)

\* Blocks that were submitted are received even after the sender is dropped; the
\* block must be the next one.  finish expects that hashing may panic.
Hash == /\ worker = "recv" /\ pending # <<>>
        /\ pending' = Tail(pending)
        /\ IF Head(pending) = Len(hashed)
           THEN \/ worker' = "recycle" /\ hashed' = Append(hashed, Head(pending))
                \/ worker' = "panic" /\ UNCHANGED hashed
           ELSE worker' = "err" /\ UNCHANGED hashed
        /\ UNCHANGED <<free, callerVars>>

InputEnd == /\ worker = "recv" /\ pending = <<>> /\ "input" \notin ends
            /\ worker' = IF Len(hashed) = Total THEN "ok" ELSE "err"
            /\ UNCHANGED <<free, pending, hashed, callerVars>>

\* send blocks while the channel is full; without a receiver the loop is left.
GiveBack == /\ worker = "recycle"
            /\ \/ /\ "free" \in ends /\ free < Buffers
                  /\ free' = free + 1 /\ worker' = "recv"
               \/ /\ "free" \notin ends
                  /\ worker' = IF Len(hashed) = Total THEN "ok" ELSE "err"
                  /\ UNCHANGED free
            /\ UNCHANGED <<pending, hashed, callerVars>>

-----------------------------------------------------------------------------
(* The caller: read_digest, finish and drop. *)

\* Mutant: the loop goes on at the end of the range.
BufferBeyond == /\ caller = "buffer" /\ offset <= Total
                /\ \/ free > 0 /\ free' = free - 1 /\ caller' = "fill"
                   \/ free = 0 /\ worker \in Gone /\ caller' = "drop" /\ UNCHANGED free
                /\ UNCHANGED <<pending, workerVars, offset, ends, answer>>

\* recv on `free' fails when it is empty and the worker is gone.
Buffer == /\ caller = "buffer" /\ offset < Total
          /\ \/ free > 0 /\ free' = free - 1 /\ caller' = "fill"
             \/ free = 0 /\ worker \in Gone /\ caller' = "drop" /\ UNCHANGED free
          /\ UNCHANGED <<pending, workerVars, offset, ends, answer>>

\* The USB read or the decompressor may fail.
Fill == /\ caller = "fill"
        /\ caller' \in {"submit", "drop"}
        /\ UNCHANGED <<free, pending, workerVars, offset, ends, answer>>

\* send blocks while the channel is full and fails when the worker is gone; the
\* pipeline's offset has then been advanced, but nothing reads it any more.
Submit == /\ caller = "submit"
          /\ \/ /\ worker \notin Gone /\ Len(pending) < Buffers
                /\ pending' = Append(pending, offset)
                /\ offset' = offset + 1
                /\ caller' = "buffer"
             \/ /\ worker \in Gone
                /\ caller' = "drop" /\ UNCHANGED <<pending, offset>>
          /\ UNCHANGED <<free, workerVars, ends, answer>>

\* Mutant: the worker is joined before its input is disconnected.
CloseInputLate == /\ caller \in {"finish", "drop"} /\ "input" \in ends
                  /\ worker \in Gone
                  /\ ends' = ends \ {"input"}
                  /\ UNCHANGED <<free, pending, workerVars, caller, offset, answer>>

LoopEnd == /\ caller = "buffer" /\ offset = Total
           /\ caller' = "finish"
           /\ UNCHANGED <<free, pending, workerVars, offset, ends, answer>>

CloseInput == /\ caller \in {"finish", "drop"} /\ "input" \in ends
              /\ ends' = ends \ {"input"}
              /\ UNCHANGED <<free, pending, workerVars, caller, offset, answer>>

\* finish takes the returned buffers until the worker has ended.
Drain == /\ caller = "finish" /\ "input" \notin ends
         /\ free > 0 /\ free' = free - 1
         /\ UNCHANGED <<pending, workerVars, callerVars>>

\* Mutant: finish drops the buffer channel without draining it.
CloseFreeEarly == /\ caller \in {"finish", "drop"} /\ "input" \notin ends
                  /\ "free" \in ends
                  /\ ends' = ends \ {"free"} /\ free' = 0
                  /\ UNCHANGED <<pending, workerVars, caller, offset, answer>>

\* Mutant: the worker's result is not looked at.
JoinAny == /\ caller \in {"finish", "drop"} /\ ends = {} /\ worker \in Gone
           /\ answer' = IF caller = "finish" /\ offset = Total THEN "ok" ELSE "err"
           /\ caller' = "end"
           /\ UNCHANGED <<free, pending, workerVars, offset, ends>>

CloseFree == /\ caller \in {"finish", "drop"} /\ "input" \notin ends
             /\ "free" \in ends
             /\ caller = "finish" => free = 0 /\ worker \in Gone
             /\ ends' = ends \ {"free"} /\ free' = 0
             /\ UNCHANGED <<pending, workerVars, caller, offset, answer>>

Join == /\ caller \in {"finish", "drop"} /\ ends = {} /\ worker \in Gone
        /\ answer' = IF caller = "finish" /\ worker = "ok" /\ offset = Total
                     THEN "ok" ELSE "err"
        /\ caller' = "end"
        /\ UNCHANGED <<free, pending, workerVars, offset, ends>>

Worker == Hash \/ InputEnd \/ GiveBack
Caller == Buffer \/ Fill \/ Submit \/ LoopEnd \/ CloseInput \/ Drain \/ CloseFree \/ Join

\* Both threads have ended.
Ended == caller = "end" /\ worker \in Gone /\ UNCHANGED vars

Next == Worker \/ Caller \/ Ended

\* Threads are scheduled; USB transfers have a timeout.
Spec == Init /\ [][Next]_vars /\ WF_vars(Worker) /\ WF_vars(Caller)

-----------------------------------------------------------------------------
(* Properties. *)

\* The types of the channels and of the two threads' state.
TypeOK == /\ free \in 0..Buffers
          /\ pending \in Seq(0..Total)
          /\ worker \in {"recv", "recycle"} \cup Gone
          /\ hashed \in Seq(0..Total)
          /\ caller \in {"buffer", "fill", "submit", "finish", "drop", "end"}
          /\ offset \in 0..Total
          /\ ends \subseteq {"input", "free"}
          /\ answer \in {"none", "ok", "err"}

\* Neither thread ever waits for room in a channel: with every buffer in the
\* worker's queue the caller has none to submit (pipeline.rs:97-121).
NeverFull == /\ caller = "submit" /\ worker \notin Gone => Len(pending) < Buffers
             /\ worker = "recycle" /\ "free" \in ends => free < Buffers

\* A caller that submitted the whole range is refused its digest only by a panic:
\* closing the pipeline never cuts off blocks that are still queued (pipeline.rs:
\* 103-111, 123-126).
NoFalseAlarm == caller = "finish" => worker # "err"

\* A digest is of every block of the range, once and in order, although the
\* caller may leave at any block (pipeline.rs:122-132).
Stream == INSTANCE RangeStream WITH taken <- hashed
InOrder == Stream!Spec

\* Whichever side stops, the caller gets an answer (pipeline.rs:122-139).
Answers == <>(answer # "none")
=============================================================================
