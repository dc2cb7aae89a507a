-------------------------- MODULE HashWorkerProofs --------------------------
(***************************************************************************)
(* The hashing pipeline for every pool size and every range: it is type    *)
(* correct, no thread waits for room in a channel, a range submitted whole *)
(* is refused only after a panic, and it implements RangeStream.           *)
(***************************************************************************)
EXTENDS HashWorker, SequenceTheorems, TLAPS

USE PoolAssumption

\* The buffers in the hands of the worker and of the caller.
WorkerHolds == IF worker = "recycle" THEN 1 ELSE 0
CallerHolds == IF caller \in {"fill", "submit"} THEN 1 ELSE 0

\* The channels and the two threads never have more than the pool between them.
Pool == worker \notin Gone => free + Len(pending) + WorkerHolds + CallerHolds <= Buffers

\* The queue continues where the worker is and ends where the caller is.
Queue == worker \notin Gone =>
           /\ offset = Len(hashed) + Len(pending)
           /\ \A i \in 1..Len(pending) : pending[i] = Len(hashed) + i - 1

\* What each way of ending says of the worker.
WorkerEnds == /\ worker = "ok" => Len(hashed) = Total
              /\ worker = "err" => caller \in {"drop", "end"}

\* The caller's place, its channel ends and its answer.
CallerPlace == /\ caller \in {"fill", "submit"} => offset < Total
               /\ caller \in {"buffer", "fill", "submit"} => ends = {"input", "free"}
               /\ caller = "finish" => offset = Total
               /\ caller = "finish" /\ "free" \notin ends => worker \in Gone
               /\ caller = "end" => worker \in Gone
               /\ caller # "end" <=> answer = "none"

Inv == TypeOK /\ Pool /\ Queue /\ WorkerEnds /\ CallerPlace

-----------------------------------------------------------------------------

\* The initial state satisfies the invariant (HashWorker::new).
LEMMA InitInv == Init => Inv
  BY EmptySeq DEF Init, Inv, TypeOK, Pool, WorkerHolds, CallerHolds, Queue,
                  WorkerEnds, CallerPlace, Gone

\* Every step of the worker thread preserves the invariant.
LEMMA WorkerInv == Inv /\ Worker => Inv'
<1> SUFFICES ASSUME Inv, Worker PROVE Inv'
  OBVIOUS
<1> USE DEF Inv, TypeOK, Pool, WorkerHolds, CallerHolds, Queue, WorkerEnds,
            CallerPlace, Gone, workerVars, callerVars
<1>0. Len(pending) \in Nat /\ Len(hashed) \in Nat
  BY LenProperties
<1>1. CASE Hash
  <2>1. /\ Tail(pending) \in Seq(0..Total)
        /\ Len(Tail(pending)) = Len(pending) - 1
        /\ \A i \in 1..Len(Tail(pending)) : Tail(pending)[i] = pending[i + 1]
        /\ Head(pending) \in 0..Total
    BY <1>1, HeadTailProperties DEF Hash
  <2>2. Head(pending) = Len(hashed) /\ Len(pending) > 0
    <3>1. Head(pending) = pending[1] /\ Len(pending) > 0
      BY <1>0, <1>1, EmptySeq DEF Hash
    <3>2. \A i \in 1..Len(pending) : pending[i] = Len(hashed) + i - 1
      BY <1>1 DEF Hash
    <3>3. 1 \in 1..Len(pending)
      BY <1>0, <3>1
    <3> QED
      BY ONLY <1>0, <3>1, <3>2, <3>3
  <2>3. /\ Append(hashed, Head(pending)) \in Seq(0..Total)
        /\ Len(Append(hashed, Head(pending))) = Len(hashed) + 1
    BY <2>1, AppendProperties
  <2>4. CASE worker' = "recycle"
    <3>1. TypeOK'
      BY <1>1, <2>1, <2>2, <2>3, <2>4 DEF Hash
    <3>2. Pool'
      BY <1>0, <1>1, <2>1, <2>4 DEF Hash
    <3>3. Queue'
      <4>1. pending' = Tail(pending) /\ Len(hashed') = Len(hashed) + 1 /\ offset' = offset
        BY <1>1, <2>2, <2>3, <2>4 DEF Hash
      <4>2. /\ offset = Len(hashed) + Len(pending)
            /\ \A i \in 1..Len(pending) : pending[i] = Len(hashed) + i - 1
        BY <1>1 DEF Hash
      <4>3. ASSUME NEW i \in 1..Len(Tail(pending))
            PROVE  Tail(pending)[i] = Len(hashed') + i - 1
        BY ONLY <1>0, <2>1, <4>1, <4>2, <4>3, i + 1 \in 1..Len(pending)
      <4> QED
        BY <1>0, <2>1, <4>1, <4>2, <4>3
    <3>4. (WorkerEnds /\ CallerPlace)'
      BY <1>1, <2>4 DEF Hash
    <3> QED
      BY <3>1, <3>2, <3>3, <3>4
  <2>5. CASE worker' = "panic"
    BY <1>1, <2>1, <2>2, <2>5 DEF Hash
  <2> QED
    BY <1>1, <2>2, <2>4, <2>5 DEF Hash
<1>2. CASE InputEnd
  <2>1. Len(pending) = 0
    BY <1>2, EmptySeq DEF InputEnd
  <2> QED
    BY <1>0, <1>2, <2>1 DEF InputEnd
<1>3. CASE GiveBack
  <2>1. CASE "free" \in ends
    BY <1>0, <1>3, <2>1 DEF GiveBack
  <2>2. CASE "free" \notin ends
    BY <1>0, <1>3, <2>2 DEF GiveBack
  <2> QED
    BY <2>1, <2>2
<1> QED
  BY <1>1, <1>2, <1>3 DEF Worker

\* Every step of the caller preserves the invariant.
LEMMA CallerInv == Inv /\ Caller => Inv'
<1> SUFFICES ASSUME Inv, Caller PROVE Inv'
  OBVIOUS
<1> USE DEF Inv, TypeOK, Pool, WorkerHolds, CallerHolds, Queue, WorkerEnds,
            CallerPlace, Gone, workerVars, callerVars
<1>0. Len(pending) \in Nat /\ Len(hashed) \in Nat
  BY LenProperties
<1>1. CASE Buffer
  BY <1>0, <1>1 DEF Buffer
<1>2. CASE Fill
  BY <1>0, <1>2 DEF Fill
<1>3. CASE Submit
  <2>1. /\ Append(pending, offset) \in Seq(0..Total)
        /\ Len(Append(pending, offset)) = Len(pending) + 1
        /\ \A i \in 1..Len(pending) : Append(pending, offset)[i] = pending[i]
        /\ Append(pending, offset)[Len(pending) + 1] = offset
    BY AppendProperties
  <2>2. CASE worker \notin Gone
    <3>1. TypeOK'
      <4>1. pending' \in Seq(0..Total)
        BY <1>3, <2>1, <2>2 DEF Submit
      <4>2. offset' \in 0..Total
        BY <1>3, <2>2 DEF Submit
      <4> QED
        BY <1>3, <2>2, <4>1, <4>2 DEF Submit
    <3>2. Pool'
      BY <1>0, <1>3, <2>1, <2>2 DEF Submit
    <3>3. Queue'
      <4>1. /\ pending' = Append(pending, offset)
            /\ offset' = offset + 1
            /\ hashed' = hashed
        BY <1>3, <2>2 DEF Submit
      <4>2. /\ offset = Len(hashed) + Len(pending)
            /\ \A i \in 1..Len(pending) : pending[i] = Len(hashed) + i - 1
        BY <2>2
      <4>3. ASSUME NEW i \in 1..Len(pending')
            PROVE  pending'[i] = Len(hashed) + i - 1
        <5>1. CASE i \in 1..Len(pending)
          BY <2>1, <4>1, <4>2, <5>1
        <5>2. CASE i = Len(pending) + 1
          BY <1>0, <2>1, <4>1, <4>2, <5>2
        <5> QED
          BY <1>0, <2>1, <4>1, <5>1, <5>2
      <4> QED
        BY <1>0, <2>1, <4>1, <4>2, <4>3
    <3>4. (WorkerEnds /\ CallerPlace)'
      BY <1>3, <2>2 DEF Submit
    <3> QED
      BY <3>1, <3>2, <3>3, <3>4
  <2>3. CASE worker \in Gone
    BY <1>0, <1>3, <2>3 DEF Submit
  <2> QED
    BY <2>2, <2>3
<1>4. CASE LoopEnd
  BY <1>0, <1>4 DEF LoopEnd
<1>5. CASE CloseInput
  BY <1>0, <1>5 DEF CloseInput
<1>6. CASE Drain
  BY <1>0, <1>6 DEF Drain
<1>7. CASE CloseFree
  <2>1. TypeOK'
    BY <1>7 DEF CloseFree
  <2>2. Pool'
    <3>1. free \in Nat /\ free' = 0 /\ UNCHANGED <<pending, worker, caller>>
      BY <1>7 DEF CloseFree
    <3>2. WorkerHolds' = WorkerHolds /\ CallerHolds' = CallerHolds
      BY <3>1
    <3>3. WorkerHolds \in 0..1 /\ CallerHolds \in 0..1
      OBVIOUS
    <3>4. worker \notin Gone =>
            free + Len(pending) + WorkerHolds + CallerHolds <= Buffers
      OBVIOUS
    <3> HIDE DEF WorkerHolds, CallerHolds, Inv
    <3> QED
      BY <1>0, <3>1, <3>2, <3>3, <3>4
  <2>4. Queue'
    BY <1>7 DEF CloseFree
  <2>3. (WorkerEnds /\ CallerPlace)'
    BY <1>7 DEF CloseFree
  <2> QED
    BY <2>1, <2>2, <2>3, <2>4
<1>8. CASE Join
  BY <1>0, <1>8 DEF Join
<1> QED
  BY <1>1, <1>2, <1>3, <1>4, <1>5, <1>6, <1>7, <1>8 DEF Caller

\* The invariant holds in every reachable state.
THEOREM InvariantHolds == Spec => []Inv
<1>1. ASSUME Inv, [Next]_vars PROVE Inv'
  <2>1. CASE Worker
    BY <1>1, <2>1, WorkerInv
  <2>2. CASE Caller
    BY <1>1, <2>2, CallerInv
  <2>3. CASE UNCHANGED vars
    BY <1>1, <2>3 DEF Inv, TypeOK, Pool, WorkerHolds, CallerHolds, Queue, WorkerEnds,
                      CallerPlace, Gone, vars
  <2> QED
    BY <1>1, <2>1, <2>2, <2>3 DEF Next, Ended
<1> QED
  BY InitInv, <1>1, PTL DEF Spec

\* Type correctness, for every pool and range (pipeline.rs:89-151).
THEOREM TypeCorrect == Spec => []TypeOK
<1>1. Inv => TypeOK
  BY DEF Inv
<1> QED
  BY InvariantHolds, <1>1, PTL

\* Neither thread ever waits for room in a channel (pipeline.rs:109, 120).
THEOREM ChannelsNeverFull == Spec => []NeverFull
<1>1. Inv => NeverFull
  <2> SUFFICES ASSUME Inv PROVE NeverFull
    OBVIOUS
  <2>1. Len(pending) \in Nat
    BY LenProperties DEF Inv, TypeOK
  <2> QED
    BY <2>1 DEF Inv, TypeOK, Pool, WorkerHolds, CallerHolds, NeverFull, Gone
<1> QED
  BY InvariantHolds, <1>1, PTL

\* A caller that submitted the whole range is refused only after a panic
\* (pipeline.rs:122-132).
THEOREM NeverFalseAlarm == Spec => []NoFalseAlarm
<1>1. Inv => NoFalseAlarm
  BY DEF Inv, WorkerEnds, NoFalseAlarm
<1> QED
  BY InvariantHolds, <1>1, PTL

-----------------------------------------------------------------------------

\* A digest is reported only of the whole range, hashed once and in order,
\* whatever failed on the way (pipeline.rs:97-132).
THEOREM ImplementsRangeStream == Spec => InOrder
<1>1. Init => Stream!Init
  BY DEF Init, Stream!Init
<1>2. ASSUME Inv, [Next]_vars PROVE [Stream!Next]_(Stream!vars)
  <2> USE DEF Stream!Next, Stream!vars, workerVars, callerVars
  <2>0. Len(pending) \in Nat /\ Len(hashed) \in Nat
    BY <1>2, LenProperties DEF Inv, TypeOK
  <2>1. CASE Hash
    <3>1. answer = "none"
      BY <1>2, <2>1 DEF Hash, Inv, CallerPlace, Gone
    <3>2. Len(pending) > 0
      BY <1>2, <2>0, <2>1, EmptySeq DEF Hash, Inv, TypeOK
    <3>3. Len(hashed) < Total
      BY <1>2, <2>0, <2>1, <3>2 DEF Hash, Inv, TypeOK, Queue, Gone
    <3> QED
      BY <2>1, <3>1, <3>3 DEF Hash, Stream!Advance
  <2>2. CASE InputEnd \/ GiveBack
    BY <2>2 DEF InputEnd, GiveBack
  <2>3. CASE Buffer \/ Fill \/ Submit \/ LoopEnd
    BY <2>3 DEF Buffer, Fill, Submit, LoopEnd
  <2>4. CASE CloseInput \/ Drain \/ CloseFree
    BY <2>4 DEF CloseInput, Drain, CloseFree
  <2>5. CASE Join
    <3>1. answer = "none" /\ (worker = "ok" => Len(hashed) = Total)
      BY <1>2, <2>5 DEF Join, Inv, CallerPlace, WorkerEnds
    <3> QED
      BY <2>5, <3>1 DEF Join, Stream!Succeed, Stream!Refuse
  <2>6. CASE UNCHANGED vars
    BY <2>6 DEF vars
  <2> QED
    BY <1>2, <2>1, <2>2, <2>3, <2>4, <2>5, <2>6 DEF Next, Worker, Caller, Ended
<1> QED
  BY <1>1, <1>2, InvariantHolds, PTL DEF Spec, InOrder, Stream!Spec
=============================================================================
