-------------------------- MODULE ReadAheadProofs --------------------------
(***************************************************************************)
(* The read-ahead pipeline for every pool size and every range: it is type *)
(* correct, no thread waits for room in a channel, and it implements       *)
(* RangeStream.                                                            *)
(***************************************************************************)
EXTENDS ReadAhead, SequenceTheorems, TLAPS

USE PoolAssumption

\* The buffers in the hands of the worker and of the caller.
WorkerHolds == IF worker \in {"read", "send", "fail"} THEN 1 ELSE 0
CallerHolds == IF caller \in {"write", "recycle"} THEN 1 ELSE 0

\* The channels and the two threads never have more than the pool between them.
Pool == worker \notin Gone => free + Len(ready) + WorkerHolds + CallerHolds <= Buffers

\* The worker is one block ahead of `made' between reading and sending.
WorkerCounts == /\ worker \in {"take", "read"} => hashed = made
                /\ worker \in {"read", "send"} => made < Total
                /\ worker = "send" => hashed = made + 1

\* The caller has sent what it has taken, but for the block in its hands.
CallerCounts == /\ caller = "write" => Len(sent) = offset - 1
                /\ caller \in {"next", "recycle", "finish"} => Len(sent) = offset
                /\ caller = "finish" => offset = Total
                /\ caller # "end" <=> answer = "none"

\* The receiver of `ready' is dropped first, the loop's ends are intact.
Closing == /\ caller \in {"next", "write", "recycle"} => ends = {"ready", "recycle"}
           /\ "ready" \notin ends => ready = <<>>
           /\ "recycle" \notin ends => "ready" \notin ends

Inv == TypeOK /\ Pool /\ WorkerCounts /\ CallerCounts /\ Closing

-----------------------------------------------------------------------------

\* The initial state satisfies the invariant (ReadAhead::new).
LEMMA InitInv == Init => Inv
  BY EmptySeq DEF Init, Inv, TypeOK, Pool, WorkerHolds, CallerHolds, WorkerCounts,
                  CallerCounts, Closing, Gone

\* Every step of the worker thread preserves the invariant.
LEMMA WorkerInv == Inv /\ Worker => Inv'
<1> SUFFICES ASSUME Inv, Worker PROVE Inv'
  OBVIOUS
<1> USE DEF Inv, TypeOK, Pool, WorkerHolds, CallerHolds, WorkerCounts, CallerCounts,
            Closing, Gone, workerVars, callerVars
<1>0. Len(ready) \in Nat
  BY LenProperties
<1>1. CASE Take
  BY <1>0, <1>1 DEF Take
<1>2. CASE Read
  BY <1>0, <1>2 DEF Read
<1>3. CASE Send
  <2>1. /\ Append(ready, made) \in Seq({Err} \cup 0..Total)
        /\ Len(Append(ready, made)) = Len(ready) + 1
    BY AppendProperties
  <2>2. CASE "ready" \in ends
    <3>1. TypeOK'
      BY <1>0, <1>3, <2>1, <2>2 DEF Send
    <3>2. Pool'
      BY <1>0, <1>3, <2>1, <2>2 DEF Send
    <3>3. WorkerCounts'
      BY <1>0, <1>3, <2>1, <2>2 DEF Send
    <3>4. (CallerCounts /\ Closing)'
      BY <1>0, <1>3, <2>1, <2>2 DEF Send
    <3> QED
      BY <3>1, <3>2, <3>3, <3>4
  <2>3. CASE "ready" \notin ends
    BY <1>0, <1>3, <2>3 DEF Send
  <2> QED
    BY <2>2, <2>3
<1>4. CASE Report
  <2>1. /\ Append(ready, Err) \in Seq({Err} \cup 0..Total)
        /\ Len(Append(ready, Err)) = Len(ready) + 1
    BY AppendProperties
  <2> QED
    BY <1>0, <1>4, <2>1 DEF Report
<1>5. CASE WorkerEnd
  BY <1>0, <1>5 DEF WorkerEnd
<1> QED
  BY <1>1, <1>2, <1>3, <1>4, <1>5 DEF Worker

\* Every step of the USB thread preserves the invariant.
LEMMA CallerInv == Inv /\ Caller => Inv'
<1> SUFFICES ASSUME Inv, Caller PROVE Inv'
  OBVIOUS
<1> USE DEF Inv, TypeOK, Pool, WorkerHolds, CallerHolds, WorkerCounts, CallerCounts,
            Closing, Gone, workerVars, callerVars
<1>0. Len(ready) \in Nat /\ Len(sent) \in Nat
  BY LenProperties
<1>1. CASE NextBlock
  <2>1. CASE ready # <<>>
    <3>1. /\ Tail(ready) \in Seq({Err} \cup 0..Total)
          /\ Len(Tail(ready)) = Len(ready) - 1
      BY <2>1, HeadTailProperties
    <3>2. CASE Head(ready) = offset
      <4>1. TypeOK'
        <5>1. ready' \in Seq({Err} \cup 0..Total)
          BY <1>1, <2>1, <3>1 DEF NextBlock
        <5>2. offset' \in 0..Total
          BY <1>1, <2>1, <3>2 DEF NextBlock
        <5> QED
          BY <1>1, <2>1, <3>2, <5>1, <5>2 DEF NextBlock
      <4>2. Pool'
        BY <1>0, <1>1, <2>1, <3>1, <3>2 DEF NextBlock
      <4>3. WorkerCounts'
        BY <1>0, <1>1, <2>1, <3>1, <3>2 DEF NextBlock
      <4>4. (CallerCounts /\ Closing)'
        BY <1>0, <1>1, <2>1, <3>1, <3>2 DEF NextBlock
      <4> QED
        BY <4>1, <4>2, <4>3, <4>4
    <3>3. CASE Head(ready) # offset
      BY <1>0, <1>1, <2>1, <3>1, <3>3 DEF NextBlock
    <3> QED
      BY <3>2, <3>3
  <2>2. CASE ready = <<>>
    BY <1>0, <1>1, <2>2 DEF NextBlock
  <2> QED
    BY <2>1, <2>2
<1>2. CASE Write
  <2>1. caller = "write" => /\ offset - 1 \in 0..Total
                            /\ Append(sent, offset - 1) \in Seq(0..Total)
                            /\ Len(Append(sent, offset - 1)) = Len(sent) + 1
    BY <1>0, AppendProperties
  <2>2. CASE caller' = "recycle"
    <3>1. TypeOK'
      BY <1>0, <1>2, <2>1, <2>2 DEF Write
    <3>2. Pool'
      BY <1>0, <1>2, <2>1, <2>2 DEF Write
    <3>3. WorkerCounts'
      BY <1>0, <1>2, <2>1, <2>2 DEF Write
    <3>4. (CallerCounts /\ Closing)'
      BY <1>0, <1>2, <2>1, <2>2 DEF Write
    <3> QED
      BY <3>1, <3>2, <3>3, <3>4
  <2>3. CASE caller' = "drop"
    BY <1>0, <1>2, <2>3 DEF Write
  <2> QED
    BY <1>2, <2>2, <2>3 DEF Write
<1>3. CASE Recycle
  BY <1>0, <1>3 DEF Recycle
<1>4. CASE LoopEnd
  BY <1>0, <1>4 DEF LoopEnd
<1>5. CASE CloseReady
  BY <1>0, <1>5, EmptySeq DEF CloseReady
<1>6. CASE CloseRecycle
  BY <1>0, <1>6 DEF CloseRecycle
<1>7. CASE Join
  BY <1>0, <1>7 DEF Join
<1> QED
  BY <1>1, <1>2, <1>3, <1>4, <1>5, <1>6, <1>7 DEF Caller

\* The invariant holds in every reachable state.
THEOREM InvariantHolds == Spec => []Inv
<1>1. ASSUME Inv, [Next]_vars PROVE Inv'
  <2>1. CASE Worker
    BY <1>1, <2>1, WorkerInv
  <2>2. CASE Caller
    BY <1>1, <2>2, CallerInv
  <2>3. CASE UNCHANGED vars
    BY <1>1, <2>3 DEF Inv, TypeOK, Pool, WorkerHolds, CallerHolds, WorkerCounts,
                      CallerCounts, Closing, Gone, vars
  <2> QED
    BY <1>1, <2>1, <2>2, <2>3 DEF Next, Ended
<1> QED
  BY InitInv, <1>1, PTL DEF Spec

\* Type correctness, for every pool and range (pipeline.rs:28-80).
THEOREM TypeCorrect == Spec => []TypeOK
<1>1. Inv => TypeOK
  BY DEF Inv
<1> QED
  BY InvariantHolds, <1>1, PTL

\* Neither thread ever waits for room in a channel, so the two can only wait for
\* each other's work and never for each other's channel (pipeline.rs:50, 70).
THEOREM ChannelsNeverFull == Spec => []NeverFull
<1>1. Inv => NeverFull
  <2> SUFFICES ASSUME Inv PROVE NeverFull
    OBVIOUS
  <2>1. Len(ready) \in Nat
    BY LenProperties DEF Inv, TypeOK
  <2> QED
    BY <2>1 DEF Inv, TypeOK, Pool, WorkerHolds, CallerHolds, NeverFull, Gone
<1> QED
  BY InvariantHolds, <1>1, PTL

-----------------------------------------------------------------------------

\* A range the caller reports good was sent whole, once and in order, whatever
\* failed on the way (pipeline.rs:60-80, flash.rs:344-354).
THEOREM ImplementsRangeStream == Spec => InOrder
<1>1. Init => Stream!Init
  BY DEF Init, Stream!Init
<1>2. ASSUME Inv, [Next]_vars PROVE [Stream!Next]_(Stream!vars)
  <2> USE DEF Stream!Next, Stream!vars, workerVars, callerVars
  <2>1. CASE Worker
    BY <2>1 DEF Worker, Take, Read, Send, Report, WorkerEnd
  <2>2. CASE NextBlock
    BY <2>2 DEF NextBlock
  <2>3. CASE Write
    <3>1. caller = "write" /\ answer = "none" /\ Len(sent) = offset - 1 /\ offset <= Total
      BY <1>2, <2>3 DEF Write, Inv, CallerCounts, TypeOK
    <3>2. Len(sent) \in Nat /\ offset \in Nat
      BY <1>2, LenProperties DEF Inv, TypeOK
    <3> QED
      BY <2>3, <3>1, <3>2 DEF Write, Stream!Advance
  <2>4. CASE Recycle \/ LoopEnd \/ CloseReady \/ CloseRecycle
    BY <2>4 DEF Recycle, LoopEnd, CloseReady, CloseRecycle
  <2>5. CASE Join
    <3>1. answer = "none" /\ (caller = "finish" => Len(sent) = Total)
      BY <1>2, <2>5 DEF Join, Inv, CallerCounts
    <3> QED
      BY <2>5, <3>1 DEF Join, Stream!Succeed, Stream!Refuse
  <2>6. CASE UNCHANGED vars
    BY <2>6 DEF vars
  <2> QED
    BY <1>2, <2>1, <2>2, <2>3, <2>4, <2>5, <2>6 DEF Next, Caller, Ended
<1> QED
  BY <1>1, <1>2, InvariantHolds, PTL DEF Spec, InOrder, Stream!Spec
=============================================================================
