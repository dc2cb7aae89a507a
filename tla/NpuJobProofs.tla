---------------------------- MODULE NpuJobProofs ----------------------------
(***************************************************************************)
(* Proofs about NpuJob for every set of submitters.                        *)
(*                                                                         *)
(* That todo_list and the slot point to live jobs only is not inductive:   *)
(* it depends on which of the places a job can be in exclude each other,   *)
(* on what a submitter has already given up where it is, and on the number *)
(* of hardware submissions a job in each place still needs.  IInv collects *)
(* these facts.  That a job is not freed under the hardware's hands needs a *)
(* second invariant, RInv, about the jobs somebody has given up and the     *)
(* reset that is due for them.                                              *)
(***************************************************************************)
EXTENDS NpuJob, SequenceTheorems, TLAPS

\* A submitter of which nobody knows yet: its job has not been queued.
Fresh(j) == \/ pc[j] \in {"clean", "drop", "drain", "queue"}
            \/ mode = "async" /\ pc[j] \in {"reset", "resetting"}

\* A submitter that has given its job up, or has seen it done.
GivenUp(j) == \/ pc[j] \in {"abort", "free"}
              \/ mode = "block" /\ pc[j] \in {"reset", "resetting"}

\* The two ways to submit do not mix.
ModeOfPlace ==
  /\ mode = "block" => work = {}
  /\ \A j \in Jobs : /\ pc[j] \in {"clean", "drop", "drain"} => mode = "async"
                     /\ pc[j] \in {"wait", "unlink", "abort", "free"} => mode = "block"
                     /\ mode = "async" /\ pc[j] \in {"reset", "resetting", "drop"} =>
                          found[j] # NoJob

\* A queued job is nowhere else and has not been touched.
Waiting ==
  \A j \in Queued : /\ live[j] /\ left[j] >= 1 /\ ~committed[j] /\ ~done[j]
                    /\ slot # j /\ irqJob # j /\ j \notin work

\* Nothing points to a job that has not been queued.
FreshJobs ==
  \A j \in Jobs : Fresh(j) =>
    /\ live[j] /\ left[j] >= 1 /\ ~committed[j] /\ ~done[j]
    /\ j \notin Queued /\ slot # j /\ irqJob # j /\ j \notin work
    /\ \A k \in Jobs : found[k] # j

\* A job that was given up is off the list; only an interrupt that has begun
\* keeps it in the slot.
GivenUpJobs ==
  \A j \in Jobs : GivenUp(j) =>
    /\ j \notin Queued
    /\ pc[j] # "abort" /\ slot = j => entered[j]

\* A job that is done or about to be cleaned up has left the slot.
Finished ==
  /\ \A j \in Jobs : done[j] \/ j \in work => slot # j
  /\ slot # NoJob => left[slot] >= 1

\* The interrupt handler's job.
Handler ==
  /\ irqPc \in {"status", "done", "publish"} <=> irqJob # NoJob
  /\ irqPc \in {"status", "done"} => left[irqJob] >= 1
  /\ irqPc = "publish" => slot # irqJob

Distinct(list) == \A i, k \in DOMAIN list : i # k => list[i] # list[k]

IInv == /\ TypeOK /\ ModeOfPlace /\ Waiting /\ FreshJobs /\ GivenUpJobs
        /\ Finished /\ Handler /\ Distinct(todo) /\ SlotNotAbandoned

-----------------------------------------------------------------------------
(* Lists. *)

Elems(list) == {list[i] : i \in DOMAIN list}

\* What list_add_tail does to the elements of todo_list.
LEMMA AppendFacts ==
  ASSUME NEW S, NEW list \in Seq(S), NEW x \in S
  PROVE  /\ Append(list, x) \in Seq(S)
         /\ Elems(Append(list, x)) = Elems(list) \cup {x}
         /\ Distinct(list) /\ x \notin Elems(list) => Distinct(Append(list, x))
<1>1. /\ Append(list, x) \in Seq(S) /\ Len(Append(list, x)) = Len(list) + 1
      /\ \A i \in 1..Len(list) : Append(list, x)[i] = list[i]
      /\ Append(list, x)[Len(list) + 1] = x
  BY SMT
<1>2. DOMAIN list = 1..Len(list) /\ DOMAIN Append(list, x) = 1..(Len(list) + 1)
  BY <1>1, SMT
<1>3. Elems(Append(list, x)) = Elems(list) \cup {x}
  BY <1>1, <1>2, SMT DEF Elems
<1>4. ASSUME Distinct(list), x \notin Elems(list) PROVE Distinct(Append(list, x))
  BY <1>1, <1>2, <1>4, SMT DEF Elems, Distinct
<1> QED BY <1>1, <1>3, <1>4

\* What taking the first entry does.
LEMMA TailFacts ==
  ASSUME NEW S, NEW list \in Seq(S), list # <<>>
  PROVE  /\ Head(list) \in S /\ Tail(list) \in Seq(S)
         /\ Head(list) \in Elems(list) /\ Elems(Tail(list)) \subseteq Elems(list)
         /\ Distinct(list) => /\ Distinct(Tail(list))
                              /\ Head(list) \notin Elems(Tail(list))
<1>1. /\ Head(list) \in S /\ Tail(list) \in Seq(S) /\ Len(Tail(list)) = Len(list) - 1
      /\ \A i \in 1..Len(Tail(list)) : Tail(list)[i] = list[i + 1]
  BY HeadTailProperties
<1>2. /\ Len(list) \in Nat /\ Len(list) > 0 /\ Head(list) = list[1]
      /\ DOMAIN list = 1..Len(list) /\ DOMAIN Tail(list) = 1..(Len(list) - 1)
  BY <1>1, SMT
<1>3. Head(list) \in Elems(list) /\ Elems(Tail(list)) \subseteq Elems(list)
  BY <1>1, <1>2, SMT DEF Elems
<1>4. ASSUME Distinct(list)
      PROVE  Distinct(Tail(list)) /\ Head(list) \notin Elems(Tail(list))
  BY <1>1, <1>2, <1>4, SMT DEF Elems, Distinct
<1> QED BY <1>1, <1>3, <1>4

\* What list_del does.
LEMMA ListDelFacts ==
  ASSUME NEW S, NEW list \in Seq(S), NEW x
  PROVE  /\ ListDel(list, x) \in Seq(S)
         /\ Elems(ListDel(list, x)) \subseteq Elems(list)
         /\ Distinct(list) => /\ Distinct(ListDel(list, x))
                              /\ x \notin Elems(ListDel(list, x))
<1>1. CASE ~(\E i \in DOMAIN list : list[i] = x)
  BY <1>1 DEF ListDel, Elems
<1>2. CASE \E i \in DOMAIN list : list[i] = x
  <2>1. PICK p : p = CHOOSE k \in DOMAIN list : list[k] = x
    OBVIOUS
  <2>2. p \in DOMAIN list /\ list[p] = x
    BY <1>2, <2>1
  <2>3. /\ DOMAIN list = 1..Len(list) /\ Len(list) \in Nat /\ p \in 1..Len(list)
        /\ \A i \in DOMAIN list : list[i] \in S
    BY <2>2, SMT
  <2>4. PICK cut : cut = [i \in 1..(Len(list) - 1) |-> list[IF i < p THEN i ELSE i + 1]]
    OBVIOUS
  <2>5. ListDel(list, x) = cut
    BY <1>2, <2>1, <2>4 DEF ListDel
  <2>6. /\ DOMAIN cut = 1..(Len(list) - 1) /\ Len(list) - 1 \in Nat
        /\ \A i \in DOMAIN cut : cut[i] = list[IF i < p THEN i ELSE i + 1]
    BY <2>3, <2>4, SMT
  <2>7. /\ \A i \in DOMAIN cut : /\ (IF i < p THEN i ELSE i + 1) \in DOMAIN list
                                 /\ (IF i < p THEN i ELSE i + 1) # p
        /\ \A i, k \in DOMAIN cut :
             i # k => (IF i < p THEN i ELSE i + 1) # (IF k < p THEN k ELSE k + 1)
    BY <2>3, <2>6, SMT
  <2>8. Elems(cut) \subseteq Elems(list) /\ \A i \in DOMAIN cut : cut[i] \in S
    BY <2>3, <2>6, <2>7 DEF Elems
  <2>9. cut \in Seq(S)
    BY <2>3, <2>4, <2>6, <2>8, SMT
  <2>10. ASSUME Distinct(list) PROVE Distinct(cut) /\ x \notin Elems(cut)
    <3>1. Distinct(cut)
      BY <2>6, <2>7, <2>10 DEF Distinct
    <3>2. x \notin Elems(cut)
      BY <2>2, <2>6, <2>7, <2>10 DEF Distinct, Elems
    <3> QED BY <3>1, <3>2
  <2> QED BY <2>5, <2>8, <2>9, <2>10
<1> QED BY <1>1, <1>2


-----------------------------------------------------------------------------
(* Every step keeps the invariant. *)

\* What rknpu_job_next does when it takes a job.
Taken(h) == /\ h \in Queued /\ h \notin Queued' /\ Queued' \subseteq Queued
            /\ todo' \in Seq(Jobs) /\ Distinct(todo')
            /\ slot = NoJob /\ slot' = h
            /\ committed' = [committed EXCEPT ![h] = TRUE]
            /\ run' = run \cup {h} /\ irq' = "none"

NotTaken == /\ UNCHANGED <<todo, slot, committed, run, irq>>
            /\ Queued' = Queued /\ Distinct(todo')

\* rknpu_job_next takes the head of the list or does nothing.
LEMMA JobNextFacts ==
  ASSUME TypeOK, Distinct(todo), JobNext
  PROVE  NotTaken \/ \E h \in Jobs : Taken(h)
<1>1. CASE softReseting \/ slot # NoJob \/ todo = <<>>
  BY <1>1 DEF JobNext, NotTaken, queueVars, hwVars, Queued
<1>2. CASE ~(softReseting \/ slot # NoJob \/ todo = <<>>)
  <2>1. /\ todo \in Seq(Jobs) /\ todo # <<>> /\ slot = NoJob /\ slot' = Head(todo)
        /\ todo' = Tail(todo) /\ committed' = [committed EXCEPT ![Head(todo)] = TRUE]
        /\ run' = run \cup {Head(todo)} /\ irq' = "none"
    BY <1>2 DEF JobNext, Commit, TypeOK
  <2>2. /\ Head(todo) \in Jobs /\ Head(todo) \in Queued /\ Head(todo) \notin Queued'
        /\ Queued' \subseteq Queued /\ todo' \in Seq(Jobs) /\ Distinct(todo')
    BY <2>1, TailFacts DEF Queued, Elems
  <2>3. Taken(Head(todo))
    BY <2>1, <2>2 DEF Taken
  <2> QED BY <2>2, <2>3
<1> QED BY <1>1, <1>2

\* todo_list holds jobs.
LEMMA QueuedJobs == TypeOK => Queued \subseteq Jobs
<1> SUFFICES ASSUME TypeOK, NEW i \in DOMAIN todo PROVE todo[i] \in Jobs
  BY DEF Queued
<1> QED BY SMT DEF TypeOK

\* A new job is nowhere yet: its name was free.
LEMMA SubmitStep == ASSUME IInv, NEW j \in Jobs, Submit(j) PROVE IInv'
<1> USE JobAssumption DEF Submit, PointedTo, Goto, queueVars, hwVars, irqVars, resetVars
<1>1. todo' = todo /\ Queued' = Queued /\ Distinct(todo')
  BY DEF IInv, Queued
<1>2. TypeOK' BY <1>1, SMT DEF IInv, TypeOK, Pcs
<1>3. ModeOfPlace' BY <1>1, SMT DEF IInv, ModeOfPlace
<1>4. Waiting' BY <1>1, SMT DEF IInv, Waiting
<1>5. FreshJobs' BY <1>1, SMT DEF IInv, TypeOK, FreshJobs, Fresh
<1>6. GivenUpJobs' BY <1>1, SMT DEF IInv, GivenUpJobs, GivenUp
<1>7. Finished' BY <1>1, SMT DEF IInv, Finished
<1>8. Handler' BY <1>1, SMT DEF IInv, Handler
<1>9. SlotNotAbandoned' BY <1>1, SMT DEF IInv, SlotNotAbandoned
<1> QED BY <1>1, <1>2, <1>3, <1>4, <1>5, <1>6, <1>7, <1>8, <1>9 DEF IInv

\* rknpu_job_schedule queues a job that was on no list.
LEMMA ScheduleStep == ASSUME IInv, NEW j \in Jobs, Schedule(j) PROVE IInv'
<1> USE JobAssumption DEF Schedule, Goto, jobVars, hwVars, irqVars, resetVars
<1>1. /\ todo' \in Seq(Jobs) /\ Queued' = Queued \cup {j} /\ Distinct(todo')
  <2>1. /\ todo \in Seq(Jobs) /\ Distinct(todo) /\ todo' = Append(todo, j)
        /\ j \notin Elems(todo)
    BY DEF IInv, TypeOK, FreshJobs, Fresh, Queued, Elems
  <2> QED BY <2>1, AppendFacts DEF Queued, Elems
<1>2. TypeOK' BY <1>1, SMT DEF IInv, TypeOK, Pcs
<1>3. ModeOfPlace' BY <1>1, SMT DEF IInv, ModeOfPlace
<1>4. Waiting' BY <1>1, SMT DEF IInv, Waiting, FreshJobs, Fresh
<1>5. FreshJobs' BY <1>1, SMT DEF IInv, TypeOK, FreshJobs, Fresh
<1>6. GivenUpJobs' BY <1>1, SMT DEF IInv, GivenUpJobs, GivenUp
<1>7. Finished' BY <1>1, SMT DEF IInv, Finished
<1>8. Handler' BY <1>1, SMT DEF IInv, Handler
<1>9. SlotNotAbandoned' BY <1>1, SMT DEF IInv, SlotNotAbandoned
<1> QED BY <1>1, <1>2, <1>3, <1>4, <1>5, <1>6, <1>7, <1>8, <1>9 DEF IInv

\* rknpu_job_next in the submitter: the job it takes was on the list and nowhere else.
LEMMA ScheduleNextStep == ASSUME IInv, NEW j \in Jobs, ScheduleNext(j) PROVE IInv'
<1> USE JobAssumption DEF ScheduleNext, Goto, irqVars, resetVars
<1>1. NotTaken \/ \E h \in Jobs : Taken(h)
  BY JobNextFacts DEF IInv
<1>2. CASE NotTaken
  <2>1. TypeOK' BY <1>2, SMT DEF IInv, TypeOK, Pcs, NotTaken
  <2>2. ModeOfPlace' BY <1>2, SMT DEF IInv, TypeOK, ModeOfPlace, NotTaken
  <2>3. Waiting' BY <1>2, SMT DEF IInv, Waiting, NotTaken
  <2>4. FreshJobs' BY <1>2, SMT DEF IInv, FreshJobs, Fresh, NotTaken
  <2>5. GivenUpJobs' BY <1>2, SMT DEF IInv, GivenUpJobs, GivenUp, NotTaken
  <2>6. Finished' BY <1>2, SMT DEF IInv, Finished, NotTaken
  <2>7. Handler' BY <1>2, SMT DEF IInv, Handler, NotTaken
  <2>8. SlotNotAbandoned' BY <1>2, SMT DEF IInv, SlotNotAbandoned, NotTaken
  <2> QED BY <1>2, <2>1, <2>2, <2>3, <2>4, <2>5, <2>6, <2>7, <2>8 DEF IInv, NotTaken
<1>3. ASSUME NEW h \in Jobs, Taken(h) PROVE IInv'
  <2>1. TypeOK' BY <1>3, SMT DEF IInv, TypeOK, Pcs, Taken
  <2>2. ModeOfPlace' BY <1>3, SMT DEF IInv, TypeOK, ModeOfPlace, Taken
  <2>3. Waiting' BY <1>3, SMT DEF IInv, Waiting, Taken
  <2>4. FreshJobs' BY <1>3, SMT DEF IInv, FreshJobs, Fresh, Taken
  <2>5. GivenUpJobs' BY <1>3, SMT DEF IInv, GivenUpJobs, GivenUp, Taken
  <2>6. Finished' BY <1>3, SMT DEF IInv, Waiting, Finished, Taken
  <2>7. Handler' BY <1>3, SMT DEF IInv, Waiting, Handler, Taken
  <2>8. SlotNotAbandoned' BY <1>3, SMT DEF IInv, Waiting, SlotNotAbandoned, Taken
  <2> QED BY <1>3, <2>1, <2>2, <2>3, <2>4, <2>5, <2>6, <2>7, <2>8 DEF IInv, Taken
<1> QED BY <1>1, <1>2, <1>3

\* The end of a wait, by the job or by a reset.
LEMMA WokenStep == ASSUME IInv, NEW j \in Jobs, Woken(j) PROVE IInv'
<1> USE JobAssumption DEF Woken, EndWait, Goto, jobVars, queueVars, hwVars,
      irqVars, resetVars
<1>1. todo' = todo /\ Queued' = Queued /\ Distinct(todo')
  BY DEF IInv, Queued
<1>2. CASE /\ done[j] /\ pc' = [pc EXCEPT ![j] = "free"] /\ ret' = ret
           /\ round' = [round EXCEPT ![j] = 0]
  <2>1. TypeOK' BY <1>1, <1>2, SMT DEF IInv, TypeOK, Pcs
  <2>2. ModeOfPlace' BY <1>1, <1>2, SMT DEF IInv, ModeOfPlace
  <2>3. Waiting' BY <1>1, <1>2, SMT DEF IInv, Waiting
  <2>4. FreshJobs' BY <1>1, <1>2, SMT DEF IInv, FreshJobs, Fresh
  <2>5. GivenUpJobs'
    BY <1>1, <1>2, SMT DEF IInv, Waiting, GivenUpJobs, GivenUp, Finished
  <2>6. Finished' BY <1>1, <1>2, SMT DEF IInv, Finished
  <2>7. Handler' BY <1>1, <1>2, SMT DEF IInv, Handler
  <2>8. SlotNotAbandoned' BY <1>1, <1>2, SMT DEF IInv, SlotNotAbandoned
  <2> QED BY <1>1, <2>1, <2>2, <2>3, <2>4, <2>5, <2>6, <2>7, <2>8 DEF IInv
<1>3. CASE /\ committed[j] /\ pc' = [pc EXCEPT ![j] = "abort"]
           /\ ret' = [ret EXCEPT ![j] = "reset"] /\ round' = [round EXCEPT ![j] = 0]
  <2>1. TypeOK' BY <1>1, <1>3, SMT DEF IInv, TypeOK, Pcs
  <2>2. ModeOfPlace' BY <1>1, <1>3, SMT DEF IInv, ModeOfPlace
  <2>3. Waiting' BY <1>1, <1>3, SMT DEF IInv, Waiting
  <2>4. FreshJobs' BY <1>1, <1>3, SMT DEF IInv, FreshJobs, Fresh
  <2>5. GivenUpJobs' BY <1>1, <1>3, SMT DEF IInv, Waiting, GivenUpJobs, GivenUp
  <2>6. Finished' BY <1>1, <1>3, SMT DEF IInv, Finished
  <2>7. Handler' BY <1>1, <1>3, SMT DEF IInv, Handler
  <2>8. SlotNotAbandoned' BY <1>1, <1>3, SMT DEF IInv, SlotNotAbandoned
  <2> QED BY <1>1, <2>1, <2>2, <2>3, <2>4, <2>5, <2>6, <2>7, <2>8 DEF IInv
<1>4. CASE /\ pc' = [pc EXCEPT ![j] = "unlink"]
           /\ ret' = [ret EXCEPT ![j] = "not_committed"]
           /\ round' = [round EXCEPT ![j] = 0]
  <2>1. TypeOK' BY <1>1, <1>4, SMT DEF IInv, TypeOK, Pcs
  <2>2. ModeOfPlace' BY <1>1, <1>4, SMT DEF IInv, ModeOfPlace
  <2>3. Waiting' BY <1>1, <1>4, SMT DEF IInv, Waiting
  <2>4. FreshJobs' BY <1>1, <1>4, SMT DEF IInv, FreshJobs, Fresh
  <2>5. GivenUpJobs' BY <1>1, <1>4, SMT DEF IInv, GivenUpJobs, GivenUp
  <2>6. Finished' BY <1>1, <1>4, SMT DEF IInv, Finished
  <2>7. Handler' BY <1>1, <1>4, SMT DEF IInv, Handler
  <2>8. SlotNotAbandoned' BY <1>1, <1>4, SMT DEF IInv, SlotNotAbandoned
  <2> QED BY <1>1, <2>1, <2>2, <2>3, <2>4, <2>5, <2>6, <2>7, <2>8 DEF IInv
<1> QED BY <1>2, <1>3, <1>4

\* The end of a round or of the wait.
LEMMA TimedOutStep == ASSUME IInv, NEW j \in Jobs, TimedOut(j) PROVE IInv'
<1> USE JobAssumption DEF TimedOut, EndWait, Goto, jobVars, queueVars, hwVars,
      irqVars, resetVars
<1>1. todo' = todo /\ Queued' = Queued /\ Distinct(todo')
  BY DEF IInv, Queued
<1>2. CASE /\ pc' = pc /\ ret' = ret /\ round[j] + 1 < Rounds
           /\ round' = [round EXCEPT ![j] = round[j] + 1]
  <2>1. TypeOK' BY <1>1, <1>2, SMT DEF IInv, TypeOK, Pcs
  <2>2. ModeOfPlace' BY <1>1, <1>2, SMT DEF IInv, ModeOfPlace
  <2>3. Waiting' BY <1>1, <1>2, SMT DEF IInv, Waiting
  <2>4. FreshJobs' BY <1>1, <1>2, SMT DEF IInv, FreshJobs, Fresh
  <2>5. GivenUpJobs' BY <1>1, <1>2, SMT DEF IInv, GivenUpJobs, GivenUp
  <2>6. Finished' BY <1>1, <1>2, SMT DEF IInv, Finished
  <2>7. Handler' BY <1>1, <1>2, SMT DEF IInv, Handler
  <2>8. SlotNotAbandoned' BY <1>1, <1>2, SMT DEF IInv, SlotNotAbandoned
  <2> QED BY <1>1, <2>1, <2>2, <2>3, <2>4, <2>5, <2>6, <2>7, <2>8 DEF IInv
<1>3. CASE /\ committed[j] /\ pc' = [pc EXCEPT ![j] = "abort"]
           /\ ret' = [ret EXCEPT ![j] = "timeout"]
           /\ round' = [round EXCEPT ![j] = 0]
  <2>1. TypeOK' BY <1>1, <1>3, SMT DEF IInv, TypeOK, Pcs
  <2>2. ModeOfPlace' BY <1>1, <1>3, SMT DEF IInv, ModeOfPlace
  <2>3. Waiting' BY <1>1, <1>3, SMT DEF IInv, Waiting
  <2>4. FreshJobs' BY <1>1, <1>3, SMT DEF IInv, FreshJobs, Fresh
  <2>5. GivenUpJobs' BY <1>1, <1>3, SMT DEF IInv, Waiting, GivenUpJobs, GivenUp
  <2>6. Finished' BY <1>1, <1>3, SMT DEF IInv, Finished
  <2>7. Handler' BY <1>1, <1>3, SMT DEF IInv, Handler
  <2>8. SlotNotAbandoned' BY <1>1, <1>3, SMT DEF IInv, SlotNotAbandoned
  <2> QED BY <1>1, <2>1, <2>2, <2>3, <2>4, <2>5, <2>6, <2>7, <2>8 DEF IInv
<1>4. CASE /\ pc' = [pc EXCEPT ![j] = "unlink"]
           /\ ret' = [ret EXCEPT ![j] = "not_committed"]
           /\ round' = [round EXCEPT ![j] = 0]
  <2>1. TypeOK' BY <1>1, <1>4, SMT DEF IInv, TypeOK, Pcs
  <2>2. ModeOfPlace' BY <1>1, <1>4, SMT DEF IInv, ModeOfPlace
  <2>3. Waiting' BY <1>1, <1>4, SMT DEF IInv, Waiting
  <2>4. FreshJobs' BY <1>1, <1>4, SMT DEF IInv, FreshJobs, Fresh
  <2>5. GivenUpJobs' BY <1>1, <1>4, SMT DEF IInv, GivenUpJobs, GivenUp
  <2>6. Finished' BY <1>1, <1>4, SMT DEF IInv, Finished
  <2>7. Handler' BY <1>1, <1>4, SMT DEF IInv, Handler
  <2>8. SlotNotAbandoned' BY <1>1, <1>4, SMT DEF IInv, SlotNotAbandoned
  <2> QED BY <1>1, <2>1, <2>2, <2>3, <2>4, <2>5, <2>6, <2>7, <2>8 DEF IInv
<1> QED BY <1>2, <1>3, <1>4

\* A job that was never committed leaves the list before it is given up.
LEMMA UnlinkStep == ASSUME IInv, NEW j \in Jobs, Unlink(j) PROVE IInv'
<1> USE JobAssumption DEF Unlink, Goto, jobVars, hwVars, irqVars, resetVars
<1>1. /\ todo' \in Seq(Jobs) /\ Queued' \subseteq Queued /\ j \notin Queued'
      /\ Distinct(todo')
  <2>1. todo \in Seq(Jobs) /\ Distinct(todo) /\ todo' = ListDel(todo, j)
    <3>1. todo' = ListDel(todo, j)
      OBVIOUS
    <3> QED BY <3>1 DEF IInv, TypeOK
  <2>2. /\ todo' \in Seq(Jobs) /\ Elems(todo') \subseteq Elems(todo) /\ Distinct(todo')
        /\ j \notin Elems(todo')
    BY <2>1, ListDelFacts
  <2> QED BY <2>2 DEF Queued, Elems
<1>2. TypeOK' BY <1>1, SMT DEF IInv, TypeOK, Pcs
<1>3. ModeOfPlace' BY <1>1, SMT DEF IInv, ModeOfPlace
<1>4. Waiting' BY <1>1, SMT DEF IInv, Waiting
<1>5. FreshJobs' BY <1>1, SMT DEF IInv, FreshJobs, Fresh
<1>6. GivenUpJobs' BY <1>1, SMT DEF IInv, GivenUpJobs, GivenUp
<1>7. Finished' BY <1>1, SMT DEF IInv, Finished
<1>8. Handler' BY <1>1, SMT DEF IInv, Handler
<1>9. SlotNotAbandoned' BY <1>1, SMT DEF IInv, SlotNotAbandoned
<1> QED BY <1>1, <1>2, <1>3, <1>4, <1>5, <1>6, <1>7, <1>8, <1>9 DEF IInv

\* The abort clears the slot unless the interrupt handler has entered.
LEMMA AbortStep == ASSUME IInv, NEW j \in Jobs, Abort(j) PROVE IInv'
<1> USE JobAssumption DEF Abort, Goto, jobVars, hwVars, irqVars, resetVars
<1>1. todo' = todo /\ Queued' = Queued /\ Distinct(todo')
  BY DEF IInv, Queued
<1>2. TypeOK' BY <1>1, SMT DEF IInv, TypeOK, Pcs
<1>3. ModeOfPlace' BY <1>1, SMT DEF IInv, ModeOfPlace
<1>4. Waiting'
  <2> SUFFICES ASSUME NEW k \in Queued'
               PROVE  /\ live'[k] /\ left'[k] >= 1 /\ ~committed'[k] /\ ~done'[k]
                      /\ slot' # k /\ irqJob' # k /\ k \notin work'
    BY DEF Waiting
  <2>1. k \in Queued /\ k \in Jobs
    BY <1>1, QueuedJobs DEF IInv
  <2>2. live'[k] /\ left'[k] >= 1 /\ irqJob' # k
    BY <1>1, <2>1, SMT DEF IInv, Waiting
  <2>3. ~committed'[k] /\ ~done'[k]
    BY <1>1, <2>1, SMT DEF IInv, Waiting
  <2>4. slot' # k /\ k \notin work'
    BY <1>1, <2>1, SMT DEF IInv, Waiting
  <2> QED BY <2>2, <2>3, <2>4
<1>5. FreshJobs' BY <1>1, SMT DEF IInv, ModeOfPlace, FreshJobs, Fresh
<1>6. GivenUpJobs' BY <1>1, SMT DEF IInv, GivenUpJobs, GivenUp
<1>7. Finished' BY <1>1, SMT DEF IInv, Finished
<1>8. Handler' BY <1>1, SMT DEF IInv, Handler
<1>9. SlotNotAbandoned' BY <1>1, SMT DEF IInv, SlotNotAbandoned
<1> QED BY <1>1, <1>2, <1>3, <1>4, <1>5, <1>6, <1>7, <1>8, <1>9 DEF IInv

\* The submitter frees a job that is off the list.
LEMMA FreeStep == ASSUME IInv, NEW j \in Jobs, Free(j) PROVE IInv'
<1> USE JobAssumption DEF Free, Goto, jobVars, queueVars, hwVars, irqVars, resetVars
<1>1. todo' = todo /\ Queued' = Queued /\ Distinct(todo')
  BY DEF IInv, Queued
<1>2. TypeOK' BY <1>1, SMT DEF IInv, TypeOK, Pcs
<1>3. ModeOfPlace' BY <1>1, SMT DEF IInv, ModeOfPlace
<1>4. Waiting' BY <1>1, SMT DEF IInv, Waiting, GivenUpJobs, GivenUp
<1>5. FreshJobs' BY <1>1, SMT DEF IInv, FreshJobs, Fresh
<1>6. GivenUpJobs' BY <1>1, SMT DEF IInv, GivenUpJobs, GivenUp
<1>7. Finished' BY <1>1, SMT DEF IInv, Finished
<1>8. Handler' BY <1>1, SMT DEF IInv, Handler
<1>9. SlotNotAbandoned'
  BY <1>1, SMT DEF IInv, GivenUpJobs, GivenUp, SlotNotAbandoned
<1> QED BY <1>1, <1>2, <1>3, <1>4, <1>5, <1>6, <1>7, <1>8, <1>9 DEF IInv

\* The decision to reset, or not to.
LEMMA ResetStep == ASSUME IInv, NEW j \in Jobs, Reset(j) PROVE IInv'
<1> USE JobAssumption DEF Reset, AfterReset, Goto, jobVars, queueVars, hwVars,
      irqVars, resetVars
<1>1. todo' = todo /\ Queued' = Queued /\ Distinct(todo')
  BY DEF IInv, Queued
<1>2. CASE /\ mode = "async" /\ pc' = [pc EXCEPT ![j] = "drop"]
           /\ softReseting' = softReseting /\ resetter' = resetter
  <2>1. TypeOK' BY <1>1, <1>2, SMT DEF IInv, TypeOK, Pcs
  <2>2. ModeOfPlace' BY <1>1, <1>2, SMT DEF IInv, ModeOfPlace
  <2>3. Waiting' BY <1>1, <1>2, SMT DEF IInv, Waiting
  <2>4. FreshJobs' BY <1>1, <1>2, SMT DEF IInv, FreshJobs, Fresh
  <2>5. GivenUpJobs' BY <1>1, <1>2, SMT DEF IInv, GivenUpJobs, GivenUp
  <2>6. Finished' BY <1>1, <1>2, SMT DEF IInv, Finished
  <2>7. Handler' BY <1>1, <1>2, SMT DEF IInv, Handler
  <2>8. SlotNotAbandoned' BY <1>1, <1>2, SMT DEF IInv, SlotNotAbandoned
  <2> QED BY <1>1, <2>1, <2>2, <2>3, <2>4, <2>5, <2>6, <2>7, <2>8 DEF IInv
<1>3. CASE /\ mode # "async" /\ pc' = [pc EXCEPT ![j] = "free"]
           /\ softReseting' = softReseting /\ resetter' = resetter
  <2>1. TypeOK' BY <1>1, <1>3, SMT DEF IInv, TypeOK, Pcs
  <2>2. ModeOfPlace' BY <1>1, <1>3, SMT DEF IInv, TypeOK, ModeOfPlace
  <2>3. Waiting' BY <1>1, <1>3, SMT DEF IInv, Waiting
  <2>4. FreshJobs' BY <1>1, <1>3, SMT DEF IInv, FreshJobs, Fresh
  <2>5. GivenUpJobs' BY <1>1, <1>3, SMT DEF IInv, TypeOK, GivenUpJobs, GivenUp
  <2>6. Finished' BY <1>1, <1>3, SMT DEF IInv, Finished
  <2>7. Handler' BY <1>1, <1>3, SMT DEF IInv, Handler
  <2>8. SlotNotAbandoned' BY <1>1, <1>3, SMT DEF IInv, SlotNotAbandoned
  <2> QED BY <1>1, <2>1, <2>2, <2>3, <2>4, <2>5, <2>6, <2>7, <2>8 DEF IInv
<1>4. CASE /\ pc' = [pc EXCEPT ![j] = "resetting"] /\ resetter = NoJob
           /\ resetter' = j /\ softReseting' = TRUE
  <2>1. TypeOK' BY <1>1, <1>4, SMT DEF IInv, TypeOK, Pcs
  <2>2. ModeOfPlace' BY <1>1, <1>4, SMT DEF IInv, ModeOfPlace
  <2>3. Waiting' BY <1>1, <1>4, SMT DEF IInv, Waiting
  <2>4. FreshJobs' BY <1>1, <1>4, SMT DEF IInv, FreshJobs, Fresh
  <2>5. GivenUpJobs' BY <1>1, <1>4, SMT DEF IInv, GivenUpJobs, GivenUp
  <2>6. Finished' BY <1>1, <1>4, SMT DEF IInv, Finished
  <2>7. Handler' BY <1>1, <1>4, SMT DEF IInv, Handler
  <2>8. SlotNotAbandoned' BY <1>1, <1>4, SMT DEF IInv, SlotNotAbandoned
  <2> QED BY <1>1, <2>1, <2>2, <2>3, <2>4, <2>5, <2>6, <2>7, <2>8 DEF IInv
<1> QED BY <1>2, <1>3, <1>4

\* The end of a reset touches the hardware and the lock only.
LEMMA PulseResetStep ==
  ASSUME IInv, NEW a \in Jobs \cup {Debugger}, PulseReset(a)
  PROVE  IInv'
<1> USE JobAssumption DEF PulseReset, AfterReset, Goto, jobVars, queueVars, hwVars,
      irqVars
<1>1. todo' = todo /\ Queued' = Queued /\ Distinct(todo')
  BY DEF IInv, Queued
<1>2. CASE /\ a \in Jobs /\ mode = "async" /\ pc' = [pc EXCEPT ![a] = "drop"]
           /\ resetter' = NoJob
  <2>1. TypeOK'
    <3>1. softReseting' \in BOOLEAN
      <4>1. softReseting' \in {FALSE, softReseting}
        BY DEF IInv, TypeOK
      <4> QED BY <4>1 DEF IInv, TypeOK
    <3> QED BY <1>1, <1>2, <3>1, SMT DEF IInv, TypeOK, Pcs
  <2>2. ModeOfPlace' BY <1>1, <1>2, SMT DEF IInv, TypeOK, ModeOfPlace
  <2>3. Waiting' BY <1>1, <1>2, SMT DEF IInv, Waiting
  <2>4. FreshJobs' BY <1>1, <1>2, SMT DEF IInv, TypeOK, FreshJobs, Fresh
  <2>5. GivenUpJobs' BY <1>1, <1>2, SMT DEF IInv, GivenUpJobs, GivenUp
  <2>6. Finished' BY <1>1, <1>2, SMT DEF IInv, Finished
  <2>7. Handler' BY <1>1, <1>2, SMT DEF IInv, Handler
  <2>8. SlotNotAbandoned' BY <1>1, <1>2, SMT DEF IInv, SlotNotAbandoned
  <2> QED BY <1>1, <2>1, <2>2, <2>3, <2>4, <2>5, <2>6, <2>7, <2>8 DEF IInv
<1>3. CASE /\ a \in Jobs /\ mode # "async" /\ pc' = [pc EXCEPT ![a] = "free"]
           /\ resetter' = NoJob
  <2>1. TypeOK'
    <3>1. softReseting' \in BOOLEAN
      <4>1. softReseting' \in {FALSE, softReseting}
        BY DEF IInv, TypeOK
      <4> QED BY <4>1 DEF IInv, TypeOK
    <3> QED BY <1>1, <1>3, <3>1, SMT DEF IInv, TypeOK, Pcs
  <2>2. ModeOfPlace' BY <1>1, <1>3, SMT DEF IInv, TypeOK, ModeOfPlace
  <2>3. Waiting' BY <1>1, <1>3, SMT DEF IInv, Waiting
  <2>4. FreshJobs' BY <1>1, <1>3, SMT DEF IInv, FreshJobs, Fresh
  <2>5. GivenUpJobs' BY <1>1, <1>3, SMT DEF IInv, TypeOK, GivenUpJobs, GivenUp
  <2>6. Finished' BY <1>1, <1>3, SMT DEF IInv, Finished
  <2>7. Handler' BY <1>1, <1>3, SMT DEF IInv, Handler
  <2>8. SlotNotAbandoned' BY <1>1, <1>3, SMT DEF IInv, SlotNotAbandoned
  <2> QED BY <1>1, <2>1, <2>2, <2>3, <2>4, <2>5, <2>6, <2>7, <2>8 DEF IInv
<1>4. CASE a \notin Jobs /\ pc' = pc /\ resetter' = NoJob
  <2>1. TypeOK'
    <3>1. softReseting' \in BOOLEAN
      <4>1. softReseting' \in {FALSE, softReseting}
        BY DEF IInv, TypeOK
      <4> QED BY <4>1 DEF IInv, TypeOK
    <3> QED BY <1>1, <1>4, <3>1, SMT DEF IInv, TypeOK, Pcs
  <2>2. ModeOfPlace' BY <1>1, <1>4, SMT DEF IInv, ModeOfPlace
  <2>3. Waiting' BY <1>1, <1>4, SMT DEF IInv, Waiting
  <2>4. FreshJobs' BY <1>1, <1>4, SMT DEF IInv, FreshJobs, Fresh
  <2>5. GivenUpJobs' BY <1>1, <1>4, SMT DEF IInv, GivenUpJobs, GivenUp
  <2>6. Finished' BY <1>1, <1>4, SMT DEF IInv, Finished
  <2>7. Handler' BY <1>1, <1>4, SMT DEF IInv, Handler
  <2>8. SlotNotAbandoned' BY <1>1, <1>4, SMT DEF IInv, SlotNotAbandoned
  <2> QED BY <1>1, <2>1, <2>2, <2>3, <2>4, <2>5, <2>6, <2>7, <2>8 DEF IInv
<1> QED BY <1>2, <1>3, <1>4 DEF resetVars

\* A reset from debugfs.
LEMMA DebugResetStep == ASSUME IInv, DebugReset PROVE IInv'
<1> USE JobAssumption DEF DebugReset, threadVars, jobVars, queueVars, hwVars, irqVars
<1>1. todo' = todo /\ Queued' = Queued /\ Distinct(todo')
  BY DEF IInv, Queued
<1>2. TypeOK' BY <1>1, SMT DEF IInv, TypeOK, Pcs
<1>3. ModeOfPlace' BY <1>1, SMT DEF IInv, ModeOfPlace
<1>4. Waiting' BY <1>1, SMT DEF IInv, Waiting
<1>5. FreshJobs' BY <1>1, SMT DEF IInv, FreshJobs, Fresh
<1>6. GivenUpJobs' BY <1>1, SMT DEF IInv, GivenUpJobs, GivenUp
<1>7. Finished' BY <1>1, SMT DEF IInv, Finished
<1>8. Handler' BY <1>1, SMT DEF IInv, Handler
<1>9. SlotNotAbandoned' BY <1>1, SMT DEF IInv, SlotNotAbandoned
<1> QED BY <1>1, <1>2, <1>3, <1>4, <1>5, <1>6, <1>7, <1>8, <1>9 DEF IInv

\* timeout_clean with nothing to do.
LEMMA CleanNothingStep == ASSUME IInv, NEW j \in Jobs, CleanNothing(j) PROVE IInv'
<1> USE JobAssumption DEF CleanNothing, Goto, jobVars, queueVars, hwVars, irqVars,
      resetVars
<1>1. todo' = todo /\ Queued' = Queued /\ Distinct(todo')
  BY DEF IInv, Queued
<1>2. TypeOK' BY <1>1, SMT DEF IInv, TypeOK, Pcs
<1>3. ModeOfPlace' BY <1>1, SMT DEF IInv, ModeOfPlace
<1>4. Waiting' BY <1>1, SMT DEF IInv, Waiting
<1>5. FreshJobs' BY <1>1, SMT DEF IInv, FreshJobs, Fresh
<1>6. GivenUpJobs' BY <1>1, SMT DEF IInv, GivenUpJobs, GivenUp
<1>7. Finished' BY <1>1, SMT DEF IInv, Finished
<1>8. Handler' BY <1>1, SMT DEF IInv, Handler
<1>9. SlotNotAbandoned' BY <1>1, SMT DEF IInv, SlotNotAbandoned
<1> QED BY <1>1, <1>2, <1>3, <1>4, <1>5, <1>6, <1>7, <1>8, <1>9 DEF IInv

\* timeout_clean finds the job in the slot, which is not a fresh one.
LEMMA CleanOldStep == ASSUME IInv, NEW j \in Jobs, CleanOld(j) PROVE IInv'
<1> USE JobAssumption DEF CleanOld, Goto, jobVars, queueVars, hwVars, irqVars, resetVars
<1>1. todo' = todo /\ Queued' = Queued /\ Distinct(todo')
  BY DEF IInv, Queued
<1>2. TypeOK' BY <1>1, SMT DEF IInv, TypeOK, Pcs
<1>3. ModeOfPlace' BY <1>1, SMT DEF IInv, TypeOK, ModeOfPlace
<1>4. Waiting' BY <1>1, SMT DEF IInv, Waiting
<1>5. FreshJobs' BY <1>1, SMT DEF IInv, FreshJobs, Fresh
<1>6. GivenUpJobs' BY <1>1, SMT DEF IInv, FreshJobs, Fresh, GivenUpJobs, GivenUp
<1>7. Finished' BY <1>1, SMT DEF IInv, Finished
<1>8. Handler' BY <1>1, SMT DEF IInv, Handler
<1>9. SlotNotAbandoned' BY <1>1, SMT DEF IInv, SlotNotAbandoned
<1> QED BY <1>1, <1>2, <1>3, <1>4, <1>5, <1>6, <1>7, <1>8, <1>9 DEF IInv

\* The old job leaves the slot and the list before its cleanup is queued.
LEMMA DropStep == ASSUME IInv, NEW j \in Jobs, Drop(j) PROVE IInv'
<1> USE JobAssumption DEF Drop, Goto, jobVars, hwVars, irqVars, resetVars
<1>1. /\ todo' \in Seq(Jobs) /\ Queued' \subseteq Queued /\ found[j] \notin Queued'
      /\ Distinct(todo')
  <2>1. todo \in Seq(Jobs) /\ Distinct(todo) /\ todo' = ListDel(todo, found[j])
    <3>1. todo' = ListDel(todo, found[j])
      OBVIOUS
    <3> QED BY <3>1 DEF IInv, TypeOK
  <2>2. /\ todo' \in Seq(Jobs) /\ Elems(todo') \subseteq Elems(todo) /\ Distinct(todo')
        /\ found[j] \notin Elems(todo')
    BY <2>1, ListDelFacts
  <2> QED BY <2>2 DEF Queued, Elems
<1>2. TypeOK' BY <1>1, SMT DEF IInv, TypeOK, ModeOfPlace, Pcs
<1>3. ModeOfPlace' BY <1>1, SMT DEF IInv, TypeOK, ModeOfPlace
<1>4. Waiting'
  <2> SUFFICES ASSUME NEW k \in Queued'
               PROVE  /\ live'[k] /\ left'[k] >= 1 /\ ~committed'[k] /\ ~done'[k]
                      /\ slot' # k /\ irqJob' # k /\ k \notin work'
    BY DEF Waiting
  <2>1. k \in Queued /\ k \in Jobs
    BY <1>1, QueuedJobs DEF IInv
  <2>2. live'[k] /\ left'[k] >= 1 /\ irqJob' # k
    BY <1>1, <2>1, SMT DEF IInv, Waiting
  <2>3. ~committed'[k] /\ ~done'[k]
    BY <1>1, <2>1, SMT DEF IInv, Waiting
  <2>4. slot' # k /\ k \notin work'
    BY <1>1, <2>1, SMT DEF IInv, Waiting
  <2> QED BY <2>2, <2>3, <2>4
<1>5. FreshJobs' BY <1>1, SMT DEF IInv, FreshJobs, Fresh
<1>6. GivenUpJobs' BY <1>1, SMT DEF IInv, GivenUpJobs, GivenUp
<1>7. Finished' BY <1>1, SMT DEF IInv, Finished
<1>8. Handler' BY <1>1, SMT DEF IInv, Handler
<1>9. SlotNotAbandoned' BY <1>1, SMT DEF IInv, SlotNotAbandoned
<1> QED BY <1>1, <1>2, <1>3, <1>4, <1>5, <1>6, <1>7, <1>8, <1>9 DEF IInv

\* A job drained from the list was not in the slot.
LEMMA DrainStep == ASSUME IInv, NEW j \in Jobs, Drain(j) PROVE IInv'
<1> USE JobAssumption DEF Drain, threadVars, jobVars, hwVars, irqVars, resetVars
<1>1. /\ todo' \in Seq(Jobs) /\ Queued' \subseteq Queued /\ Distinct(todo')
      /\ Head(todo) \in Jobs /\ Head(todo) \in Queued /\ Head(todo) \notin Queued'
  <2>1. todo \in Seq(Jobs) /\ todo # <<>> /\ Distinct(todo) /\ todo' = Tail(todo)
    BY DEF IInv, TypeOK
  <2> QED BY <2>1, TailFacts DEF Queued, Elems
<1>2. TypeOK' BY <1>1, SMT DEF IInv, TypeOK, Pcs
<1>3. ModeOfPlace' BY <1>1, SMT DEF IInv, ModeOfPlace
<1>4. Waiting' BY <1>1, SMT DEF IInv, Waiting
<1>5. FreshJobs' BY <1>1, SMT DEF IInv, FreshJobs, Fresh
<1>6. GivenUpJobs' BY <1>1, SMT DEF IInv, GivenUpJobs, GivenUp
<1>7. Finished' BY <1>1, SMT DEF IInv, Waiting, Finished
<1>8. Handler' BY <1>1, SMT DEF IInv, Handler
<1>9. SlotNotAbandoned' BY <1>1, SMT DEF IInv, SlotNotAbandoned
<1> QED BY <1>1, <1>2, <1>3, <1>4, <1>5, <1>6, <1>7, <1>8, <1>9 DEF IInv

\* The list is empty.
LEMMA DrainEndStep == ASSUME IInv, NEW j \in Jobs, DrainEnd(j) PROVE IInv'
<1> USE JobAssumption DEF DrainEnd, Goto, jobVars, queueVars, hwVars, irqVars, resetVars
<1>1. todo' = todo /\ Queued' = Queued /\ Distinct(todo')
  BY DEF IInv, Queued
<1>2. TypeOK' BY <1>1, SMT DEF IInv, TypeOK, Pcs
<1>3. ModeOfPlace' BY <1>1, SMT DEF IInv, ModeOfPlace
<1>4. Waiting' BY <1>1, SMT DEF IInv, Waiting
<1>5. FreshJobs' BY <1>1, SMT DEF IInv, FreshJobs, Fresh
<1>6. GivenUpJobs' BY <1>1, SMT DEF IInv, GivenUpJobs, GivenUp
<1>7. Finished' BY <1>1, SMT DEF IInv, Finished
<1>8. Handler' BY <1>1, SMT DEF IInv, Handler
<1>9. SlotNotAbandoned' BY <1>1, SMT DEF IInv, SlotNotAbandoned
<1> QED BY <1>1, <1>2, <1>3, <1>4, <1>5, <1>6, <1>7, <1>8, <1>9 DEF IInv

\* The work item frees a job that is in no list and not in the slot.
LEMMA CleanupWorkStep == ASSUME IInv, NEW j \in Jobs, CleanupWork(j) PROVE IInv'
<1> USE JobAssumption DEF CleanupWork, threadVars, jobVars, queueVars, hwVars,
      irqVars, resetVars
<1>1. todo' = todo /\ Queued' = Queued /\ Distinct(todo')
  BY DEF IInv, Queued
<1>2. TypeOK' BY <1>1, SMT DEF IInv, TypeOK, Pcs
<1>3. ModeOfPlace' BY <1>1, SMT DEF IInv, ModeOfPlace
<1>4. Waiting' BY <1>1, SMT DEF IInv, Waiting
<1>5. FreshJobs' BY <1>1, SMT DEF IInv, FreshJobs, Fresh
<1>6. GivenUpJobs' BY <1>1, SMT DEF IInv, GivenUpJobs, GivenUp
<1>7. Finished' BY <1>1, SMT DEF IInv, Finished
<1>8. Handler' BY <1>1, SMT DEF IInv, Handler
<1>9. SlotNotAbandoned' BY <1>1, SMT DEF IInv, Finished, SlotNotAbandoned
<1> QED BY <1>1, <1>2, <1>3, <1>4, <1>5, <1>6, <1>7, <1>8, <1>9 DEF IInv

\* The handler takes the job in the slot.
LEMMA IrqEnterStep == ASSUME IInv, IrqEnter PROVE IInv'
<1> USE JobAssumption DEF IrqEnter, threadVars, queueVars, resetVars
<1>1. todo' = todo /\ Queued' = Queued /\ Distinct(todo')
  BY DEF IInv, Queued
<1>2. CASE slot = NoJob
  <2>1. TypeOK' BY <1>1, <1>2, SMT DEF IInv, TypeOK, Pcs
  <2>2. ModeOfPlace' BY <1>1, <1>2, SMT DEF IInv, ModeOfPlace
  <2>3. Waiting' BY <1>1, <1>2, SMT DEF IInv, Waiting
  <2>4. FreshJobs' BY <1>1, <1>2, SMT DEF IInv, FreshJobs, Fresh
  <2>5. GivenUpJobs' BY <1>1, <1>2, SMT DEF IInv, GivenUpJobs, GivenUp
  <2>6. Finished' BY <1>1, <1>2, SMT DEF IInv, Finished
  <2>7. Handler' BY <1>1, <1>2, SMT DEF IInv, Handler
  <2>8. SlotNotAbandoned' BY <1>1, <1>2, SMT DEF IInv, SlotNotAbandoned
  <2> QED BY <1>1, <2>1, <2>2, <2>3, <2>4, <2>5, <2>6, <2>7, <2>8 DEF IInv
<1>3. CASE slot # NoJob
  <2>1. TypeOK'
    <3>1. entered' \in [Jobs -> BOOLEAN]
      <4>1. slot \in Jobs /\ entered' = [entered EXCEPT ![slot] = TRUE]
        BY <1>3 DEF IInv, TypeOK
      <4> QED BY <4>1 DEF IInv, TypeOK
    <3> QED BY <1>1, <1>3, <3>1, SMT DEF IInv, TypeOK, Pcs
  <2>2. ModeOfPlace' BY <1>1, <1>3, SMT DEF IInv, ModeOfPlace
  <2>3. Waiting' BY <1>1, <1>3, SMT DEF IInv, Waiting
  <2>4. FreshJobs' BY <1>1, <1>3, SMT DEF IInv, FreshJobs, Fresh
  <2>5. GivenUpJobs' BY <1>1, <1>3, SMT DEF IInv, TypeOK, GivenUpJobs, GivenUp
  <2>6. Finished' BY <1>1, <1>3, SMT DEF IInv, Finished
  <2>7. Handler' BY <1>1, <1>3, SMT DEF IInv, Finished, Handler
  <2>8. SlotNotAbandoned' BY <1>1, <1>3, SMT DEF IInv, TypeOK, SlotNotAbandoned
  <2> QED BY <1>1, <2>1, <2>2, <2>3, <2>4, <2>5, <2>6, <2>7, <2>8 DEF IInv
<1> QED BY <1>2, <1>3 DEF Goto

\* The handler goes on, or forgets the job.
LEMMA IrqStatusStep == ASSUME IInv, IrqStatus PROVE IInv'
<1> USE JobAssumption DEF IrqStatus, threadVars, jobVars, queueVars, resetVars
<1>1. todo' = todo /\ Queued' = Queued /\ Distinct(todo')
  BY DEF IInv, Queued
<1>2. CASE irq = "ok"
  <2>1. TypeOK' BY <1>1, <1>2, SMT DEF IInv, TypeOK, Pcs
  <2>2. ModeOfPlace' BY <1>1, <1>2, SMT DEF IInv, ModeOfPlace
  <2>3. Waiting' BY <1>1, <1>2, SMT DEF IInv, Waiting
  <2>4. FreshJobs' BY <1>1, <1>2, SMT DEF IInv, FreshJobs, Fresh
  <2>5. GivenUpJobs' BY <1>1, <1>2, SMT DEF IInv, GivenUpJobs, GivenUp
  <2>6. Finished' BY <1>1, <1>2, SMT DEF IInv, Finished
  <2>7. Handler' BY <1>1, <1>2, SMT DEF IInv, Handler
  <2>8. SlotNotAbandoned' BY <1>1, <1>2, SMT DEF IInv, SlotNotAbandoned
  <2> QED BY <1>1, <2>1, <2>2, <2>3, <2>4, <2>5, <2>6, <2>7, <2>8 DEF IInv
<1>3. CASE irq # "ok"
  <2>1. TypeOK' BY <1>1, <1>3, SMT DEF IInv, TypeOK, Pcs
  <2>2. ModeOfPlace' BY <1>1, <1>3, SMT DEF IInv, ModeOfPlace
  <2>3. Waiting'
    <3> SUFFICES ASSUME NEW k \in Queued'
                 PROVE  /\ live'[k] /\ left'[k] >= 1 /\ ~committed'[k] /\ ~done'[k]
                        /\ slot' # k /\ irqJob' # k /\ k \notin work'
      BY DEF Waiting
    <3>1. k \in Queued /\ k \in Jobs
      BY <1>1, <1>3, QueuedJobs DEF IInv
    <3>2. live'[k] /\ left'[k] >= 1 /\ irqJob' # k
      BY <1>1, <1>3, <3>1, SMT DEF IInv, Waiting
    <3>3. ~committed'[k] /\ ~done'[k]
      BY <1>1, <1>3, <3>1, SMT DEF IInv, Waiting
    <3>4. slot' # k /\ k \notin work'
      BY <1>1, <1>3, <3>1, SMT DEF IInv, Waiting
    <3> QED BY <3>2, <3>3, <3>4
  <2>4. FreshJobs' BY <1>1, <1>3, SMT DEF IInv, FreshJobs, Fresh
  <2>5. GivenUpJobs' BY <1>1, <1>3, SMT DEF IInv, GivenUpJobs, GivenUp
  <2>6. Finished' BY <1>1, <1>3, SMT DEF IInv, Finished
  <2>7. Handler' BY <1>1, <1>3, SMT DEF IInv, Handler
  <2>8. SlotNotAbandoned' BY <1>1, <1>3, SMT DEF IInv, SlotNotAbandoned
  <2> QED BY <1>1, <2>1, <2>2, <2>3, <2>4, <2>5, <2>6, <2>7, <2>8 DEF IInv
<1> QED BY <1>2, <1>3 DEF Goto

\* The job still needs a piece and is committed again, or leaves the slot.
LEMMA IrqDoneStep == ASSUME IInv, IrqDone PROVE IInv'
<1> USE JobAssumption DEF IrqDone, Commit, threadVars, hwVars, resetVars
<1>1. todo' = todo /\ Queued' = Queued /\ Distinct(todo')
  BY DEF IInv, Queued
<1>2. CASE left[irqJob] > 1
  <2>1. TypeOK'
    <3>1. irqJob \in Jobs /\ committed' = [committed EXCEPT ![irqJob] = TRUE]
      BY <1>2 DEF IInv, TypeOK, Handler
    <3>2. /\ committed \in [Jobs -> BOOLEAN] /\ left \in [Jobs -> 0..MaxPieces]
          /\ left' = [left EXCEPT ![irqJob] = left[irqJob] - 1] /\ left[irqJob] > 1
      BY <1>2 DEF IInv, TypeOK
    <3>3. committed' \in [Jobs -> BOOLEAN]
      BY <3>1, <3>2
    <3>4. left[irqJob] - 1 \in 0..MaxPieces
      BY <3>1, <3>2, SMT
    <3>5. left' \in [Jobs -> 0..MaxPieces]
      BY <3>1, <3>2, <3>4
    <3> QED BY <1>1, <1>2, <3>3, <3>5, SMT DEF IInv, TypeOK, Pcs
  <2>2. ModeOfPlace' BY <1>1, <1>2, SMT DEF IInv, ModeOfPlace
  <2>3. Waiting'
    <3> SUFFICES ASSUME NEW k \in Queued'
                 PROVE  /\ live'[k] /\ left'[k] >= 1 /\ ~committed'[k] /\ ~done'[k]
                        /\ slot' # k /\ irqJob' # k /\ k \notin work'
      BY DEF Waiting
    <3>1. k \in Queued /\ k \in Jobs
      BY <1>1, <1>2, QueuedJobs DEF IInv
    <3>2. live'[k] /\ left'[k] >= 1 /\ irqJob' # k
      BY <1>1, <1>2, <3>1, SMT DEF IInv, Waiting
    <3>3. ~committed'[k] /\ ~done'[k]
      BY <1>1, <1>2, <3>1, SMT DEF IInv, TypeOK, Waiting
    <3>4. slot' # k /\ k \notin work'
      BY <1>1, <1>2, <3>1, SMT DEF IInv, Waiting
    <3> QED BY <3>2, <3>3, <3>4
  <2>4. FreshJobs' BY <1>1, <1>2, SMT DEF IInv, TypeOK, FreshJobs, Fresh
  <2>5. GivenUpJobs' BY <1>1, <1>2, SMT DEF IInv, GivenUpJobs, GivenUp
  <2>6. Finished' BY <1>1, <1>2, SMT DEF IInv, TypeOK, Finished
  <2>7. Handler' BY <1>1, <1>2, SMT DEF IInv, Handler
  <2>8. SlotNotAbandoned' BY <1>1, <1>2, SMT DEF IInv, SlotNotAbandoned
  <2> QED BY <1>1, <2>1, <2>2, <2>3, <2>4, <2>5, <2>6, <2>7, <2>8 DEF IInv
<1>3. CASE ~(left[irqJob] > 1)
  <2>1. TypeOK' BY <1>1, <1>3, SMT DEF IInv, TypeOK, Handler, Pcs
  <2>2. ModeOfPlace' BY <1>1, <1>3, SMT DEF IInv, ModeOfPlace
  <2>3. Waiting'
    <3> SUFFICES ASSUME NEW k \in Queued'
                 PROVE  /\ live'[k] /\ left'[k] >= 1 /\ ~committed'[k] /\ ~done'[k]
                        /\ slot' # k /\ irqJob' # k /\ k \notin work'
      BY DEF Waiting
    <3>1. k \in Queued /\ k \in Jobs
      BY <1>1, <1>3, QueuedJobs DEF IInv
    <3>2. live'[k] /\ left'[k] >= 1 /\ irqJob' # k
      BY <1>1, <1>3, <3>1, SMT DEF IInv, Waiting
    <3>3. ~committed'[k] /\ ~done'[k]
      BY <1>1, <1>3, <3>1, SMT DEF IInv, Waiting
    <3>4. slot' # k /\ k \notin work'
      BY <1>1, <1>3, <3>1, SMT DEF IInv, Waiting
    <3> QED BY <3>2, <3>3, <3>4
  <2>4. FreshJobs' BY <1>1, <1>3, SMT DEF IInv, FreshJobs, Fresh
  <2>5. GivenUpJobs' BY <1>1, <1>3, SMT DEF IInv, GivenUpJobs, GivenUp
  <2>6. Finished' BY <1>1, <1>3, SMT DEF IInv, Finished
  <2>7. Handler' BY <1>1, <1>3, SMT DEF IInv, Handler
  <2>8. SlotNotAbandoned' BY <1>1, <1>3, SMT DEF IInv, SlotNotAbandoned
  <2> QED BY <1>1, <2>1, <2>2, <2>3, <2>4, <2>5, <2>6, <2>7, <2>8 DEF IInv
<1> QED BY <1>2, <1>3 DEF Goto

\* The job is out of the slot when its waiter may free it.
LEMMA IrqPublishStep == ASSUME IInv, IrqPublish PROVE IInv'
<1> USE JobAssumption DEF IrqPublish, threadVars, queueVars, hwVars, resetVars
<1>1. todo' = todo /\ Queued' = Queued /\ Distinct(todo')
  BY DEF IInv, Queued
<1>2. TypeOK' BY <1>1, SMT DEF IInv, TypeOK, Handler, Pcs
<1>3. ModeOfPlace' BY <1>1, SMT DEF IInv, ModeOfPlace
<1>4. Waiting'
  <2> SUFFICES ASSUME NEW k \in Queued'
               PROVE  /\ live'[k] /\ left'[k] >= 1 /\ ~committed'[k] /\ ~done'[k]
                      /\ slot' # k /\ irqJob' # k /\ k \notin work'
    BY DEF Waiting
  <2>1. k \in Queued /\ k \in Jobs
    BY <1>1, QueuedJobs DEF IInv
  <2>2. live'[k] /\ left'[k] >= 1 /\ irqJob' # k
    BY <1>1, <2>1, SMT DEF IInv, Waiting
  <2>3. ~committed'[k] /\ ~done'[k]
    BY <1>1, <2>1, SMT DEF IInv, Waiting
  <2>4. slot' # k /\ k \notin work'
    BY <1>1, <2>1, SMT DEF IInv, Waiting
  <2> QED BY <2>2, <2>3, <2>4
<1>5. FreshJobs' BY <1>1, SMT DEF IInv, FreshJobs, Fresh
<1>6. GivenUpJobs' BY <1>1, SMT DEF IInv, GivenUpJobs, GivenUp
<1>7. Finished' BY <1>1, SMT DEF IInv, Finished, Handler
<1>8. Handler' BY <1>1, SMT DEF IInv, Handler
<1>9. SlotNotAbandoned' BY <1>1, SMT DEF IInv, SlotNotAbandoned
<1> QED BY <1>1, <1>2, <1>3, <1>4, <1>5, <1>6, <1>7, <1>8, <1>9 DEF IInv

\* rknpu_job_next in the handler.
LEMMA IrqNextStep == ASSUME IInv, IrqNext PROVE IInv'
<1> USE JobAssumption DEF IrqNext, threadVars, resetVars
<1>1. NotTaken \/ \E h \in Jobs : Taken(h)
  BY JobNextFacts DEF IInv
<1>2. CASE NotTaken
  <2>1. TypeOK' BY <1>2, SMT DEF IInv, TypeOK, Pcs, NotTaken
  <2>2. ModeOfPlace' BY <1>2, SMT DEF IInv, ModeOfPlace, NotTaken
  <2>3. Waiting' BY <1>2, SMT DEF IInv, Waiting, NotTaken
  <2>4. FreshJobs' BY <1>2, SMT DEF IInv, FreshJobs, Fresh, NotTaken
  <2>5. GivenUpJobs' BY <1>2, SMT DEF IInv, GivenUpJobs, GivenUp, NotTaken
  <2>6. Finished' BY <1>2, SMT DEF IInv, Finished, NotTaken
  <2>7. Handler' BY <1>2, SMT DEF IInv, Handler, NotTaken
  <2>8. SlotNotAbandoned' BY <1>2, SMT DEF IInv, SlotNotAbandoned, NotTaken
  <2> QED BY <1>2, <2>1, <2>2, <2>3, <2>4, <2>5, <2>6, <2>7, <2>8 DEF IInv, NotTaken
<1>3. ASSUME NEW h \in Jobs, Taken(h) PROVE IInv'
  <2>1. TypeOK' BY <1>3, SMT DEF IInv, TypeOK, Pcs, Taken
  <2>2. ModeOfPlace' BY <1>3, SMT DEF IInv, ModeOfPlace, Taken
  <2>3. Waiting' BY <1>3, SMT DEF IInv, Waiting, Taken
  <2>4. FreshJobs' BY <1>3, SMT DEF IInv, FreshJobs, Fresh, Taken
  <2>5. GivenUpJobs' BY <1>3, SMT DEF IInv, GivenUpJobs, GivenUp, Taken
  <2>6. Finished' BY <1>3, SMT DEF IInv, Waiting, Finished, Taken
  <2>7. Handler' BY <1>3, SMT DEF IInv, Handler, Taken
  <2>8. SlotNotAbandoned' BY <1>3, SMT DEF IInv, Waiting, SlotNotAbandoned, Taken
  <2> QED BY <1>3, <2>1, <2>2, <2>3, <2>4, <2>5, <2>6, <2>7, <2>8 DEF IInv, Taken
<1> QED BY <1>1, <1>2, <1>3

\* The hardware ends a piece.
LEMMA FinishStep == ASSUME IInv, NEW j \in Jobs, Finish(j) PROVE IInv'
<1> USE JobAssumption DEF Finish, threadVars, jobVars, queueVars, irqVars, resetVars
<1>1. todo' = todo /\ Queued' = Queued /\ Distinct(todo')
  BY DEF IInv, Queued
<1>2. TypeOK' BY <1>1, SMT DEF IInv, TypeOK, Pcs
<1>3. ModeOfPlace' BY <1>1, SMT DEF IInv, ModeOfPlace
<1>4. Waiting' BY <1>1, SMT DEF IInv, Waiting
<1>5. FreshJobs' BY <1>1, SMT DEF IInv, FreshJobs, Fresh
<1>6. GivenUpJobs' BY <1>1, SMT DEF IInv, GivenUpJobs, GivenUp
<1>7. Finished' BY <1>1, SMT DEF IInv, Finished
<1>8. Handler' BY <1>1, SMT DEF IInv, Handler
<1>9. SlotNotAbandoned' BY <1>1, SMT DEF IInv, SlotNotAbandoned
<1> QED BY <1>1, <1>2, <1>3, <1>4, <1>5, <1>6, <1>7, <1>8, <1>9 DEF IInv

\* The hardware reports an error.
LEMMA FaultStep == ASSUME IInv, NEW j \in Jobs, Fault(j) PROVE IInv'
<1> USE JobAssumption DEF Fault, threadVars, jobVars, queueVars, irqVars, resetVars
<1>1. todo' = todo /\ Queued' = Queued /\ Distinct(todo')
  BY DEF IInv, Queued
<1>2. TypeOK' BY <1>1, SMT DEF IInv, TypeOK, Pcs
<1>3. ModeOfPlace' BY <1>1, SMT DEF IInv, ModeOfPlace
<1>4. Waiting' BY <1>1, SMT DEF IInv, Waiting
<1>5. FreshJobs' BY <1>1, SMT DEF IInv, FreshJobs, Fresh
<1>6. GivenUpJobs' BY <1>1, SMT DEF IInv, GivenUpJobs, GivenUp
<1>7. Finished' BY <1>1, SMT DEF IInv, Finished
<1>8. Handler' BY <1>1, SMT DEF IInv, Handler
<1>9. SlotNotAbandoned' BY <1>1, SMT DEF IInv, SlotNotAbandoned
<1> QED BY <1>1, <1>2, <1>3, <1>4, <1>5, <1>6, <1>7, <1>8, <1>9 DEF IInv

-----------------------------------------------------------------------------
(* The theorems. *)

\* Nothing is queued, running or given up at first.
LEMMA InitInv == Init => IInv
<1> SUFFICES ASSUME Init PROVE IInv
  OBVIOUS
<1> USE JobAssumption DEF Init
<1>1. todo = <<>> /\ Queued = {} /\ Distinct(todo) /\ todo \in Seq(Jobs)
  BY SMT DEF Queued, Distinct
<1>2. TypeOK
  <2>1. 0 \in 0..(Rounds - 1) /\ 0 \in 0..MaxPieces
    BY SMT
  <2>2. /\ round \in [Jobs -> 0..(Rounds - 1)] /\ left \in [Jobs -> 0..MaxPieces]
        /\ pc \in [Jobs -> Pcs] /\ found \in [Jobs -> Jobs \cup {NoJob}]
        /\ ret \in [Jobs -> {"none", "not_committed", "timeout", "reset"}]
    BY <2>1 DEF Pcs
  <2>3. \A j \in Jobs : pc[j] = "resetting" <=> resetter = j
    <3>1. \A j \in Jobs : pc[j] # "resetting" /\ resetter # j
      OBVIOUS
    <3> QED BY <3>1
  <2>4. /\ live \in [Jobs -> BOOLEAN] /\ committed \in [Jobs -> BOOLEAN]
        /\ entered \in [Jobs -> BOOLEAN] /\ done \in [Jobs -> BOOLEAN]
    OBVIOUS
  <2> QED BY <1>1, <2>2, <2>3, <2>4 DEF TypeOK
<1>3. ModeOfPlace /\ Waiting /\ FreshJobs /\ GivenUpJobs
  BY <1>1, SMT DEF ModeOfPlace, Waiting, FreshJobs, Fresh, GivenUpJobs, GivenUp
<1>4. Finished /\ Handler /\ SlotNotAbandoned
  BY <1>1, SMT DEF Finished, Handler, SlotNotAbandoned
<1> QED BY <1>1, <1>2, <1>3, <1>4 DEF IInv

\* A step that changes nothing.
LEMMA StutterStep == ASSUME IInv, UNCHANGED vars PROVE IInv'
<1> USE DEF vars
<1>1. todo' = todo /\ Queued' = Queued /\ Distinct(todo')
  BY DEF IInv, Queued
<1>2. TypeOK' BY SMT DEF IInv, TypeOK
<1>3. ModeOfPlace' /\ Waiting' BY <1>1, SMT DEF IInv, ModeOfPlace, Waiting
<1>4. FreshJobs' BY <1>1, SMT DEF IInv, FreshJobs, Fresh
<1>5. GivenUpJobs' BY <1>1, SMT DEF IInv, GivenUpJobs, GivenUp
<1>6. Finished' /\ Handler' /\ SlotNotAbandoned'
  BY SMT DEF IInv, Finished, Handler, SlotNotAbandoned
<1> QED BY <1>1, <1>2, <1>3, <1>4, <1>5, <1>6 DEF IInv

\* Every step of a submitter, of the work items, of the handler, of a reset and of
\* the hardware keeps the invariant.
LEMMA NextInv == IInv /\ [Next]_vars => IInv'
<1> SUFFICES ASSUME IInv, [Next]_vars PROVE IInv'
  OBVIOUS
<1>1. ASSUME NEW j \in Jobs, Submitter(j) PROVE IInv'
  BY <1>1, ScheduleStep, ScheduleNextStep, WokenStep, TimedOutStep, UnlinkStep,
     AbortStep, FreeStep, ResetStep, CleanNothingStep, CleanOldStep, DropStep,
     DrainStep, DrainEndStep DEF Submitter
<1>2. ASSUME NEW j \in Jobs, Submit(j) \/ CleanupWork(j) \/ Finish(j) \/ Fault(j)
      PROVE  IInv'
  BY <1>2, SubmitStep, CleanupWorkStep, FinishStep, FaultStep
<1>3. CASE \E a \in Jobs \cup {Debugger} : PulseReset(a)
  BY <1>3, PulseResetStep
<1>4. CASE DebugReset
  BY <1>4, DebugResetStep
<1>5. CASE Irq
  BY <1>5, IrqEnterStep, IrqStatusStep, IrqDoneStep, IrqPublishStep, IrqNextStep DEF Irq
<1>6. CASE UNCHANGED vars
  BY <1>6, StutterStep
<1> QED BY <1>1, <1>2, <1>3, <1>4, <1>5, <1>6 DEF Next

\* The queue is part of the invariant: a queued job is live and is queued once.
LEMMA InvQueue == IInv => QueueHoldsLiveJobs
  BY DEF IInv, Waiting, Queued, Distinct, QueueHoldsLiveJobs

\* Every reachable state satisfies the inductive invariant.
THEOREM Invariant == Spec => []IInv
<1>1. Init => IInv
  BY InitInv
<1>2. IInv /\ [Next]_vars => IInv'
  BY NextInv
<1> QED BY <1>1, <1>2, PTL DEF Spec

\* Every variable keeps its type, and reset_lock is held by exactly the thread that
\* sleeps in rknpu_soft_reset.
THEOREM TypeCorrect == Spec => []TypeOK
<1>1. IInv => TypeOK
  BY DEF IInv
<1> QED BY <1>1, Invariant, PTL

\* For every set of submitters, length of job and number of rounds: todo_list links
\* live jobs only, each once, whoever gives a job up.
THEOREM QueueHoldsLive == Spec => []QueueHoldsLiveJobs
<1> QED BY InvQueue, Invariant, PTL

\* A freed job stays in the core's slot only if the interrupt handler had entered
\* for it, the one case rknpu_job_abort leaves to the handler.
THEOREM SlotHolds == Spec => []SlotNotAbandoned
<1>1. IInv => SlotNotAbandoned
  BY DEF IInv
<1> QED BY <1>1, Invariant, PTL

-----------------------------------------------------------------------------
(* Jobs that are given up while the hardware has them. *)

\* A job that will be freed although its interrupt did not come: its waiter saw a
\* timeout or a reset, or a timeout_clean has dropped it or is about to.
Doomed(j) == \/ pc[j] = "free" /\ ret[j] \in {"timeout", "reset"}
             \/ pc[j] = "abort" /\ ret[j] = "reset"
             \/ j \in work
             \/ \E k \in Jobs : pc[k] = "drop" /\ found[k] = j

\* The hardware does not execute j and will not: also while j is still in the slot,
\* no interrupt can make the handler submit its next piece.
Quiet(j) == /\ j \notin run /\ irqJob # j
            /\ slot = j => run = {} /\ irq = "none" /\ irqPc = "idle"

\* A reset is going on, or has made the core quiet for the jobs it was done for.
ResetDue == \A j \in Jobs : Doomed(j) /\ ~done[j] /\ ~softReseting => Quiet(j)

\* Only a committed job gets as far as the hardware, the handler or timeout_clean.
Committed == /\ slot # NoJob => committed[slot]
             /\ irqJob # NoJob => committed[irqJob]
             /\ \A k \in Jobs : found[k] # NoJob => committed[found[k]]
             /\ \A k \in run : committed[k]

\* Whoever holds reset_lock has set soft_reseting.
ResetHeld == resetter # NoJob => softReseting

\* A submitter frees its job because it is done, or it has a reason not to wait.
Reasons == \A j \in Jobs : /\ pc[j] = "free" /\ ret[j] = "none" => done[j]
                           /\ pc[j] = "unlink" => ret[j] = "not_committed"
                           /\ pc[j] = "abort" => ret[j] # "none"
                           /\ mode = "block" /\ pc[j] \in {"reset", "resetting"} =>
                                ret[j] = "timeout"

RInv == Committed /\ ResetHeld /\ Reasons /\ ResetDue

\* rknpu_job_next commits the job it puts into the slot, or does nothing.
LEMMA CommittedNext ==
  ASSUME IInv, Committed, JobNext, UNCHANGED <<irqJob, found>>
  PROVE  Committed'
<1>1. NotTaken \/ \E h \in Jobs : Taken(h)
  BY JobNextFacts DEF IInv
<1>2. CASE NotTaken
  BY <1>2 DEF NotTaken, Committed
<1>3. ASSUME NEW h \in Jobs, Taken(h) PROVE Committed'
  BY <1>3 DEF Taken, Committed, IInv, TypeOK
<1> QED BY <1>1, <1>2, <1>3

\* Everything that points to a job that may be on the hardware points to a
\* committed one.
LEMMA CommittedStep == ASSUME IInv, Committed, Next PROVE Committed'
<1> USE JobAssumption DEF jobVars, queueVars, hwVars, irqVars, resetVars, threadVars
<1>1. ASSUME committed' = committed, slot' \in {slot, NoJob}, irqJob' \in {irqJob, slot, NoJob},
             \A k \in Jobs : found'[k] \in {found[k], slot, NoJob}, run' \subseteq run
      PROVE  Committed'
  BY <1>1 DEF Committed
<1>2. ASSUME NEW j \in Jobs, Submit(j) PROVE Committed'
  BY <1>2 DEF Submit, PointedTo, Committed, IInv, TypeOK
<1>3. ASSUME NEW j \in Jobs, ScheduleNext(j) PROVE Committed'
  BY <1>3, CommittedNext DEF ScheduleNext
<1>4. CASE IrqNext
  BY <1>4, CommittedNext DEF IrqNext
<1>5. CASE IrqDone
  <2>1. irqJob \in Jobs
    BY <1>5 DEF IrqDone, IInv, Handler, TypeOK
  <2>2. CASE left[irqJob] > 1
    <3>1. /\ committed' = [committed EXCEPT ![irqJob] = TRUE] /\ run' = run \cup {irqJob}
          /\ irqJob' = NoJob /\ UNCHANGED <<slot, found>>
      BY <1>5, <2>2 DEF IrqDone, Commit
    <3>2. committed \in [Jobs -> BOOLEAN]
      BY DEF IInv, TypeOK
    <3> QED BY <2>1, <3>1, <3>2 DEF Committed
  <2>3. CASE ~(left[irqJob] > 1)
    <3>1. /\ slot' = NoJob /\ UNCHANGED <<committed, run, irqJob, found>>
      BY <1>5, <2>3 DEF IrqDone
    <3> QED BY <3>1 DEF Committed
  <2> QED BY <2>2, <2>3
<1>6. ASSUME NEW j \in Jobs, Schedule(j) \/ Woken(j) \/ TimedOut(j) \/ Unlink(j) \/ Abort(j)
                              \/ Free(j) \/ Reset(j) \/ CleanNothing(j) \/ Drain(j) \/ DrainEnd(j)
                              \/ CleanupWork(j)
      PROVE  Committed'
  BY <1>1, <1>6 DEF Schedule, Woken, TimedOut, EndWait, Unlink, Abort, Free, Reset, CleanNothing,
                    Drain, DrainEnd, CleanupWork
<1>7. ASSUME NEW j \in Jobs, CleanOld(j) \/ Drop(j) \/ Finish(j) \/ Fault(j)
      PROVE  Committed'
  BY <1>1, <1>7 DEF CleanOld, Drop, Finish, Fault, IInv, TypeOK
<1>8. ASSUME NEW a \in Jobs \cup {Debugger}, PulseReset(a) PROVE Committed'
  BY <1>1, <1>8 DEF PulseReset
<1>9. CASE DebugReset \/ IrqEnter \/ IrqStatus \/ IrqPublish
  BY <1>1, <1>9 DEF DebugReset, IrqEnter, IrqStatus, IrqPublish
<1> QED BY <1>2, <1>3, <1>4, <1>5, <1>6, <1>7, <1>8, <1>9 DEF Next, Submitter, Irq

\* soft_reseting is cleared only together with reset_lock.
LEMMA ResetHeldStep == ASSUME TypeOK, ResetHeld, Next PROVE ResetHeld'
<1> USE DEF ResetHeld, resetVars
<1>1. ASSUME UNCHANGED resetVars PROVE ResetHeld'
  BY <1>1
<1>2. ASSUME NEW j \in Jobs, Submit(j) \/ CleanupWork(j) \/ Finish(j) \/ Fault(j)
      PROVE  ResetHeld'
  BY <1>1, <1>2 DEF Submit, CleanupWork, Finish, Fault
<1>3. ASSUME NEW j \in Jobs, Reset(j) PROVE ResetHeld'
  BY <1>3 DEF Reset
<1>4. ASSUME NEW j \in Jobs, Submitter(j), ~Reset(j) PROVE ResetHeld'
  BY <1>1, <1>4 DEF Submitter, Schedule, ScheduleNext, Woken, TimedOut, Unlink, Abort, Free,
                    CleanNothing, CleanOld, Drop, Drain, DrainEnd
<1>5. ASSUME NEW a \in Jobs \cup {Debugger}, PulseReset(a) PROVE ResetHeld'
  BY <1>5 DEF PulseReset
<1>6. CASE DebugReset
  BY <1>6 DEF DebugReset
<1>7. CASE Irq
  BY <1>1, <1>7 DEF Irq, IrqEnter, IrqStatus, IrqDone, IrqPublish, IrqNext
<1> QED BY <1>2, <1>3, <1>4, <1>5, <1>6, <1>7 DEF Next

\* What sends a submitter to the abort sets job->ret; what lets it go on without
\* one is RKNPU_JOB_DONE.
LEMMA ReasonsStep == ASSUME IInv, Reasons, Next PROVE Reasons'
<1> USE DEF Reasons, Goto, jobVars, threadVars
<1>0. /\ pc \in [Jobs -> Pcs] /\ ret \in [Jobs -> {"none", "not_committed", "timeout", "reset"}]
      /\ done \in [Jobs -> BOOLEAN] /\ mode \in {"block", "async"}
  BY DEF IInv, TypeOK
<1>1. ASSUME UNCHANGED <<mode, pc, ret>>, \A k \in Jobs : done[k] => done'[k] PROVE Reasons'
  BY <1>1
<1>2. ASSUME NEW j \in Jobs, Submit(j) PROVE Reasons'
  BY <1>0, <1>2 DEF Submit
<1>3. ASSUME NEW j \in Jobs, CleanupWork(j) \/ Finish(j) \/ Fault(j) PROVE Reasons'
  BY <1>1, <1>3 DEF CleanupWork, Finish, Fault
<1>4. ASSUME NEW j \in Jobs, NEW l \in Pcs \ {"unlink", "abort", "free"},
             pc' = [pc EXCEPT ![j] = l], mode = "async" \/ l \notin {"reset", "resetting"},
             \A k \in Jobs : k # j => ret'[k] = ret[k], UNCHANGED <<mode, done>>
      PROVE  Reasons'
  BY <1>0, <1>4
<1>5. ASSUME NEW j \in Jobs, Schedule(j) \/ ScheduleNext(j) \/ CleanNothing(j)
                              \/ Drop(j) \/ Free(j) \/ DrainEnd(j)
      PROVE  Reasons'
  BY <1>0, <1>4, <1>5 DEF Schedule, ScheduleNext, CleanNothing, Drop, Free, DrainEnd, Pcs
<1>6. ASSUME NEW j \in Jobs, CleanOld(j) PROVE Reasons'
  BY <1>4, <1>6 DEF CleanOld, Pcs, IInv, ModeOfPlace
<1>7. ASSUME NEW j \in Jobs, Drain(j) PROVE Reasons'
  BY <1>1, <1>7 DEF Drain
<1>8. ASSUME NEW j \in Jobs, Woken(j) \/ TimedOut(j) PROVE Reasons'
  BY <1>0, <1>8 DEF Woken, TimedOut, EndWait
<1>9. ASSUME NEW j \in Jobs, Unlink(j) \/ Abort(j) PROVE Reasons'
  BY <1>0, <1>9 DEF Unlink, Abort
<1>10. ASSUME NEW j \in Jobs, Reset(j) PROVE Reasons'
  BY <1>0, <1>10 DEF Reset, AfterReset
<1>11. ASSUME NEW a \in Jobs \cup {Debugger}, PulseReset(a) PROVE Reasons'
  <2>1. CASE a \in Jobs
    BY <1>0, <1>11, <2>1 DEF PulseReset, AfterReset, IInv, TypeOK
  <2>2. CASE a \notin Jobs
    BY <1>1, <1>11, <2>2 DEF PulseReset
  <2> QED BY <2>1, <2>2
<1>12. CASE DebugReset
  BY <1>1, <1>12 DEF DebugReset
<1>13. CASE Irq
  BY <1>0, <1>1, <1>13 DEF Irq, IrqEnter, IrqStatus, IrqDone, IrqPublish, IrqNext
<1> QED
  BY <1>2, <1>3, <1>5, <1>6, <1>7, <1>8, <1>9, <1>10, <1>11, <1>12, <1>13 DEF Next, Submitter

\* A doomed job is not on todo_list, so rknpu_job_next cannot commit it.
LEMMA DoomedOffList == ASSUME IInv, Committed, NEW j \in Jobs, Doomed(j) PROVE j \notin Queued
<1>1. CASE pc[j] \in {"free", "abort"}
  BY <1>1 DEF IInv, GivenUpJobs, GivenUp
<1>2. CASE j \in work
  BY <1>2 DEF IInv, Waiting
<1>3. ASSUME NEW k \in Jobs, found[k] = j PROVE j \notin Queued
  BY <1>3, JobAssumption DEF Committed, IInv, Waiting
<1> QED BY <1>1, <1>2, <1>3 DEF Doomed

\* rknpu_job_next leaves the core quiet for a job that is not on the list.
LEMMA QuietNext ==
  ASSUME IInv, JobNext, irqJob' = irqJob, irqPc' \in {irqPc, "idle"},
         NEW j \in Jobs, j \notin Queued, Quiet(j)
  PROVE  Quiet(j)'
<1>1. NotTaken \/ \E h \in Jobs : Taken(h)
  BY JobNextFacts DEF IInv
<1>2. CASE NotTaken
  BY <1>2 DEF NotTaken, Quiet
<1>3. ASSUME NEW h \in Jobs, Taken(h) PROVE Quiet(j)'
  BY <1>3 DEF Taken, Quiet
<1> QED BY <1>1, <1>2, <1>3

\* While no reset is going on the core stays quiet for the doomed jobs, and a
\* job that becomes doomed does so during a reset, at the end of one, or off the
\* hardware.  A reset that is bypassed would break this.
LEMMA ResetDueStep ==
  ASSUME IInv, RInv, ~BypassSoftReset, Next
  PROVE  ResetDue'
<1> USE JobAssumption DEF Goto, jobVars, queueVars, hwVars, irqVars, resetVars, threadVars
<1>0. /\ pc \in [Jobs -> Pcs] /\ ret \in [Jobs -> {"none", "not_committed", "timeout", "reset"}]
      /\ done \in [Jobs -> BOOLEAN] /\ slot \in Jobs \cup {NoJob} /\ irqJob \in Jobs \cup {NoJob}
      /\ work \subseteq Jobs /\ found \in [Jobs -> Jobs \cup {NoJob}] /\ run \subseteq Jobs
  BY DEF IInv, TypeOK
<1> SUFFICES ASSUME NEW x \in Jobs, Doomed(x)', ~done'[x], ~softReseting' PROVE Quiet(x)'
  BY DEF ResetDue
<1>1. Doomed(x) /\ ~done[x] /\ ~softReseting => Quiet(x) /\ x \notin Queued
  BY DoomedOffList DEF RInv, ResetDue
<1>2. ASSUME UNCHANGED <<run, irq, slot, irqJob, irqPc>>, Doomed(x), ~done[x], ~softReseting
      PROVE  Quiet(x)'
  BY <1>1, <1>2 DEF Quiet
<1>3. ASSUME NEW j \in Jobs, Schedule(j) \/ CleanNothing(j) \/ CleanOld(j) \/ DrainEnd(j)
      PROVE  Quiet(x)'
  <2>1. Doomed(x)
    BY <1>0, <1>3 DEF Schedule, CleanNothing, CleanOld, DrainEnd, Doomed
  <2> QED BY <1>2, <1>3, <2>1 DEF Schedule, CleanNothing, CleanOld, DrainEnd
<1>4. ASSUME NEW j \in Jobs, Free(j) \/ CleanupWork(j) \/ Unlink(j) PROVE Quiet(x)'
  <2>1. Doomed(x)
    BY <1>0, <1>4 DEF Free, CleanupWork, Unlink, Doomed, RInv, Reasons
  <2> QED BY <1>2, <1>4, <2>1 DEF Free, CleanupWork, Unlink
<1>5. ASSUME NEW j \in Jobs, Woken(j) \/ TimedOut(j) PROVE Quiet(x)'
  <2>1. Doomed(x)
    BY <1>0, <1>5 DEF Woken, TimedOut, EndWait, Doomed, RInv, Reasons, IInv, FreshJobs
  <2> QED BY <1>2, <1>5, <2>1 DEF Woken, TimedOut
<1>6. ASSUME NEW j \in Jobs, Submit(j) PROVE Quiet(x)'
  <2>1. Doomed(x) /\ x # j
    BY <1>0, <1>6 DEF Submit, PointedTo, Doomed
  <2> QED BY <1>0, <1>2, <1>6, <2>1 DEF Submit
<1>7. ASSUME NEW j \in Jobs, ScheduleNext(j) PROVE Quiet(x)'
  <2>1. Doomed(x)
    BY <1>0, <1>7 DEF ScheduleNext, Doomed
  <2> QED BY <1>1, <1>7, <2>1, QuietNext DEF ScheduleNext
<1>8. CASE IrqNext
  <2>1. Doomed(x)
    BY <1>8 DEF IrqNext, Doomed
  <2> QED BY <1>1, <1>8, <2>1, QuietNext DEF IrqNext
<1>9. ASSUME NEW j \in Jobs, Abort(j) PROVE Quiet(x)'
  <2>1. Doomed(x)
    BY <1>0, <1>9 DEF Abort, Doomed, RInv, Reasons
  <2> QED BY <1>1, <1>9, <2>1 DEF Abort, Quiet
<1>10. ASSUME NEW j \in Jobs, Reset(j) PROVE Quiet(x)'
  <2>1. Doomed(x)
    BY <1>0, <1>10 DEF Reset, AfterReset, Doomed, RInv, ResetHeld
  <2> QED BY <1>2, <1>10, <2>1 DEF Reset
<1>11. ASSUME NEW a \in Jobs \cup {Debugger}, PulseReset(a) PROVE Quiet(x)'
  <2>1. CASE run' = {} /\ irq' = "none"
    BY <1>11, <2>1 DEF PulseReset, Quiet, IInv, Handler
  <2>2. CASE ~(run' = {} /\ irq' = "none")
    <3>1. softReseting
      BY <1>11, JobAssumption DEF PulseReset, RInv, ResetHeld
    <3> QED BY <1>11, <2>2, <3>1 DEF PulseReset
  <2> QED BY <2>1, <2>2
<1>12. ASSUME NEW j \in Jobs, Drop(j) PROVE Quiet(x)'
  <2>1. Doomed(x)
    BY <1>0, <1>12 DEF Drop, Doomed
  <2> QED BY <1>1, <1>12, <2>1 DEF Drop, Quiet
<1>13. ASSUME NEW j \in Jobs, Drain(j) PROVE Quiet(x)'
  <2>1. CASE Doomed(x)
    BY <1>2, <1>13, <2>1 DEF Drain
  <2>2. CASE x = Head(todo)
    <3>1. x \in Queued
      BY <1>13, <2>2, TailFacts DEF Drain, IInv, TypeOK, Queued, Elems
    <3>2. irqJob # x /\ slot # x /\ ~committed[x]
      BY <3>1 DEF IInv, Waiting
    <3> QED BY <1>13, <3>2 DEF Drain, Quiet, RInv, Committed
  <2> QED BY <1>0, <1>13, <2>1, <2>2 DEF Drain, Doomed
<1>14. ASSUME NEW j \in Jobs, Finish(j) \/ Fault(j) PROVE Quiet(x)'
  <2>1. Doomed(x)
    BY <1>14 DEF Finish, Fault, Doomed
  <2> QED BY <1>1, <1>14, <2>1 DEF Finish, Fault, Quiet
<1>15. CASE DebugReset
  BY <1>15 DEF DebugReset
<1>16. CASE IrqEnter \/ IrqStatus
  <2>1. Doomed(x)
    BY <1>16 DEF IrqEnter, IrqStatus, Doomed
  <2> QED BY <1>1, <1>16, <2>1 DEF IrqEnter, IrqStatus, Quiet
<1>17. CASE IrqDone
  <2>1. Doomed(x)
    BY <1>17 DEF IrqDone, Doomed
  <2>2. Quiet(x) /\ x # irqJob /\ irqPc # "idle"
    BY <1>1, <1>17, <2>1 DEF IrqDone, Quiet
  <2> QED BY <1>17, <2>2 DEF IrqDone, Commit, Quiet
<1>18. CASE IrqPublish
  <2>1. irqJob \in Jobs /\ done' = [done EXCEPT ![irqJob] = TRUE]
    BY <1>0, <1>18 DEF IrqPublish, IInv, Handler
  <2>2. Doomed(x) /\ ~done[x]
    BY <1>0, <1>18, <2>1 DEF IrqPublish, Doomed
  <2> QED BY <1>0, <1>1, <1>18, <2>2 DEF IrqPublish, Quiet
<1> QED
  BY <1>3, <1>4, <1>5, <1>6, <1>7, <1>8, <1>9, <1>10, <1>11, <1>12, <1>13, <1>14, <1>15, <1>16,
     <1>17, <1>18 DEF Next, Submitter, Irq

\* Initially nothing has been given up and nobody resets the core.
LEMMA ResetInit == Init => RInv
  BY JobAssumption DEF Init, RInv, Committed, ResetHeld, Reasons, ResetDue, Doomed

\* With the soft reset in use, RInv is invariant.
LEMMA ResetInv == ~BypassSoftReset /\ IInv /\ RInv /\ [Next]_vars => RInv'
<1> SUFFICES ASSUME ~BypassSoftReset, IInv, RInv, [Next]_vars PROVE RInv'
  OBVIOUS
<1>1. CASE Next
  BY <1>1, CommittedStep, ResetHeldStep, ReasonsStep, ResetDueStep DEF RInv, IInv
<1>2. CASE UNCHANGED vars
  BY <1>2 DEF vars, RInv, Committed, ResetHeld, Reasons, ResetDue, Doomed, Quiet
<1> QED BY <1>1, <1>2

\* A job leaves memory through its waiter or through its work item.
LEMMA FreedBy ==
  ASSUME TypeOK, [Next]_vars, NEW j \in Jobs, live[j], ~live'[j]
  PROVE  \/ pc[j] = "free"
         \/ j \in work
<1> USE DEF TypeOK
<1>1. CASE Free(j) \/ CleanupWork(j)
  BY <1>1 DEF Free, CleanupWork
<1>2. ASSUME NEW k \in Jobs, k # j, Free(k) \/ CleanupWork(k) \/ Submit(k) PROVE FALSE
  BY <1>2 DEF Free, CleanupWork, Submit
<1>3. CASE Submit(j)
  BY <1>3 DEF Submit
<1>4. ASSUME live' # live
      PROVE  \E k \in Jobs : Free(k) \/ CleanupWork(k) \/ Submit(k)
  BY <1>4 DEF Next, Submitter, Irq, Schedule, ScheduleNext, Woken, TimedOut, Unlink, Abort, Reset,
              CleanNothing, CleanOld, Drop, Drain, DrainEnd, Finish, Fault, PulseReset, DebugReset,
              IrqEnter, IrqStatus, IrqDone, IrqPublish, IrqNext, vars
<1> QED BY <1>1, <1>2, <1>3, <1>4

\* As long as the driver does not bypass its soft reset: a job is freed under the
\* hardware's hands only while a reset is coming, or when it was committed between
\* the last look of its waiter and the lock (rknpu_job_wait).
THEOREM FreedWhileRunning == ~BypassSoftReset => (Spec => NotFreedWhileRunning)
<1> SUFFICES ASSUME ~BypassSoftReset PROVE Spec => NotFreedWhileRunning
  OBVIOUS
<1> DEFINE Late == \A j \in Jobs : live[j] /\ ~live'[j] /\ j \in run /\ ~done[j] =>
                     ResetComing \/ ret[j] = "not_committed"
<1>1. Spec => []RInv
  <2>1. IInv /\ RInv /\ [Next]_vars => RInv'
    BY ResetInv
  <2> QED BY <2>1, ResetInit, Invariant, PTL DEF Spec
<1>2. IInv /\ RInv /\ [Next]_vars => Late
  <2> SUFFICES ASSUME IInv, RInv, [Next]_vars, NEW j \in Jobs, live[j], ~live'[j], j \in run, ~done[j]
               PROVE  softReseting \/ ret[j] = "not_committed"
    BY DEF ResetComing
  <2>1. pc[j] = "free" \/ j \in work
    BY FreedBy DEF IInv
  <2>2. Doomed(j) \/ ret[j] = "not_committed"
    BY <2>1 DEF Doomed, RInv, Reasons, IInv, TypeOK
  <2> QED BY <2>2 DEF RInv, ResetDue, Quiet
<1> QED BY <1>1, <1>2, Invariant, PTL DEF Spec, NotFreedWhileRunning
=============================================================================
