------------------------------- MODULE NpuJob -------------------------------
(***************************************************************************)
(* Jobs of the NPU driver (rknpu_job.c, rknpu_reset.c) on the one core the *)
(* RK3566 has: submitters queue jobs on todo_list, rknpu_job_next moves    *)
(* the head into the core's slot and programs the hardware, the interrupt  *)
(* handler ends it, and a submitter that waited too long takes it away and *)
(* resets the core.                                                        *)
(*                                                                         *)
(* A job is named by its submitter, which has one at a time; its name is   *)
(* used again only when nothing points to the old job any more.  A live    *)
(* job holds a reference on its task buffer from rknpu_job_alloc to        *)
(* rknpu_job_free.  A job longer than max_submit_number tasks is handed to *)
(* the hardware in several pieces.  Clients are all blocking or all        *)
(* RKNPU_JOB_NONBLOCK, and set RKNPU_JOB_PC as the SDK does.               *)
(*                                                                         *)
(* Timing: rknpu_job_next and the commit it ends with are one step (a      *)
(* committer is not preempted for longer than the 100 ms an abort sleeps). *)
(* An interrupt handler is not caught half-way by the end of the sleep of  *)
(* rknpu_soft_reset.  Clocks are abstract: a wait may time out whenever    *)
(* its job is not done, a job is `old' for timeout_clean whenever the slot *)
(* has one.                                                                *)
(***************************************************************************)
EXTENDS Integers, Sequences

CONSTANTS Jobs,      \* submitters, and the job each has
          NoJob,     \* the null pointer
          Debugger,  \* a writer of the debugfs file `reset'
          MaxPieces, \* most hardware submissions a job needs
          Rounds,    \* most rounds of rknpu_job_wait: 3
          BypassSoftReset \* rknpu_dev->bypass_soft_reset

ASSUME JobAssumption ==
  /\ NoJob \notin Jobs /\ Debugger \notin Jobs \cup {NoJob}
  /\ MaxPieces \in Nat \ {0} /\ Rounds \in Nat \ {0}
  /\ BypassSoftReset \in BOOLEAN

VARIABLES
  mode,         \* "block" or "async": how the clients submit
  pc,           \* where each submitter is in rknpu_submit
  ret,          \* job->ret of a blocking job that failed
  round,        \* wait_count
  live,         \* the job is allocated
  todo,         \* todo_list
  slot,         \* subcore_data->job
  committed,    \* job->last_task is set
  left,         \* hardware submissions the job still needs
  entered,      \* job->irq_entry
  done,         \* RKNPU_JOB_DONE
  run,          \* jobs the hardware is executing
  irq,          \* the interrupt line: "none", "ok", or "bad" for another status
  irqPc, irqJob, \* the interrupt handler and its `job'
  softReseting, \* rknpu_dev->soft_reseting
  resetter,     \* holder of reset_lock
  work,         \* jobs whose cleanup_work is queued
  found         \* the job each submitter's timeout_clean is dropping

vars == <<mode, pc, ret, round, live, todo, slot, committed, left, entered, done,
          run, irq, irqPc, irqJob, softReseting, resetter, work, found>>
hwVars == <<run, irq>>
irqVars == <<irqPc, irqJob>>
jobVars == <<committed, left, entered, done>>
queueVars == <<todo, slot>>
resetVars == <<softReseting, resetter>>
threadVars == <<pc, ret, round, found>>

Init == /\ mode \in {"block", "async"}
        /\ pc = [j \in Jobs |-> "idle"] /\ ret = [j \in Jobs |-> "none"]
        /\ round = [j \in Jobs |-> 0] /\ live = [j \in Jobs |-> FALSE]
        /\ todo = <<>> /\ slot = NoJob
        /\ committed = [j \in Jobs |-> FALSE] /\ left = [j \in Jobs |-> 0]
        /\ entered = [j \in Jobs |-> FALSE] /\ done = [j \in Jobs |-> FALSE]
        /\ run = {} /\ irq = "none" /\ irqPc = "idle" /\ irqJob = NoJob
        /\ softReseting = FALSE /\ resetter = NoJob
        /\ work = {} /\ found = [j \in Jobs |-> NoJob]

Queued == {todo[i] : i \in DOMAIN todo}

\* Something still points to j: its name may not be used for a new job.
PointedTo(j) == \/ live[j] \/ j \in Queued \cup work \cup run
                \/ slot = j \/ irqJob = j \/ \E k \in Jobs : found[k] = j

\* list_del of the entry of j, when it is on the list.
ListDel(list, j) ==
  IF \E i \in DOMAIN list : list[i] = j
  THEN LET p == CHOOSE k \in DOMAIN list : list[k] = j
       IN [i \in 1..(Len(list) - 1) |-> list[IF i < p THEN i ELSE i + 1]]
  ELSE list

Goto(j, l) == pc' = [pc EXCEPT ![j] = l]

-----------------------------------------------------------------------------
(* The queue and the core. *)

\* Program the core for j; the commit clears the interrupt of the job before.
Commit(j) == /\ committed' = [committed EXCEPT ![j] = TRUE]
             /\ run' = run \cup {j} /\ irq' = "none"

\* rknpu_job_next, with the commit.
JobNext ==
  IF softReseting \/ slot # NoJob \/ todo = <<>>
  THEN UNCHANGED <<queueVars, committed, hwVars>>
  ELSE /\ slot' = Head(todo) /\ todo' = Tail(todo)
       /\ Commit(Head(todo))

-----------------------------------------------------------------------------
(* rknpu_submit. *)

\* The checks, rknpu_job_alloc and the fences; a submit that fails here leaves
\* nothing behind.
Submit(j) ==
  /\ pc[j] = "idle" /\ ~PointedTo(j)
  /\ Goto(j, IF mode = "async" THEN "clean" ELSE "queue")
  /\ live' = [live EXCEPT ![j] = TRUE]
  /\ \E n \in 1..MaxPieces : left' = [left EXCEPT ![j] = n]
  /\ committed' = [committed EXCEPT ![j] = FALSE]
  /\ entered' = [entered EXCEPT ![j] = FALSE]
  /\ done' = [done EXCEPT ![j] = FALSE]
  /\ UNCHANGED <<mode, ret, round, queueVars, hwVars, irqVars, resetVars, work, found>>

\* rknpu_job_schedule: the locked section, then rknpu_job_next.
Schedule(j) ==
  /\ pc[j] = "queue" /\ Goto(j, "next")
  /\ todo' = Append(todo, j)
  /\ UNCHANGED <<mode, ret, round, live, slot, jobVars, hwVars, irqVars, resetVars, work, found>>

ScheduleNext(j) ==
  /\ pc[j] = "next" /\ Goto(j, IF mode = "async" THEN "idle" ELSE "wait")
  /\ JobNext
  /\ UNCHANGED <<mode, ret, round, live, left, entered, done, irqVars, resetVars, work, found>>

\* rknpu_job_wait, the end of a wait: `r' is what it returns if the job ran.
\* A job that was never committed is taken off the list first.
EndWait(j, r) ==
  IF committed[j] THEN /\ Goto(j, "abort") /\ ret' = [ret EXCEPT ![j] = r]
  ELSE /\ Goto(j, "unlink") /\ ret' = [ret EXCEPT ![j] = "not_committed"]

\* The event: the job is done, or the core is being reset.
Woken(j) ==
  /\ pc[j] = "wait" /\ (done[j] \/ softReseting)
  /\ IF done[j] THEN Goto(j, "free") /\ UNCHANGED ret ELSE EndWait(j, "reset")
  /\ round' = [round EXCEPT ![j] = 0]
  /\ UNCHANGED <<mode, live, queueVars, jobVars, hwVars, irqVars, resetVars, work, found>>

\* Mutant: the rounds are not counted.
TimedOutNoLimit(j) ==
  /\ pc[j] = "wait" /\ ~done[j] /\ ~softReseting
  /\ UNCHANGED round
  /\ \/ UNCHANGED <<pc, ret>>
     \/ committed[j] /\ EndWait(j, "timeout")
  /\ UNCHANGED <<mode, live, queueVars, jobVars, hwVars, irqVars, resetVars, work, found>>

\* A round times out.  It waits again if the hardware has not had the job for
\* the whole timeout, but not after the last round.
TimedOut(j) ==
  /\ pc[j] = "wait" /\ ~done[j] /\ ~softReseting
  /\ \/ /\ round[j] + 1 < Rounds /\ round' = [round EXCEPT ![j] = @ + 1]
        /\ UNCHANGED <<pc, ret>>
     \/ /\ round[j] + 1 >= Rounds \/ committed[j]
        /\ EndWait(j, "timeout") /\ round' = [round EXCEPT ![j] = 0]
  /\ UNCHANGED <<mode, live, queueVars, jobVars, hwVars, irqVars, resetVars, work, found>>

\* Mutant: a job that was not committed stays on the list.
UnlinkNothing(j) ==
  /\ pc[j] = "unlink" /\ Goto(j, "abort")
  /\ UNCHANGED <<mode, ret, round, live, queueVars, jobVars, hwVars, irqVars, resetVars, work, found>>

Unlink(j) ==
  /\ pc[j] = "unlink" /\ Goto(j, "abort")
  /\ todo' = ListDel(todo, j)
  /\ UNCHANGED <<mode, ret, round, live, slot, jobVars, hwVars, irqVars, resetVars, work, found>>

\* Mutant: the abort leaves the slot to the reset.
AbortKeepsSlot(j) ==
  /\ pc[j] = "abort"
  /\ Goto(j, IF ret[j] = "timeout" THEN "reset" ELSE "free")
  /\ UNCHANGED <<mode, ret, round, live, queueVars, jobVars, hwVars, irqVars, resetVars, work, found>>

\* rknpu_job_abort up to the reset, after its sleep.
Abort(j) ==
  /\ pc[j] = "abort"
  /\ Goto(j, IF ret[j] = "timeout" THEN "reset" ELSE "free")
  /\ slot' = IF slot = j /\ ~entered[j] THEN NoJob ELSE slot
  /\ UNCHANGED <<mode, ret, round, live, todo, jobVars, hwVars, irqVars, resetVars, work, found>>

\* rknpu_job_cleanup in the submitter, which then returns to user space.
Free(j) ==
  /\ pc[j] = "free" /\ Goto(j, "idle")
  /\ live' = [live EXCEPT ![j] = FALSE] /\ ret' = [ret EXCEPT ![j] = "none"]
  /\ UNCHANGED <<mode, round, queueVars, jobVars, hwVars, irqVars, resetVars, work, found>>

-----------------------------------------------------------------------------
(* rknpu_soft_reset. *)

AfterReset == IF mode = "async" THEN "drop" ELSE "free"

\* Mutant: a job that timed out is freed without a reset.
ResetSkipped(j) ==
  /\ pc[j] = "reset" /\ Goto(j, AfterReset)
  /\ UNCHANGED <<mode, ret, round, live, queueVars, jobVars, hwVars, irqVars, work, found, resetVars>>

\* Mutant: reset_lock is not taken.
ResetNotLocked(j) ==
  /\ pc[j] = "reset" /\ Goto(j, "resetting") /\ softReseting' = TRUE
  /\ UNCHANGED <<mode, ret, round, live, queueVars, jobVars, hwVars, irqVars, work, found, resetter>>

\* Bypassed, or another thread is resetting: returns at once.
Reset(j) ==
  /\ pc[j] = "reset"
  /\ IF BypassSoftReset \/ resetter # NoJob
     THEN Goto(j, AfterReset) /\ UNCHANGED resetVars
     ELSE Goto(j, "resetting") /\ resetter' = j /\ softReseting' = TRUE
  /\ UNCHANGED <<mode, ret, round, live, queueVars, jobVars, hwVars, irqVars, work, found>>

\* The sleep is over: assert and deassert the lines.  A line that fails leaves
\* soft_reseting set, and the hardware as it was or reset.
PulseReset(a) ==
  /\ resetter = a /\ irqPc = "idle" /\ resetter' = NoJob
  /\ \/ run' = {} /\ irq' = "none" /\ softReseting' = FALSE
     \/ UNCHANGED <<hwVars, softReseting>>
     \/ run' = {} /\ irq' = "none" /\ UNCHANGED softReseting
  /\ IF a \in Jobs THEN Goto(a, AfterReset) ELSE UNCHANGED pc
  /\ UNCHANGED <<mode, ret, round, live, queueVars, jobVars, irqVars, work, found>>

\* The debugfs file `reset', and the reset of the rknpu_action ioctl.
DebugReset ==
  /\ resetter = NoJob /\ ~BypassSoftReset
  /\ resetter' = Debugger /\ softReseting' = TRUE
  /\ UNCHANGED <<mode, threadVars, live, queueVars, jobVars, hwVars, irqVars, work>>

-----------------------------------------------------------------------------
(* rknpu_job_timeout_clean, before a NONBLOCK job is queued. *)

CleanNothing(j) ==
  /\ pc[j] = "clean" /\ Goto(j, "queue")
  /\ UNCHANGED <<mode, ret, round, live, queueVars, jobVars, hwVars, irqVars, resetVars, work, found>>

CleanOld(j) ==
  /\ pc[j] = "clean" /\ slot # NoJob /\ Goto(j, "reset")
  /\ found' = [found EXCEPT ![j] = slot]
  /\ UNCHANGED <<mode, ret, round, live, queueVars, jobVars, hwVars, irqVars, resetVars, work>>

\* After the reset: take the old job out of the slot and schedule its cleanup.
Drop(j) ==
  /\ pc[j] = "drop" /\ Goto(j, "drain")
  /\ slot' = IF slot = found[j] THEN NoJob ELSE slot
  /\ todo' = ListDel(todo, found[j])
  /\ work' = work \cup {found[j]}
  /\ found' = [found EXCEPT ![j] = NoJob]
  /\ UNCHANGED <<mode, ret, round, live, jobVars, hwVars, irqVars, resetVars>>

\* The loop that empties the list: one turn, and its end.
Drain(j) ==
  /\ pc[j] = "drain" /\ todo # <<>>
  /\ todo' = Tail(todo) /\ work' = work \cup {Head(todo)}
  /\ UNCHANGED <<mode, threadVars, live, slot, jobVars, hwVars, irqVars, resetVars>>

DrainEnd(j) ==
  /\ pc[j] = "drain" /\ todo = <<>> /\ Goto(j, "queue")
  /\ UNCHANGED <<mode, ret, round, live, queueVars, jobVars, hwVars, irqVars, resetVars, work, found>>

\* The work item of an async job.
CleanupWork(j) ==
  /\ j \in work /\ work' = work \ {j}
  /\ live' = [live EXCEPT ![j] = FALSE]
  /\ UNCHANGED <<mode, threadVars, queueVars, jobVars, hwVars, irqVars, resetVars>>

-----------------------------------------------------------------------------
(* rknpu_irq_handler and the hardware. *)

IrqEnter ==
  /\ irqPc = "idle" /\ irq # "none"
  /\ IF slot = NoJob
     THEN irqPc' = "next" /\ irq' = "none" /\ UNCHANGED <<irqJob, entered>>
     ELSE /\ irqPc' = "status" /\ irqJob' = slot /\ UNCHANGED irq
          /\ entered' = [entered EXCEPT ![slot] = TRUE]
  /\ UNCHANGED <<mode, threadVars, live, queueVars, committed, left, done, run, resetVars, work>>

\* A status other than the job's mask (also one a reset has cleared) is only
\* cleared: the job stays where it is.
IrqStatus ==
  /\ irqPc = "status" /\ irq' = "none"
  /\ IF irq = "ok" THEN irqPc' = "done" /\ UNCHANGED irqJob
     ELSE irqPc' = "idle" /\ irqJob' = NoJob
  /\ UNCHANGED <<mode, threadVars, live, queueVars, jobVars, run, resetVars, work>>

\* rknpu_job_done: the next piece, or the slot is freed.
IrqDone ==
  /\ irqPc = "done"
  /\ left' = [left EXCEPT ![irqJob] = @ - 1]
  /\ IF left[irqJob] > 1
     THEN /\ irqPc' = "idle" /\ irqJob' = NoJob
          /\ Commit(irqJob) /\ UNCHANGED slot
     ELSE irqPc' = "publish" /\ slot' = NoJob /\ UNCHANGED <<irqJob, committed, hwVars>>
  /\ UNCHANGED <<mode, threadVars, live, todo, entered, done, resetVars, work>>

\* RKNPU_JOB_DONE, the fence, the cleanup of an async job, and the wake-up.
IrqPublish ==
  /\ irqPc = "publish" /\ irqPc' = "next" /\ irqJob' = NoJob
  /\ done' = [done EXCEPT ![irqJob] = TRUE]
  /\ work' = IF mode = "async" THEN work \cup {irqJob} ELSE work
  /\ UNCHANGED <<mode, threadVars, live, queueVars, committed, left, entered, hwVars, resetVars>>

IrqNext ==
  /\ irqPc = "next" /\ irqPc' = "idle"
  /\ JobNext
  /\ UNCHANGED <<mode, threadVars, live, left, entered, done, irqJob, resetVars, work>>

\* The hardware ends a piece, or reports something else and may go on or not.
Finish(j) == /\ j \in run /\ run' = run \ {j} /\ irq' = "ok"
             /\ UNCHANGED <<mode, threadVars, live, queueVars, jobVars, irqVars, resetVars, work>>
Fault(j) == /\ j \in run /\ run' \in {run, run \ {j}} /\ irq' = "bad"
            /\ UNCHANGED <<mode, threadVars, live, queueVars, jobVars, irqVars, resetVars, work>>

-----------------------------------------------------------------------------
Submitter(j) ==
  \/ Schedule(j) \/ ScheduleNext(j) \/ Woken(j) \/ TimedOut(j) \/ Unlink(j)
  \/ Abort(j) \/ Free(j) \/ Reset(j)
  \/ CleanNothing(j) \/ CleanOld(j) \/ Drop(j) \/ Drain(j) \/ DrainEnd(j)

Irq == IrqEnter \/ IrqStatus \/ IrqDone \/ IrqPublish \/ IrqNext

Next == \/ \E j \in Jobs : \/ Submit(j) \/ Submitter(j) \/ CleanupWork(j)
                           \/ Finish(j) \/ Fault(j)
        \/ \E a \in Jobs \cup {Debugger} : PulseReset(a)
        \/ DebugReset \/ Irq

Spec == Init /\ [][Next]_vars

\* The kernel runs its threads; nobody has to submit or to write to debugfs, the
\* hardware may hang and work items may wait.  The sleep in a reset ends between
\* two interrupts however many there are, and the loop that drains the list, two
\* short locked sections, does not lose to new submits for ever: these two are
\* strongly fair.
FairSpec == /\ Spec /\ WF_vars(Irq)
            /\ \A j \in Jobs : /\ WF_vars(Submitter(j))
                              /\ SF_vars(PulseReset(j) \/ DrainEnd(j))

-----------------------------------------------------------------------------
Pcs == {"idle", "queue", "next", "wait", "unlink", "abort", "free", "reset",
        "resetting", "clean", "drop", "drain"}

\* The values each variable takes; the holder of reset_lock is the thread that
\* sleeps in rknpu_soft_reset.
TypeOK ==
  /\ mode \in {"block", "async"}
  /\ pc \in [Jobs -> Pcs]
  /\ ret \in [Jobs -> {"none", "not_committed", "timeout", "reset"}]
  /\ round \in [Jobs -> 0..(Rounds - 1)]
  /\ live \in [Jobs -> BOOLEAN]
  /\ todo \in Seq(Jobs) /\ slot \in Jobs \cup {NoJob}
  /\ committed \in [Jobs -> BOOLEAN] /\ entered \in [Jobs -> BOOLEAN]
  /\ done \in [Jobs -> BOOLEAN] /\ left \in [Jobs -> 0..MaxPieces]
  /\ run \subseteq Jobs /\ irq \in {"none", "ok", "bad"}
  /\ irqPc \in {"idle", "status", "done", "publish", "next"}
  /\ irqJob \in Jobs \cup {NoJob}
  /\ softReseting \in BOOLEAN /\ resetter \in Jobs \cup {NoJob, Debugger}
  /\ work \subseteq Jobs /\ found \in [Jobs -> Jobs \cup {NoJob}]
  /\ \A j \in Jobs : pc[j] = "resetting" <=> resetter = j

\* todo_list never links a freed job, and no job twice: whichever of the waiter,
\* timeout_clean and the interrupt handler gives a job up takes it off first.
QueueHoldsLiveJobs ==
  /\ \A i \in DOMAIN todo : live[todo[i]]
  /\ \A i, k \in DOMAIN todo : i # k => todo[i] # todo[k]

\* rknpu_job_abort and rknpu_job_timeout_clean clear the slot before the job in it
\* is freed.  The one exception is a job whose irq_entry an interrupt has set:
\* the abort leaves it in the slot for the handler.
SlotNotAbandoned == slot # NoJob /\ ~live[slot] => entered[slot]

\* A reset that a thread has decided on or is doing.
ResetComing == softReseting \/ \E j \in Jobs : pc[j] = "reset"

\* A job that is given up, with its reference on the task buffer, is freed while
\* the hardware still executes it only if a reset of the core is coming, or
\* (`not_committed') if it was committed between the last look of its waiter
\* and the lock.
NotFreedWhileRunning ==
  [][\A j \in Jobs : live[j] /\ ~live'[j] /\ j \in run /\ ~done[j] =>
       ResetComing \/ ret[j] = "not_committed"]_vars

\* Every rknpu_submit returns, whatever the hardware, the resets and the other
\* submitters do.
SubmitReturns == \A j \in Jobs : pc[j] # "idle" ~> pc[j] = "idle"
=============================================================================
