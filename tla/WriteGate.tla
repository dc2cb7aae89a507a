----------------------------- MODULE WriteGate -----------------------------
(***************************************************************************)
(* The write gate of the installer: the commands of the GUI process        *)
(* (installer/src-tauri/src/main.rs), the helper process each one spawns   *)
(* (installer/engine/src/main.rs), the kill-on-close job and the operation *)
(* mutex of the logon session (installer/engine/src/win.rs).               *)
(*                                                                         *)
(* Several GUI processes may run in one session.  A GUI runs one command at a   *)
(* time (the tokio mutex `busy'), a command runs at most one helper, and   *)
(* the helper of a storage write waits for a byte "G" on its stdin before  *)
(* it touches the eMMC.  Cancelling, closing the window and granting the   *)
(* byte race with each other, with the helper, with a timeout and with the *)
(* death of the GUI process.                                               *)
(***************************************************************************)
EXTENDS Naturals, Sequences

CONSTANTS
  App,      \* GUI processes
  Cmd,      \* command slots: at most one running command each
  AppOf,    \* the GUI a slot belongs to
  KindOf,   \* what the slot's commands do, see Kinds
  None      \* no command

\* storage     storage_execute: gated helper, may be cancelled
\* factory     factory_execute: helper that writes without a gate
\* maintenance connectivity_execute: no helper, HTTP requests to the board
\* read        every other command that waits for `busy' and runs a helper
\* poll        list_devices: gives up when `busy' is taken
Kinds == {"storage", "factory", "maintenance", "read", "poll"}

ASSUME SlotAssumption == /\ AppOf \in [Cmd -> App]
                         /\ KindOf \in [Cmd -> Kinds]
                         /\ None \notin Cmd

VARIABLES
  window,   \* "open", "closing" (close accepted, process not yet gone), "gone"
  stage,    \* WriteControl.stage
  writing,  \* the GUIs with WriteControl.writing up, the flag that blocks closing
  busy,     \* owner of State.busy, or None
  waiters,  \* commands queued on State.busy, first come first served
  pc,       \* where each command is
  late,     \* the commands whose running helper's timeout has elapsed
  \* The helper process of each slot, possibly outliving its command:
  helper,   \* none; started (process exists); preflight (owns the OS mutex);
            \* waiting (sent write-ready, blocked on stdin); writing; exited
  jobbed,   \* the slots whose helper is in the kill-on-close job
  ready,    \* the slots with write-ready in the parent's channel
  permit,   \* the slots with the byte "G" in the helper's pipe
  opLock    \* the slot whose helper owns the OS mutex, or None

gui == <<window, stage, writing, busy, waiters>>
pipes == <<ready, permit>>
proc == <<helper, jobbed, ready, permit, opLock>>
vars == <<gui, pc, late, proc>>

Stages == {"Idle", "Preparing", "Cancelled", "Writing", "Closing"}
Labels == {"idle", "queued", "locked", "spawn", "contain", "drain",
           "cancelCheck", "exitCheck", "maintain", "finish", "release"}

HelperStates == {"none", "started", "preflight", "waiting", "writing", "exited"}

\* Commands whose end clears the `writing' flag.
Writers == {"storage", "factory", "maintenance"}
AfterRun(c) == IF KindOf[c] \in Writers THEN "finish" ELSE "release"

\* The parent holds the helper's pipes.
Attached(c) == pc[c] \in {"contain", "drain", "cancelCheck", "exitCheck"}

Init == /\ window  = [a \in App |-> "open"]
        /\ stage   = [a \in App |-> "Idle"]
        /\ writing = {}
        /\ busy    = [a \in App |-> None]
        /\ waiters = [a \in App |-> <<>>]
        /\ pc      = [c \in Cmd |-> "idle"]
        /\ late    = {}
        /\ helper  = [c \in Cmd |-> "none"]
        /\ jobbed  = {}
        /\ ready   = {}
        /\ permit  = {}
        /\ opLock  = None

-----------------------------------------------------------------------------
(* The commands of the GUI. *)

Go(c, from, to) == /\ pc[c] = from
                   /\ pc' = [pc EXCEPT ![c] = to]

\* A click (or the 2-second poll) invokes a command: it takes `busy', queues
\* behind its owner, or, for the poll, returns DEVICE_BUSY at once.  (A slot is
\* reused only once its previous helper is gone: a bound on live helpers.)
Request(c) ==
  /\ window[AppOf[c]] = "open"
  /\ helper[c] = "none"
  /\ \/ /\ busy[AppOf[c]] = None
        /\ busy' = [busy EXCEPT ![AppOf[c]] = c]
        /\ Go(c, "idle", "locked")
        /\ UNCHANGED waiters
     \/ /\ busy[AppOf[c]] # None
        /\ KindOf[c] # "poll"
        /\ waiters' = [waiters EXCEPT ![AppOf[c]] = Append(@, c)]
        /\ Go(c, "idle", "queued")
        /\ UNCHANGED busy
  /\ UNCHANGED <<window, stage, writing, late, proc>>

\* The mutex was handed to the command while it waited.
Wake(c) == /\ busy[AppOf[c]] = c
           /\ Go(c, "queued", "locked")
           /\ UNCHANGED <<gui, late, proc>>

\* WriteControl::begin of storage_execute.
Begin(c) ==
  /\ KindOf[c] = "storage"
  /\ IF stage[AppOf[c]] = "Closing"
     THEN Go(c, "locked", "release") /\ UNCHANGED stage
     ELSE /\ Go(c, "locked", "spawn")
          /\ stage' = [stage EXCEPT ![AppOf[c]] = "Preparing"]
  /\ UNCHANGED <<window, writing, busy, waiters, late, proc>>

\* Mutant: the flag stays down.
RaiseNothing(c) ==
  /\ KindOf[c] \in {"factory", "maintenance"}
  /\ Go(c, "locked", IF KindOf[c] = "factory" THEN "spawn" ELSE "maintain")
  /\ UNCHANGED <<gui, late, proc>>

\* factory_execute and connectivity_execute raise `writing' directly, under
\* `busy' but not under the stage lock.
RaiseWriting(c) ==
  /\ KindOf[c] \in {"factory", "maintenance"}
  /\ Go(c, "locked", IF KindOf[c] = "factory" THEN "spawn" ELSE "maintain")
  /\ writing' = writing \cup {AppOf[c]}
  /\ UNCHANGED <<window, stage, busy, waiters, late, proc>>

\* connectivity_execute finds no plan in memory.
NoPlan(c) == /\ KindOf[c] = "maintenance"
             /\ Go(c, "locked", "release")
             /\ UNCHANGED <<gui, late, proc>>

\* Commands that write nothing run their helper at once.
RunPlain(c) == /\ KindOf[c] \in {"read", "poll"}
               /\ Go(c, "locked", "spawn")
               /\ UNCHANGED <<gui, late, proc>>

MaintenanceDone(c) == /\ Go(c, "maintain", "finish")
                      /\ UNCHANGED <<gui, late, proc>>

\* run_helper_controlled: the process is created, or cannot be.
Spawn(c) ==
  /\ \/ /\ Go(c, "spawn", "contain")
        /\ helper' = [helper EXCEPT ![c] = "started"]
     \/ Go(c, "spawn", AfterRun(c)) /\ UNCHANGED helper
  /\ UNCHANGED <<gui, late, jobbed, pipes, opLock>>

\* The process dies, or was dead and is reaped: the OS mutex is abandoned.
Kill(c) == /\ helper' = [helper EXCEPT ![c] = "none"]
           /\ jobbed' = jobbed \ {c}
           /\ ready' = ready \ {c}
           /\ permit' = permit \ {c}
           /\ opLock' = IF opLock = c THEN None ELSE opLock
KillAndLeave(c) == /\ pc' = [pc EXCEPT ![c] = AfterRun(c)]
                   /\ late' = late \ {c}
                   /\ Kill(c)

\* win::contain_child right after the spawn; on failure the child is killed.
Contain(c) ==
  /\ pc[c] = "contain"
  /\ \/ /\ pc' = [pc EXCEPT ![c] = "drain"]
        /\ jobbed' = jobbed \cup {c}
        /\ UNCHANGED <<late, helper, pipes, opLock>>
     \/ KillAndLeave(c)
  /\ UNCHANGED gui

\* Mutant: the permission does not leave stage Preparing.
PermitKeepStage(c) == /\ writing' = writing \cup {AppOf[c]}
                      /\ UNCHANGED stage

\* WriteControl::permit, atomic under the stage lock.
Permit(c) == /\ writing' = writing \cup {AppOf[c]}
             /\ stage' = [stage EXCEPT ![AppOf[c]] = "Writing"]

\* One turn of the 50 ms loop, first part: the messages of the helper.  The
\* permission is granted only in stage Preparing; a write to the pipe of a
\* helper that is gone fails after the flag was raised.
Drain(c) ==
  /\ pc[c] = "drain"
  /\ \/ /\ c \notin ready
        /\ pc' = [pc EXCEPT ![c] = "cancelCheck"]
        /\ UNCHANGED <<stage, writing, late, proc>>
     \/ /\ c \in ready
        /\ stage[AppOf[c]] = "Preparing"
        /\ Permit(c)
        /\ IF helper[c] = "waiting"
           THEN /\ ready' = ready \ {c}
                /\ permit' = permit \cup {c}
                /\ pc' = [pc EXCEPT ![c] = "cancelCheck"]
                /\ UNCHANGED <<late, helper, jobbed, opLock>>
           ELSE KillAndLeave(c)
     \/ /\ c \in ready
        /\ stage[AppOf[c]] # "Preparing"
        /\ KillAndLeave(c)
        /\ UNCHANGED <<stage, writing>>
  /\ UNCHANGED <<window, busy, waiters>>

\* Second part: a cancelled or closing storage command kills its helper.
CancelCheck(c) ==
  /\ pc[c] = "cancelCheck"
  /\ IF KindOf[c] = "storage" /\ stage[AppOf[c]] \in {"Cancelled", "Closing"}
     THEN KillAndLeave(c)
     ELSE pc' = [pc EXCEPT ![c] = "exitCheck"] /\ UNCHANGED <<late, proc>>
  /\ UNCHANGED gui

\* Third part: leave when the helper exited, kill it when it is late.  When
\* try_wait itself fails, leaving drops the job, which kills the helper too.
ExitCheck(c) ==
  /\ pc[c] = "exitCheck"
  /\ \/ KillAndLeave(c)
     \/ /\ helper[c] # "exited" /\ c \notin late
        /\ pc' = [pc EXCEPT ![c] = "drain"]
        /\ UNCHANGED <<late, proc>>
  /\ UNCHANGED gui

\* The helper's 30 s to 24 h allowance runs out.
Timeout(c) == /\ Attached(c) /\ c \notin late
              /\ late' = late \cup {c}
              /\ UNCHANGED <<gui, pc, proc>>

\* Mutant: only a storage write lowers the flag.
FinishStorageOnly(c) ==
  /\ Go(c, "finish", "release")
  /\ IF KindOf[c] = "storage"
     THEN writing' = writing \ {AppOf[c]} ELSE UNCHANGED writing
  /\ stage' = IF KindOf[c] = "storage" /\ stage[AppOf[c]] # "Closing"
              THEN [stage EXCEPT ![AppOf[c]] = "Idle"] ELSE stage
  /\ UNCHANGED <<window, busy, waiters, late, proc>>

\* Mutant: only a write that was permitted returns to Idle.
FinishWrittenOnly(c) ==
  /\ Go(c, "finish", "release")
  /\ writing' = writing \ {AppOf[c]}
  /\ stage' = IF KindOf[c] = "storage" /\ stage[AppOf[c]] = "Writing"
              THEN [stage EXCEPT ![AppOf[c]] = "Idle"] ELSE stage
  /\ UNCHANGED <<window, busy, waiters, late, proc>>

\* WriteControl::finish of storage_execute; the plain store of the others.
Finish(c) ==
  /\ Go(c, "finish", "release")
  /\ writing' = writing \ {AppOf[c]}
  /\ stage' = IF KindOf[c] = "storage" /\ stage[AppOf[c]] # "Closing"
              THEN [stage EXCEPT ![AppOf[c]] = "Idle"] ELSE stage
  /\ UNCHANGED <<window, busy, waiters, late, proc>>

\* Mutant: the mutex is freed without waking the queue.
ReleaseNoHandOff(c) ==
  /\ Go(c, "release", "idle")
  /\ busy' = [busy EXCEPT ![AppOf[c]] = None]
  /\ UNCHANGED <<window, stage, writing, waiters, late, proc>>

\* Mutant: the whole queue becomes the owner.
ReleaseToQueue(c) ==
  /\ Go(c, "release", "idle")
  /\ busy' = [busy EXCEPT ![AppOf[c]] = waiters[AppOf[c]]]
  /\ waiters' = [waiters EXCEPT ![AppOf[c]] = <<>>]
  /\ UNCHANGED <<window, stage, writing, late, proc>>

\* The guard is dropped: the mutex goes to the first command in the queue.
Release(c) ==
  /\ Go(c, "release", "idle")
  /\ LET a == AppOf[c] IN
       IF waiters[a] = <<>>
       THEN busy' = [busy EXCEPT ![a] = None] /\ UNCHANGED waiters
       ELSE /\ busy' = [busy EXCEPT ![a] = Head(waiters[a])]
            /\ waiters' = [waiters EXCEPT ![a] = Tail(@)]
  /\ UNCHANGED <<window, stage, writing, late, proc>>

CommandStep(c) == \/ Wake(c) \/ Begin(c) \/ RaiseWriting(c) \/ NoPlan(c)
                  \/ RunPlain(c) \/ MaintenanceDone(c) \/ Spawn(c) \/ Contain(c)
                  \/ Drain(c) \/ CancelCheck(c) \/ ExitCheck(c)
                  \/ Finish(c) \/ Release(c)

-----------------------------------------------------------------------------
(* The window. *)

\* Mutant: a cancel is acknowledged in every stage.
CancelAnyStage(a) ==
  /\ window[a] = "open"
  /\ stage' = [stage EXCEPT ![a] = "Cancelled"]
  /\ UNCHANGED <<window, writing, busy, waiters, pc, late, proc>>

\* storage_cancel
Cancel(a) == /\ window[a] = "open"
             /\ stage[a] \in {"Preparing", "Cancelled"}
             /\ stage' = [stage EXCEPT ![a] = "Cancelled"]
             /\ UNCHANGED <<window, writing, busy, waiters, pc, late, proc>>

\* Mutant: an accepted close leaves the stage alone.
CloseKeepStage(a) == /\ window[a] = "open"
                     /\ a \notin writing
                     /\ window' = [window EXCEPT ![a] = "closing"]
                     /\ UNCHANGED <<stage, writing, busy, waiters, pc, late, proc>>

\* close_blocked returned false: the window is destroyed.  When `writing' is
\* up the request is refused and nothing changes.
Close(a) == /\ window[a] = "open"
            /\ a \notin writing
            /\ stage' = [stage EXCEPT ![a] = "Closing"]
            /\ window' = [window EXCEPT ![a] = "closing"]
            /\ UNCHANGED <<writing, busy, waiters, pc, late, proc>>

\* The helpers that end with their GUI: those in its job, and the exited.
Dies(a, c) == AppOf[c] = a /\ (c \in jobbed \/ helper[c] = "exited")

\* The process ends, after a close or in a crash.  Its memory is lost and its
\* job handles are closed, which kills the contained helpers.
Die(a) ==
  /\ window[a] # "gone"
  /\ window' = [window EXCEPT ![a] = "gone"]
  /\ stage' = [stage EXCEPT ![a] = "Idle"]
  /\ writing' = writing \ {a}
  /\ busy' = [busy EXCEPT ![a] = None]
  /\ waiters' = [waiters EXCEPT ![a] = <<>>]
  /\ pc' = [c \in Cmd |-> IF AppOf[c] = a THEN "idle" ELSE pc[c]]
  /\ late' = {c \in late : AppOf[c] # a}
  /\ helper' = [c \in Cmd |-> IF Dies(a, c) THEN "none" ELSE helper[c]]
  /\ jobbed' = {c \in jobbed : ~Dies(a, c)}
  /\ ready' = {c \in ready : AppOf[c] # a}
  /\ permit' = {c \in permit : ~Dies(a, c)}
  /\ opLock' = IF \E c \in Cmd : opLock = c /\ Dies(a, c) THEN None ELSE opLock

\* The user starts the program again.
Restart(a) == /\ window[a] = "gone"
              /\ window' = [window EXCEPT ![a] = "open"]
              /\ UNCHANGED <<stage, writing, busy, waiters, pc, late, proc>>

-----------------------------------------------------------------------------
(* The helper process. *)

HelperGoes(c, from, to) == /\ helper[c] = from
                           /\ helper' = [helper EXCEPT ![c] = to]

\* Mutant: the mutex is opened, its owner ignored.
HelperLockShared(c) == /\ opLock' = c
                       /\ HelperGoes(c, "started", "preflight")
                       /\ UNCHANGED <<gui, pc, late, jobbed, pipes>>

\* operation_lock does not wait: a second operation exits with DEVICE_BUSY.
\* A mutex abandoned by a dead process counts as acquired.
HelperLock(c) == /\ opLock = None
                 /\ opLock' = c
                 /\ HelperGoes(c, "started", "preflight")
                 /\ UNCHANGED <<gui, pc, late, jobbed, pipes>>

\* storage-execute-gated after its preflight: write-ready on stderr, then a
\* blocking read of stdin.  Without a reader the print panics instead.
HelperReady(c) == /\ KindOf[c] = "storage"
                  /\ Attached(c)
                  /\ HelperGoes(c, "preflight", "waiting")
                  /\ ready' = ready \cup {c}
                  /\ UNCHANGED <<gui, pc, late, jobbed, permit, opLock>>

\* The byte arrives.
HelperGo(c) == /\ c \in permit
               /\ HelperGoes(c, "waiting", "writing")
               /\ UNCHANGED <<gui, pc, late, jobbed, pipes, opLock>>

\* factory-execute reports its preflight and writes without asking.
HelperWrite(c) == /\ KindOf[c] = "factory"
                  /\ Attached(c)
                  /\ HelperGoes(c, "preflight", "writing")
                  /\ UNCHANGED <<gui, pc, late, jobbed, pipes, opLock>>

\* The process ends by itself, successfully or not; a helper blocked on stdin
\* only at the end of file its parent's death causes.
HelperExit(c) ==
  /\ \/ helper[c] \in {"started", "preflight", "writing"}
     \/ helper[c] = "waiting" /\ ~Attached(c)
  /\ helper' = [helper EXCEPT ![c] = IF Attached(c) THEN "exited" ELSE "none"]
  /\ opLock' = IF opLock = c THEN None ELSE opLock
  /\ UNCHANGED <<gui, pc, late, jobbed, pipes>>

HelperStep(c) == \/ HelperLock(c) \/ HelperReady(c) \/ HelperGo(c)
                 \/ HelperWrite(c) \/ HelperExit(c)

-----------------------------------------------------------------------------
Next == \/ \E c \in Cmd : Request(c) \/ CommandStep(c) \/ Timeout(c) \/ HelperStep(c)
        \/ \E a \in App : Cancel(a) \/ Close(a) \/ Die(a) \/ Restart(a)

Spec == Init /\ [][Next]_vars

\* The async runtime and the worker thread make progress, clocks advance and
\* every HTTP request of a maintenance run is bounded by its 900 s timeout.
\* Nothing is assumed of helpers, of the user or of crashes.
FairSpec == /\ Spec
            /\ \A c \in Cmd : WF_vars(CommandStep(c)) /\ WF_vars(Timeout(c))

-----------------------------------------------------------------------------
(* Properties. *)

\* The types of the GUI's, the helpers' and the OS mutex's state.
TypeOK == /\ window \in [App -> {"open", "closing", "gone"}]
          /\ stage \in [App -> Stages]
          /\ writing \subseteq App
          /\ busy \in [App -> Cmd \cup {None}]
          /\ waiters \in [App -> Seq(Cmd)]
          /\ pc \in [Cmd -> Labels]
          /\ late \subseteq Cmd
          /\ helper \in [Cmd -> HelperStates]
          /\ jobbed \subseteq Cmd
          /\ ready \subseteq Cmd
          /\ permit \subseteq Cmd
          /\ opLock \in Cmd \cup {None}

Permitted(c) == c \in permit \/ helper[c] = "writing"

\* From the moment run_helper_controlled grants "G" (main.rs:36) until finish,
\* across every race of cancel, close, timeout and crash: the gated helper is
\* attached to a live GUI whose window is open, the close guard is up and the
\* stage refuses a cancel.
PermissionGuarded ==
  \A c \in Cmd : KindOf[c] = "storage" /\ Permitted(c) =>
    /\ Attached(c)
    /\ window[AppOf[c]] = "open"
    /\ AppOf[c] \in writing
    /\ stage[AppOf[c]] = "Writing"

\* A cancel the program acknowledged, or a close it accepted, never meets a
\* gated helper that may write (main.rs:22, 30, 34; api-contract.md:156-160).
CancelNeverWrites ==
  \A c \in Cmd : KindOf[c] = "storage"
                 /\ stage[AppOf[c]] \in {"Idle", "Preparing", "Cancelled", "Closing"}
                   => ~Permitted(c)

\* The flag that blocks closing is up whenever the helper of a running command
\* writes, whatever the command (main.rs:36, 261): lowering it (main.rs:39, 263)
\* waits for the helper's end on every path out of the polling loop.
WriterRaisesFlag ==
  \A c \in Cmd : helper[c] = "writing" /\ Attached(c) => AppOf[c] \in writing

\* Two helpers never hold the USB device at once, whichever GUIs spawned them
\* and whether or not those GUIs still live (engine/src/main.rs:8-10).
OneUsbOwner ==
  \A c, d \in Cmd :
    /\ helper[c] \in {"preflight", "waiting", "writing"}
    /\ helper[d] \in {"preflight", "waiting", "writing"}
    => c = d

\* `writing' returns to FALSE once the command that raised it is over, so a
\* failed or cancelled command never leaves the window unclosable.
FlagLowered == \A a \in writing :
                 /\ busy[a] # None
                 /\ pc[busy[a]] \in {"spawn", "contain", "drain", "cancelCheck",
                                     "exitCheck", "maintain", "finish"}

\* Once a close is accepted no later step of that process lets a gated helper
\* write (main.rs:28-29).
CloseWins ==
  [][\A c \in Cmd : KindOf[c] = "storage" /\ window[AppOf[c]] = "closing"
                      => ~Permitted(c)']_vars

\* A command that waits for `busy' returns to its caller although no helper is
\* assumed to answer: the timeouts alone guarantee it.
QueuedCommandEnds == \A c \in Cmd : pc[c] = "queued" ~> pc[c] = "idle"

\* An acknowledged cancel ends the preparation.
CancelEnds == \A a \in App : stage[a] = "Cancelled" ~> stage[a] # "Cancelled"

\* api-contract.md:460-461 "normal window close [is] blocked during maintenance
\* execution": connectivity_execute raises the flag outside the stage lock.
MaintenanceBlocksClose ==
  \A c \in Cmd : pc[c] = "maintain" => window[AppOf[c]] = "open"

\* api-contract.md:238-239 "closing or crashing the app does not leave an orphan
\* USB operation running": a helper is uncontained between spawn and
\* contain_child (main.rs:63-65).
NoOrphan ==
  \A c \in Cmd : helper[c] \in {"started", "preflight", "waiting", "writing"}
                   => Attached(c)
=============================================================================
