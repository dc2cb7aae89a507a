-------------------------- MODULE WriteGateProofs --------------------------
(***************************************************************************)
(* Proofs about WriteGate for every set of GUIs and command slots.         *)
(*                                                                         *)
(* The safety properties of the gate are not inductive: that a granted     *)
(* helper keeps the close guard up depends on who owns `busy', on which    *)
(* stages a closing window can be in, and on the job that ties a granted   *)
(* helper to its parent.  IInv collects these facts.                       *)
(***************************************************************************)
EXTENDS WriteGate, TLAPS, SequenceTheorems

Flagged == {"spawn", "contain", "drain", "cancelCheck", "exitCheck",
            "maintain", "finish"}

Slots(a) == {c \in Cmd : AppOf[c] = a}

\* A command past the queue owns its GUI's `busy'; owners and waiters belong
\* to the GUI; commands exist only in live processes.
Ownership ==
  /\ \A c \in Cmd : pc[c] \notin {"idle", "queued"} => busy[AppOf[c]] = c
  /\ \A c \in Cmd : pc[c] # "idle" => window[AppOf[c]] # "gone"
  /\ \A a \in App : busy[a] # None => AppOf[busy[a]] = a
  /\ \A a \in App : waiters[a] \in Seq(Slots(a))

\* A closing window has stage Closing, and only an open one has a stage in
\* which a storage command is under way.
StageOfWindow ==
  \A a \in App : /\ window[a] = "closing" => stage[a] = "Closing"
                 /\ stage[a] \in {"Preparing", "Cancelled", "Writing"}
                      => window[a] = "open"

\* A helper is in the job exactly while its parent polls it; an exited one
\* waits to be reaped; only gated helpers ask, and only gated or manufacturer
\* helpers write.
Containment ==
  \A c \in Cmd :
    /\ (c \in jobbed) <=> pc[c] \in {"drain", "cancelCheck", "exitCheck"}
    /\ helper[c] = "exited" => Attached(c)
    /\ c \in ready => KindOf[c] = "storage"
    /\ c \in permit => KindOf[c] = "storage"
    /\ helper[c] = "writing" => KindOf[c] \in {"storage", "factory"}

\* A granted gated helper is contained, with the stage and the flag set.
Granted ==
  \A c \in Cmd : KindOf[c] = "storage" /\ Permitted(c) =>
    /\ c \in jobbed
    /\ stage[AppOf[c]] = "Writing"
    /\ AppOf[c] \in writing

\* The flag is up while an ungated writer runs.
FlagRaised ==
  \A c \in Cmd : KindOf[c] \in {"factory", "maintenance"} /\ pc[c] \in Flagged
                    => AppOf[c] \in writing

\* A raised flag has an owner that will lower it.
FlagOwner ==
  \A a \in writing : /\ busy[a] # None
                         /\ pc[busy[a]] \in Flagged
                         /\ KindOf[busy[a]] \in Writers

\* A helper past operation_lock owns the OS mutex.
MutexOwner ==
  \A c \in Cmd : helper[c] \in {"preflight", "waiting", "writing"} => opLock = c

IInv == /\ TypeOK
        /\ Ownership
        /\ StageOfWindow
        /\ Containment
        /\ Granted
        /\ FlagRaised
        /\ FlagOwner
        /\ MutexOwner

-----------------------------------------------------------------------------

\* Every step keeps the types.
LEMMA TypeInvariant ==
  TypeOK /\ [Next]_vars => TypeOK'
<1> SUFFICES ASSUME TypeOK, [Next]_vars PROVE TypeOK'
  OBVIOUS
<1> USE SlotAssumption DEF TypeOK, gui, pipes, proc, Labels, Stages, HelperStates
<1>1. ASSUME NEW c \in Cmd, Request(c) PROVE TypeOK'
  <2>1. Append(waiters[AppOf[c]], c) \in Seq(Cmd)
    BY AppendProperties
  <2>2. waiters' \in [App -> Seq(Cmd)]
    BY <1>1, <2>1 DEF Request
  <2>3. busy' \in [App -> Cmd \cup {None}]
    BY <1>1 DEF Request
  <2>4. pc' \in [Cmd -> Labels]
    BY <1>1 DEF Request, Go
  <2> QED
    BY <1>1, <2>2, <2>3, <2>4 DEF Request
<1>2. ASSUME NEW c \in Cmd, Wake(c) PROVE TypeOK'
  BY <1>2 DEF Wake, Go
<1>3. ASSUME NEW c \in Cmd, Begin(c) PROVE TypeOK'
  BY <1>3 DEF Begin, Go
<1>4. ASSUME NEW c \in Cmd, RaiseWriting(c) PROVE TypeOK'
  BY <1>4 DEF RaiseWriting, Go
<1>5. ASSUME NEW c \in Cmd, NoPlan(c) PROVE TypeOK'
  BY <1>5 DEF NoPlan, Go
<1>6. ASSUME NEW c \in Cmd, RunPlain(c) PROVE TypeOK'
  BY <1>6 DEF RunPlain, Go
<1>7. ASSUME NEW c \in Cmd, MaintenanceDone(c) PROVE TypeOK'
  BY <1>7 DEF MaintenanceDone, Go
<1>8. ASSUME NEW c \in Cmd, Spawn(c) PROVE TypeOK'
  BY <1>8 DEF Spawn, Go, AfterRun
<1>9. ASSUME NEW c \in Cmd, Contain(c) PROVE TypeOK'
  BY <1>9 DEF Contain, KillAndLeave, Kill, AfterRun
<1>10. ASSUME NEW c \in Cmd, Drain(c) PROVE TypeOK'
  <2>1. Permit(c) \/ UNCHANGED <<stage, writing>>
    BY <1>10 DEF Drain
  <2>2. stage' \in [App -> Stages] /\ writing' \subseteq App
    <3>1. CASE Permit(c)
      <4>1. writing' \subseteq App
        BY <3>1 DEF Permit
      <4>2. stage' \in [App -> Stages]
        BY <3>1 DEF Permit
      <4> QED
        BY <4>1, <4>2
    <3>2. CASE UNCHANGED <<stage, writing>>
      BY <3>2
    <3> QED
      BY <2>1, <3>1, <3>2
  <2>3. KillAndLeave(c) \/ (pc' = [pc EXCEPT ![c] = "cancelCheck"] /\ late' = late)
    BY <1>10 DEF Drain
  <2>4. pc' \in [Cmd -> Labels] /\ late' \subseteq Cmd
    BY <2>3 DEF KillAndLeave, AfterRun
  <2>5. \/ KillAndLeave(c)
        \/ /\ UNCHANGED <<helper, jobbed, opLock>>
           /\ ready' \subseteq ready /\ permit' \subseteq permit \cup {c}
    BY <1>10 DEF Drain
  <2>6. /\ helper' \in [Cmd -> HelperStates]
        /\ jobbed' \subseteq Cmd /\ ready' \subseteq Cmd /\ permit' \subseteq Cmd
        /\ opLock' \in Cmd \cup {None}
    BY <2>5 DEF KillAndLeave, Kill
  <2> QED
    BY <1>10, <2>2, <2>4, <2>6 DEF Drain
<1>11. ASSUME NEW c \in Cmd, CancelCheck(c) PROVE TypeOK'
  BY <1>11 DEF CancelCheck, KillAndLeave, Kill, AfterRun
<1>12. ASSUME NEW c \in Cmd, ExitCheck(c) PROVE TypeOK'
  BY <1>12 DEF ExitCheck, KillAndLeave, Kill, AfterRun
<1>13. ASSUME NEW c \in Cmd, Finish(c) PROVE TypeOK'
  BY <1>13 DEF Finish, Go
<1>14. ASSUME NEW c \in Cmd, Release(c) PROVE TypeOK'
  <2> DEFINE q == waiters[AppOf[c]]
  <2>1. q # <<>> => Head(q) \in Cmd /\ Tail(q) \in Seq(Cmd)
    BY HeadTailProperties
  <2>2. waiters' \in [App -> Seq(Cmd)]
    BY <1>14, <2>1 DEF Release
  <2>3. busy' \in [App -> Cmd \cup {None}]
    BY <1>14, <2>1 DEF Release
  <2> QED
    BY <1>14, <2>2, <2>3 DEF Release, Go
<1>15. ASSUME NEW c \in Cmd, Timeout(c) PROVE TypeOK'
  BY <1>15 DEF Timeout
<1>16. ASSUME NEW c \in Cmd, HelperLock(c) PROVE TypeOK'
  BY <1>16 DEF HelperLock, HelperGoes
<1>17. ASSUME NEW c \in Cmd, HelperReady(c) PROVE TypeOK'
  BY <1>17 DEF HelperReady, HelperGoes, Attached
<1>18. ASSUME NEW c \in Cmd, HelperGo(c) PROVE TypeOK'
  BY <1>18 DEF HelperGo, HelperGoes
<1>19. ASSUME NEW c \in Cmd, HelperWrite(c) PROVE TypeOK'
  BY <1>19 DEF HelperWrite, HelperGoes, Attached
<1>20. ASSUME NEW c \in Cmd, HelperExit(c) PROVE TypeOK'
  BY <1>20 DEF HelperExit, Attached
<1>21. ASSUME NEW a \in App, Cancel(a) PROVE TypeOK'
  BY <1>21 DEF Cancel
<1>22. ASSUME NEW a \in App, Close(a) PROVE TypeOK'
  BY <1>22 DEF Close
<1>23. ASSUME NEW a \in App, Die(a) PROVE TypeOK'
  BY <1>23 DEF Die, Dies
<1>24. ASSUME NEW a \in App, Restart(a) PROVE TypeOK'
  BY <1>24 DEF Restart
<1>25. ASSUME UNCHANGED vars PROVE TypeOK'
  BY <1>25 DEF vars
<1> QED
  BY <1>1, <1>2, <1>3, <1>4, <1>5, <1>6, <1>7, <1>8, <1>9, <1>10, <1>11, <1>12, <1>13, <1>14, <1>15, <1>16, <1>17, <1>18, <1>19, <1>20, <1>21, <1>22, <1>23, <1>24, <1>25 DEF Next, CommandStep, HelperStep

\* `busy' is handed from owner to owner; a queue holds commands of its GUI.
LEMMA OwnershipInductive ==
  TypeOK /\ Ownership /\ [Next]_vars => Ownership'
<1> SUFFICES ASSUME TypeOK /\ Ownership, [Next]_vars PROVE Ownership'
  OBVIOUS
<1> USE SlotAssumption DEF TypeOK, gui, pipes, proc, Ownership
<1>1. ASSUME NEW c \in Cmd, Request(c) PROVE Ownership'
  <2>1. Append(waiters[AppOf[c]], c) \in Seq(Slots(AppOf[c]))
    BY AppendProperties DEF Slots
  <2>2. \A a \in App : waiters'[a] \in Seq(Slots(a))
    BY <1>1, <2>1 DEF Request
  <2>3. CASE busy[AppOf[c]] = None
    <3>1. busy' = [busy EXCEPT ![AppOf[c]] = c] /\ pc' = [pc EXCEPT ![c] = "locked"]
      BY <1>1, <2>3 DEF Request, Go
    <3>2. window' = window /\ window[AppOf[c]] # "gone"
      BY <1>1 DEF Request
    <3>3. \A d \in Cmd : pc'[d] \notin {"idle", "queued"} => busy'[AppOf[d]] = d
      BY <2>3, <3>1
    <3>4. \A a \in App : busy'[a] # None => AppOf[busy'[a]] = a
      BY <3>1
    <3> QED
      BY <2>2, <3>1, <3>2, <3>3, <3>4
  <2>4. CASE busy[AppOf[c]] # None
    <3>1. busy' = busy /\ pc' = [pc EXCEPT ![c] = "queued"]
      BY <1>1, <2>4 DEF Request, Go
    <3>2. window' = window /\ window[AppOf[c]] # "gone"
      BY <1>1 DEF Request
    <3> QED
      BY <2>2, <3>1, <3>2
  <2> QED
    BY <2>3, <2>4
<1>2. ASSUME NEW c \in Cmd, Wake(c) PROVE Ownership'
  BY <1>2 DEF Wake, Go
<1>3. ASSUME NEW c \in Cmd, Begin(c) PROVE Ownership'
  BY <1>3 DEF Begin, Go
<1>4. ASSUME NEW c \in Cmd, RaiseWriting(c) PROVE Ownership'
  BY <1>4 DEF RaiseWriting, Go
<1>5. ASSUME NEW c \in Cmd, NoPlan(c) PROVE Ownership'
  BY <1>5 DEF NoPlan, Go
<1>6. ASSUME NEW c \in Cmd, RunPlain(c) PROVE Ownership'
  BY <1>6 DEF RunPlain, Go
<1>7. ASSUME NEW c \in Cmd, MaintenanceDone(c) PROVE Ownership'
  BY <1>7 DEF MaintenanceDone, Go
<1>8. ASSUME NEW c \in Cmd, Spawn(c) PROVE Ownership'
  BY <1>8 DEF Spawn, Go, AfterRun
<1>9. ASSUME NEW c \in Cmd, Contain(c) PROVE Ownership'
  BY <1>9 DEF Contain, KillAndLeave, Kill, AfterRun
<1>10. ASSUME NEW c \in Cmd, Drain(c) PROVE Ownership'
  BY <1>10 DEF Drain, KillAndLeave, Kill, AfterRun, Permit
<1>11. ASSUME NEW c \in Cmd, CancelCheck(c) PROVE Ownership'
  BY <1>11 DEF CancelCheck, KillAndLeave, Kill, AfterRun
<1>12. ASSUME NEW c \in Cmd, ExitCheck(c) PROVE Ownership'
  BY <1>12 DEF ExitCheck, KillAndLeave, Kill, AfterRun
<1>13. ASSUME NEW c \in Cmd, Finish(c) PROVE Ownership'
  BY <1>13 DEF Finish, Go
<1>14. ASSUME NEW c \in Cmd, Release(c) PROVE Ownership'
  <2> DEFINE q == waiters[AppOf[c]]
  <2>1. q # <<>> => /\ Head(q) \in Slots(AppOf[c])
                    /\ Tail(q) \in Seq(Slots(AppOf[c]))
    BY HeadTailProperties
  <2>2. \A a \in App : waiters'[a] \in Seq(Slots(a))
    BY <1>14, <2>1 DEF Release
  <2>3. \A a \in App : busy'[a] # None => AppOf[busy'[a]] = a
    BY <1>14, <2>1 DEF Release, Slots
  <2>4. busy[AppOf[c]] = c /\ \A a \in App \ {AppOf[c]} : busy'[a] = busy[a]
    BY <1>14 DEF Release, Go
  <2>5. \A d \in Cmd \ {c} : pc[d] \notin {"idle", "queued"} => busy'[AppOf[d]] = d
    BY <2>4
  <2>6. pc' = [pc EXCEPT ![c] = "idle"] /\ window' = window
    BY <1>14 DEF Release, Go
  <2> QED
    BY <2>2, <2>3, <2>5, <2>6
<1>15. ASSUME NEW c \in Cmd, Timeout(c) PROVE Ownership'
  BY <1>15 DEF Timeout
<1>16. ASSUME NEW c \in Cmd, HelperLock(c) PROVE Ownership'
  BY <1>16 DEF HelperLock, HelperGoes
<1>17. ASSUME NEW c \in Cmd, HelperReady(c) PROVE Ownership'
  BY <1>17 DEF HelperReady, HelperGoes, Attached
<1>18. ASSUME NEW c \in Cmd, HelperGo(c) PROVE Ownership'
  BY <1>18 DEF HelperGo, HelperGoes
<1>19. ASSUME NEW c \in Cmd, HelperWrite(c) PROVE Ownership'
  BY <1>19 DEF HelperWrite, HelperGoes, Attached
<1>20. ASSUME NEW c \in Cmd, HelperExit(c) PROVE Ownership'
  BY <1>20 DEF HelperExit, Attached
<1>21. ASSUME NEW a \in App, Cancel(a) PROVE Ownership'
  BY <1>21 DEF Cancel
<1>22. ASSUME NEW a \in App, Close(a) PROVE Ownership'
  BY <1>22 DEF Close
<1>23. ASSUME NEW a \in App, Die(a) PROVE Ownership'
  BY <1>23 DEF Die, Dies
<1>24. ASSUME NEW a \in App, Restart(a) PROVE Ownership'
  BY <1>24 DEF Restart
<1>25. ASSUME UNCHANGED vars PROVE Ownership'
  BY <1>25 DEF vars
<1> QED
  BY <1>1, <1>2, <1>3, <1>4, <1>5, <1>6, <1>7, <1>8, <1>9, <1>10, <1>11, <1>12, <1>13, <1>14, <1>15, <1>16, <1>17, <1>18, <1>19, <1>20, <1>21, <1>22, <1>23, <1>24, <1>25 DEF Next, CommandStep, HelperStep

\* close_blocked is the only way to a closing window.
LEMMA StageInductive ==
  TypeOK /\ Ownership /\ StageOfWindow /\ [Next]_vars => StageOfWindow'
<1> SUFFICES ASSUME TypeOK /\ Ownership /\ StageOfWindow, [Next]_vars PROVE StageOfWindow'
  OBVIOUS
<1> USE SlotAssumption DEF TypeOK, gui, pipes, proc, Ownership, StageOfWindow
<1>1. ASSUME NEW c \in Cmd, Request(c) PROVE StageOfWindow'
  BY <1>1 DEF Request, Go
<1>2. ASSUME NEW c \in Cmd, Wake(c) PROVE StageOfWindow'
  BY <1>2 DEF Wake, Go
<1>3. ASSUME NEW c \in Cmd, Begin(c) PROVE StageOfWindow'
  BY <1>3 DEF Begin, Go
<1>4. ASSUME NEW c \in Cmd, RaiseWriting(c) PROVE StageOfWindow'
  BY <1>4 DEF RaiseWriting, Go
<1>5. ASSUME NEW c \in Cmd, NoPlan(c) PROVE StageOfWindow'
  BY <1>5 DEF NoPlan, Go
<1>6. ASSUME NEW c \in Cmd, RunPlain(c) PROVE StageOfWindow'
  BY <1>6 DEF RunPlain, Go
<1>7. ASSUME NEW c \in Cmd, MaintenanceDone(c) PROVE StageOfWindow'
  BY <1>7 DEF MaintenanceDone, Go
<1>8. ASSUME NEW c \in Cmd, Spawn(c) PROVE StageOfWindow'
  BY <1>8 DEF Spawn, Go, AfterRun
<1>9. ASSUME NEW c \in Cmd, Contain(c) PROVE StageOfWindow'
  BY <1>9 DEF Contain, KillAndLeave, Kill, AfterRun
<1>10. ASSUME NEW c \in Cmd, Drain(c) PROVE StageOfWindow'
  BY <1>10 DEF Drain, KillAndLeave, Kill, AfterRun, Permit
<1>11. ASSUME NEW c \in Cmd, CancelCheck(c) PROVE StageOfWindow'
  BY <1>11 DEF CancelCheck, KillAndLeave, Kill, AfterRun
<1>12. ASSUME NEW c \in Cmd, ExitCheck(c) PROVE StageOfWindow'
  BY <1>12 DEF ExitCheck, KillAndLeave, Kill, AfterRun
<1>13. ASSUME NEW c \in Cmd, Finish(c) PROVE StageOfWindow'
  BY <1>13 DEF Finish, Go
<1>14. ASSUME NEW c \in Cmd, Release(c) PROVE StageOfWindow'
  BY <1>14 DEF Release, Go
<1>15. ASSUME NEW c \in Cmd, Timeout(c) PROVE StageOfWindow'
  BY <1>15 DEF Timeout
<1>16. ASSUME NEW c \in Cmd, HelperLock(c) PROVE StageOfWindow'
  BY <1>16 DEF HelperLock, HelperGoes
<1>17. ASSUME NEW c \in Cmd, HelperReady(c) PROVE StageOfWindow'
  BY <1>17 DEF HelperReady, HelperGoes, Attached
<1>18. ASSUME NEW c \in Cmd, HelperGo(c) PROVE StageOfWindow'
  BY <1>18 DEF HelperGo, HelperGoes
<1>19. ASSUME NEW c \in Cmd, HelperWrite(c) PROVE StageOfWindow'
  BY <1>19 DEF HelperWrite, HelperGoes, Attached
<1>20. ASSUME NEW c \in Cmd, HelperExit(c) PROVE StageOfWindow'
  BY <1>20 DEF HelperExit, Attached
<1>21. ASSUME NEW a \in App, Cancel(a) PROVE StageOfWindow'
  BY <1>21 DEF Cancel
<1>22. ASSUME NEW a \in App, Close(a) PROVE StageOfWindow'
  BY <1>22 DEF Close
<1>23. ASSUME NEW a \in App, Die(a) PROVE StageOfWindow'
  BY <1>23 DEF Die, Dies
<1>24. ASSUME NEW a \in App, Restart(a) PROVE StageOfWindow'
  BY <1>24 DEF Restart
<1>25. ASSUME UNCHANGED vars PROVE StageOfWindow'
  BY <1>25 DEF vars
<1> QED
  BY <1>1, <1>2, <1>3, <1>4, <1>5, <1>6, <1>7, <1>8, <1>9, <1>10, <1>11, <1>12, <1>13, <1>14, <1>15, <1>16, <1>17, <1>18, <1>19, <1>20, <1>21, <1>22, <1>23, <1>24, <1>25 DEF Next, CommandStep, HelperStep

\* The job follows the polling loop.
LEMMA ContainmentInductive ==
  TypeOK /\ Containment /\ [Next]_vars => Containment'
<1> SUFFICES ASSUME TypeOK /\ Containment, [Next]_vars PROVE Containment'
  OBVIOUS
<1> USE SlotAssumption DEF TypeOK, gui, pipes, proc, Containment, Attached, Writers
<1>1. ASSUME NEW c \in Cmd, Request(c) PROVE Containment'
  BY <1>1 DEF Request, Go
<1>2. ASSUME NEW c \in Cmd, Wake(c) PROVE Containment'
  BY <1>2 DEF Wake, Go
<1>3. ASSUME NEW c \in Cmd, Begin(c) PROVE Containment'
  <2>1. CASE stage[AppOf[c]] = "Closing"
    BY <1>3, <2>1 DEF Begin, Go
  <2>2. CASE stage[AppOf[c]] # "Closing"
    BY <1>3, <2>2 DEF Begin, Go
  <2> QED
    BY <1>3, <2>1, <2>2 DEF Begin
<1>4. ASSUME NEW c \in Cmd, RaiseWriting(c) PROVE Containment'
  BY <1>4 DEF RaiseWriting, Go
<1>5. ASSUME NEW c \in Cmd, NoPlan(c) PROVE Containment'
  BY <1>5 DEF NoPlan, Go
<1>6. ASSUME NEW c \in Cmd, RunPlain(c) PROVE Containment'
  BY <1>6 DEF RunPlain, Go
<1>7. ASSUME NEW c \in Cmd, MaintenanceDone(c) PROVE Containment'
  BY <1>7 DEF MaintenanceDone, Go
<1>8. ASSUME NEW c \in Cmd, Spawn(c) PROVE Containment'
  BY <1>8 DEF Spawn, Go, AfterRun
<1>9. ASSUME NEW c \in Cmd, Contain(c) PROVE Containment'
  <2>1. CASE KillAndLeave(c)
    BY <1>9, <2>1 DEF Contain, KillAndLeave, Kill, AfterRun
  <2>2. CASE ~KillAndLeave(c)
    <3>1. /\ pc' = [pc EXCEPT ![c] = "drain"] /\ jobbed' = jobbed \cup {c}
          /\ UNCHANGED <<helper, ready, permit>>
      BY <1>9, <2>2 DEF Contain
    <3> QED
      BY <1>9, <3>1 DEF Contain
  <2> QED
    BY <2>1, <2>2
<1>10. ASSUME NEW c \in Cmd, Drain(c) PROVE Containment'
  BY <1>10 DEF Drain, KillAndLeave, Kill, AfterRun, Permit
<1>11. ASSUME NEW c \in Cmd, CancelCheck(c) PROVE Containment'
  BY <1>11 DEF CancelCheck, KillAndLeave, Kill, AfterRun
<1>12. ASSUME NEW c \in Cmd, ExitCheck(c) PROVE Containment'
  <2>1. CASE KillAndLeave(c)
    BY <1>12, <2>1 DEF ExitCheck, KillAndLeave, Kill, AfterRun
  <2>2. CASE ~KillAndLeave(c)
    BY <1>12, <2>2 DEF ExitCheck
  <2> QED
    BY <1>12, <2>1, <2>2 DEF ExitCheck
<1>13. ASSUME NEW c \in Cmd, Finish(c) PROVE Containment'
  BY <1>13 DEF Finish, Go
<1>14. ASSUME NEW c \in Cmd, Release(c) PROVE Containment'
  BY <1>14 DEF Release, Go
<1>15. ASSUME NEW c \in Cmd, Timeout(c) PROVE Containment'
  BY <1>15 DEF Timeout
<1>16. ASSUME NEW c \in Cmd, HelperLock(c) PROVE Containment'
  BY <1>16 DEF HelperLock, HelperGoes
<1>17. ASSUME NEW c \in Cmd, HelperReady(c) PROVE Containment'
  BY <1>17 DEF HelperReady, HelperGoes, Attached
<1>18. ASSUME NEW c \in Cmd, HelperGo(c) PROVE Containment'
  BY <1>18 DEF HelperGo, HelperGoes
<1>19. ASSUME NEW c \in Cmd, HelperWrite(c) PROVE Containment'
  BY <1>19 DEF HelperWrite, HelperGoes, Attached
<1>20. ASSUME NEW c \in Cmd, HelperExit(c) PROVE Containment'
  BY <1>20 DEF HelperExit, Attached
<1>21. ASSUME NEW a \in App, Cancel(a) PROVE Containment'
  BY <1>21 DEF Cancel
<1>22. ASSUME NEW a \in App, Close(a) PROVE Containment'
  BY <1>22 DEF Close
<1>23. ASSUME NEW a \in App, Die(a) PROVE Containment'
  BY <1>23 DEF Die, Dies
<1>24. ASSUME NEW a \in App, Restart(a) PROVE Containment'
  BY <1>24 DEF Restart
<1>25. ASSUME UNCHANGED vars PROVE Containment'
  BY <1>25 DEF vars
<1> QED
  BY <1>1, <1>2, <1>3, <1>4, <1>5, <1>6, <1>7, <1>8, <1>9, <1>10, <1>11, <1>12, <1>13, <1>14, <1>15, <1>16, <1>17, <1>18, <1>19, <1>20, <1>21, <1>22, <1>23, <1>24, <1>25 DEF Next, CommandStep, HelperStep

\* A command outside the polling loop shares its GUI with no contained helper.
LEMMA LoopOwnsGui ==
  ASSUME TypeOK, Ownership, Containment, NEW c \in Cmd, NEW d \in Cmd,
         d \in jobbed,
         pc[c] \notin {"idle", "queued", "drain", "cancelCheck", "exitCheck"}
  PROVE  AppOf[d] # AppOf[c]
<1>1. pc[d] \in {"drain", "cancelCheck", "exitCheck"}
  BY DEF Containment
<1>2. busy[AppOf[c]] = c /\ busy[AppOf[d]] = d
  BY <1>1 DEF Ownership
<1> QED
  BY <1>1, <1>2

\* A granted helper outlives neither its parent, nor the flag, nor the stage.
LEMMA GrantedInductive ==
  TypeOK /\ Ownership /\ StageOfWindow /\ Containment /\ Granted /\ [Next]_vars => Granted'
<1> SUFFICES ASSUME TypeOK /\ Ownership /\ StageOfWindow /\ Containment /\ Granted, [Next]_vars PROVE Granted'
  OBVIOUS
<1> USE SlotAssumption DEF TypeOK, gui, pipes, proc, Ownership, StageOfWindow, Containment, Granted, Permitted
<1>1. ASSUME NEW c \in Cmd, Request(c) PROVE Granted'
  BY <1>1 DEF Request, Go
<1>2. ASSUME NEW c \in Cmd, Wake(c) PROVE Granted'
  BY <1>2 DEF Wake, Go
<1>3. ASSUME NEW c \in Cmd, Begin(c) PROVE Granted'
  <2>1. \A d \in jobbed : AppOf[d] # AppOf[c]
    BY <1>3, LoopOwnsGui DEF Begin, Go
  <2> QED
    BY <1>3, <2>1 DEF Begin
<1>4. ASSUME NEW c \in Cmd, RaiseWriting(c) PROVE Granted'
  BY <1>4 DEF RaiseWriting, Go
<1>5. ASSUME NEW c \in Cmd, NoPlan(c) PROVE Granted'
  BY <1>5 DEF NoPlan, Go
<1>6. ASSUME NEW c \in Cmd, RunPlain(c) PROVE Granted'
  BY <1>6 DEF RunPlain, Go
<1>7. ASSUME NEW c \in Cmd, MaintenanceDone(c) PROVE Granted'
  BY <1>7 DEF MaintenanceDone, Go
<1>8. ASSUME NEW c \in Cmd, Spawn(c) PROVE Granted'
  BY <1>8 DEF Spawn, Go, AfterRun
<1>9. ASSUME NEW c \in Cmd, Contain(c) PROVE Granted'
  BY <1>9 DEF Contain, KillAndLeave, Kill, AfterRun
<1>10. ASSUME NEW c \in Cmd, Drain(c) PROVE Granted'
  BY <1>10 DEF Drain, KillAndLeave, Kill, AfterRun, Permit
<1>11. ASSUME NEW c \in Cmd, CancelCheck(c) PROVE Granted'
  BY <1>11 DEF CancelCheck, KillAndLeave, Kill, AfterRun
<1>12. ASSUME NEW c \in Cmd, ExitCheck(c) PROVE Granted'
  BY <1>12 DEF ExitCheck, KillAndLeave, Kill, AfterRun
<1>13. ASSUME NEW c \in Cmd, Finish(c) PROVE Granted'
  <2>1. \A d \in jobbed : AppOf[d] # AppOf[c]
    BY <1>13, LoopOwnsGui DEF Finish, Go
  <2> QED
    BY <1>13, <2>1 DEF Finish
<1>14. ASSUME NEW c \in Cmd, Release(c) PROVE Granted'
  BY <1>14 DEF Release, Go
<1>15. ASSUME NEW c \in Cmd, Timeout(c) PROVE Granted'
  BY <1>15 DEF Timeout
<1>16. ASSUME NEW c \in Cmd, HelperLock(c) PROVE Granted'
  BY <1>16 DEF HelperLock, HelperGoes
<1>17. ASSUME NEW c \in Cmd, HelperReady(c) PROVE Granted'
  BY <1>17 DEF HelperReady, HelperGoes, Attached
<1>18. ASSUME NEW c \in Cmd, HelperGo(c) PROVE Granted'
  BY <1>18 DEF HelperGo, HelperGoes
<1>19. ASSUME NEW c \in Cmd, HelperWrite(c) PROVE Granted'
  BY <1>19 DEF HelperWrite, HelperGoes, Attached
<1>20. ASSUME NEW c \in Cmd, HelperExit(c) PROVE Granted'
  BY <1>20 DEF HelperExit, Attached
<1>21. ASSUME NEW a \in App, Cancel(a) PROVE Granted'
  BY <1>21 DEF Cancel
<1>22. ASSUME NEW a \in App, Close(a) PROVE Granted'
  BY <1>22 DEF Close
<1>23. ASSUME NEW a \in App, Die(a) PROVE Granted'
  BY <1>23 DEF Die, Dies
<1>24. ASSUME NEW a \in App, Restart(a) PROVE Granted'
  BY <1>24 DEF Restart
<1>25. ASSUME UNCHANGED vars PROVE Granted'
  BY <1>25 DEF vars
<1> QED
  BY <1>1, <1>2, <1>3, <1>4, <1>5, <1>6, <1>7, <1>8, <1>9, <1>10, <1>11, <1>12, <1>13, <1>14, <1>15, <1>16, <1>17, <1>18, <1>19, <1>20, <1>21, <1>22, <1>23, <1>24, <1>25 DEF Next, CommandStep, HelperStep

\* An ungated writer raises the flag and lowers it last.
LEMMA FlagRaisedInductive ==
  TypeOK /\ Ownership /\ FlagRaised /\ [Next]_vars => FlagRaised'
<1> SUFFICES ASSUME TypeOK /\ Ownership /\ FlagRaised, [Next]_vars PROVE FlagRaised'
  OBVIOUS
<1> USE SlotAssumption DEF TypeOK, gui, pipes, proc, Ownership, FlagRaised, Flagged
<1>1. ASSUME NEW c \in Cmd, Request(c) PROVE FlagRaised'
  BY <1>1 DEF Request, Go
<1>2. ASSUME NEW c \in Cmd, Wake(c) PROVE FlagRaised'
  BY <1>2 DEF Wake, Go
<1>3. ASSUME NEW c \in Cmd, Begin(c) PROVE FlagRaised'
  BY <1>3 DEF Begin, Go
<1>4. ASSUME NEW c \in Cmd, RaiseWriting(c) PROVE FlagRaised'
  BY <1>4 DEF RaiseWriting, Go
<1>5. ASSUME NEW c \in Cmd, NoPlan(c) PROVE FlagRaised'
  BY <1>5 DEF NoPlan, Go
<1>6. ASSUME NEW c \in Cmd, RunPlain(c) PROVE FlagRaised'
  BY <1>6 DEF RunPlain, Go
<1>7. ASSUME NEW c \in Cmd, MaintenanceDone(c) PROVE FlagRaised'
  BY <1>7 DEF MaintenanceDone, Go
<1>8. ASSUME NEW c \in Cmd, Spawn(c) PROVE FlagRaised'
  BY <1>8 DEF Spawn, Go, AfterRun
<1>9. ASSUME NEW c \in Cmd, Contain(c) PROVE FlagRaised'
  <2>1. CASE KillAndLeave(c)
    BY <1>9, <2>1 DEF Contain, KillAndLeave, Kill, AfterRun
  <2>2. CASE ~KillAndLeave(c)
    BY <1>9, <2>2 DEF Contain
  <2> QED
    BY <1>9, <2>1, <2>2 DEF Contain
<1>10. ASSUME NEW c \in Cmd, Drain(c) PROVE FlagRaised'
  <2>1. CASE c \notin ready
    BY <1>10, <2>1 DEF Drain
  <2>2. CASE c \in ready /\ stage[AppOf[c]] = "Preparing" /\ helper[c] = "waiting"
    BY <1>10, <2>2 DEF Drain, Permit
  <2>3. CASE c \in ready /\ stage[AppOf[c]] = "Preparing" /\ helper[c] # "waiting"
    BY <1>10, <2>3 DEF Drain, KillAndLeave, Kill, AfterRun, Permit
  <2>4. CASE c \in ready /\ stage[AppOf[c]] # "Preparing"
    BY <1>10, <2>4 DEF Drain, KillAndLeave, Kill, AfterRun
  <2> QED
    BY <1>10, <2>1, <2>2, <2>3, <2>4 DEF Drain
<1>11. ASSUME NEW c \in Cmd, CancelCheck(c) PROVE FlagRaised'
  <2>1. CASE KindOf[c] = "storage" /\ stage[AppOf[c]] \in {"Cancelled", "Closing"}
    BY <1>11, <2>1 DEF CancelCheck, KillAndLeave, Kill, AfterRun
  <2>2. CASE ~(KindOf[c] = "storage" /\ stage[AppOf[c]] \in {"Cancelled", "Closing"})
    BY <1>11, <2>2 DEF CancelCheck
  <2> QED
    BY <1>11, <2>1, <2>2 DEF CancelCheck
<1>12. ASSUME NEW c \in Cmd, ExitCheck(c) PROVE FlagRaised'
  <2>1. CASE KillAndLeave(c)
    BY <1>12, <2>1 DEF ExitCheck, KillAndLeave, Kill, AfterRun
  <2>2. CASE ~KillAndLeave(c)
    BY <1>12, <2>2 DEF ExitCheck
  <2> QED
    BY <1>12, <2>1, <2>2 DEF ExitCheck
<1>13. ASSUME NEW c \in Cmd, Finish(c) PROVE FlagRaised'
  BY <1>13 DEF Finish, Go
<1>14. ASSUME NEW c \in Cmd, Release(c) PROVE FlagRaised'
  BY <1>14 DEF Release, Go
<1>15. ASSUME NEW c \in Cmd, Timeout(c) PROVE FlagRaised'
  BY <1>15 DEF Timeout
<1>16. ASSUME NEW c \in Cmd, HelperLock(c) PROVE FlagRaised'
  BY <1>16 DEF HelperLock, HelperGoes
<1>17. ASSUME NEW c \in Cmd, HelperReady(c) PROVE FlagRaised'
  BY <1>17 DEF HelperReady, HelperGoes, Attached
<1>18. ASSUME NEW c \in Cmd, HelperGo(c) PROVE FlagRaised'
  BY <1>18 DEF HelperGo, HelperGoes
<1>19. ASSUME NEW c \in Cmd, HelperWrite(c) PROVE FlagRaised'
  BY <1>19 DEF HelperWrite, HelperGoes, Attached
<1>20. ASSUME NEW c \in Cmd, HelperExit(c) PROVE FlagRaised'
  BY <1>20 DEF HelperExit, Attached
<1>21. ASSUME NEW a \in App, Cancel(a) PROVE FlagRaised'
  BY <1>21 DEF Cancel
<1>22. ASSUME NEW a \in App, Close(a) PROVE FlagRaised'
  BY <1>22 DEF Close
<1>23. ASSUME NEW a \in App, Die(a) PROVE FlagRaised'
  BY <1>23 DEF Die, Dies
<1>24. ASSUME NEW a \in App, Restart(a) PROVE FlagRaised'
  BY <1>24 DEF Restart
<1>25. ASSUME UNCHANGED vars PROVE FlagRaised'
  BY <1>25 DEF vars
<1> QED
  BY <1>1, <1>2, <1>3, <1>4, <1>5, <1>6, <1>7, <1>8, <1>9, <1>10, <1>11, <1>12, <1>13, <1>14, <1>15, <1>16, <1>17, <1>18, <1>19, <1>20, <1>21, <1>22, <1>23, <1>24, <1>25 DEF Next, CommandStep, HelperStep

\* A step of c that lets every other command be keeps the flag owned when it
\* accounts for the flag of its own GUI.
LEMMA FlagStep ==
  ASSUME TypeOK, Ownership, FlagOwner, NEW c \in Cmd,
         writing' \subseteq writing \cup {AppOf[c]},
         \A a \in App \ {AppOf[c]} : busy'[a] = busy[a],
         \A d \in Cmd \ {c} : pc'[d] = pc[d],
         AppOf[c] \in writing' => /\ busy'[AppOf[c]] # None
                                  /\ pc'[busy'[AppOf[c]]] \in Flagged
                                  /\ KindOf[busy'[AppOf[c]]] \in Writers
  PROVE  FlagOwner'
<1> SUFFICES ASSUME NEW a \in writing', a # AppOf[c]
             PROVE  /\ busy'[a] # None
                    /\ pc'[busy'[a]] \in Flagged
                    /\ KindOf[busy'[a]] \in Writers
  BY DEF FlagOwner
<1>1. a \in writing /\ a \in App /\ busy'[a] = busy[a]
  BY DEF TypeOK
<1>2. busy[a] \in Cmd /\ AppOf[busy[a]] = a
  BY <1>1 DEF TypeOK, Ownership, FlagOwner
<1>3. pc'[busy[a]] = pc[busy[a]]
  BY <1>2
<1> QED
  BY <1>1, <1>3 DEF FlagOwner

\* Every step keeps a raised flag owned.
LEMMA FlagOwnerInductive ==
  TypeOK /\ Ownership /\ Containment /\ FlagOwner /\ [Next]_vars => FlagOwner'
<1> SUFFICES ASSUME TypeOK /\ Ownership /\ Containment /\ FlagOwner, [Next]_vars PROVE FlagOwner'
  OBVIOUS
<1> USE SlotAssumption DEF TypeOK, gui, pipes, proc
<1>1. ASSUME NEW c \in Cmd, Request(c) PROVE FlagOwner'
  <2>1. \A d \in Cmd \ {c} : pc'[d] = pc[d]
    BY <1>1 DEF Request, Go
  <2>2. writing' = writing /\ pc[c] = "idle"
    BY <1>1 DEF Request, Go
  <2>3. AppOf[c] \in writing => /\ busy[AppOf[c]] \notin {None, c}
                                /\ pc[busy[AppOf[c]]] \in Flagged
                                /\ KindOf[busy[AppOf[c]]] \in Writers
    BY <2>2 DEF FlagOwner, Flagged
  <2>4. \A a \in App \ {AppOf[c]} : busy'[a] = busy[a]
    BY <1>1 DEF Request
  <2>5. AppOf[c] \in writing => busy' = busy /\ busy[AppOf[c]] \in Cmd
    BY <1>1, <2>3 DEF Request
  <2>6. AppOf[c] \in writing => pc'[busy'[AppOf[c]]] = pc[busy[AppOf[c]]]
    BY <2>1, <2>3, <2>5
  <2> QED
    BY <2>1, <2>2, <2>3, <2>4, <2>5, <2>6, FlagStep
<1>2. ASSUME NEW c \in Cmd, Wake(c) PROVE FlagOwner'
  BY <1>2 DEF Ownership, FlagOwner, Flagged, Writers, Wake, Go
<1>3. ASSUME NEW c \in Cmd, Begin(c) PROVE FlagOwner'
  <2>1. busy[AppOf[c]] = c /\ busy' = busy
    BY <1>3 DEF Ownership, Begin, Go
  <2>2. AppOf[c] \in writing => pc[c] \in Flagged /\ KindOf[c] \in Writers
    BY <2>1 DEF FlagOwner
  <2>3. AppOf[c] \in writing' => pc'[c] \in Flagged /\ KindOf[c] \in Writers
    BY <1>3, <2>2 DEF Flagged, Writers, Begin, Go
  <2>4. \A d \in Cmd \ {c} : pc'[d] = pc[d]
    BY <1>3 DEF Begin, Go
  <2>5. writing' \subseteq writing \cup {AppOf[c]}
    BY <1>3 DEF Begin, Go
  <2> QED
    BY <2>1, <2>3, <2>4, <2>5, FlagStep
<1>4. ASSUME NEW c \in Cmd, RaiseWriting(c) PROVE FlagOwner'
  <2>1. busy[AppOf[c]] = c /\ busy' = busy
    BY <1>4 DEF Ownership, RaiseWriting, Go
  <2>2. AppOf[c] \in writing => pc[c] \in Flagged /\ KindOf[c] \in Writers
    BY <2>1 DEF FlagOwner
  <2>3. AppOf[c] \in writing' => pc'[c] \in Flagged /\ KindOf[c] \in Writers
    BY <1>4, <2>2 DEF Flagged, Writers, RaiseWriting, Go
  <2>4. \A d \in Cmd \ {c} : pc'[d] = pc[d]
    BY <1>4 DEF RaiseWriting, Go
  <2>5. writing' \subseteq writing \cup {AppOf[c]}
    BY <1>4 DEF RaiseWriting, Go
  <2> QED
    BY <2>1, <2>3, <2>4, <2>5, FlagStep
<1>5. ASSUME NEW c \in Cmd, NoPlan(c) PROVE FlagOwner'
  BY <1>5 DEF Ownership, FlagOwner, Flagged, Writers, NoPlan, Go
<1>6. ASSUME NEW c \in Cmd, RunPlain(c) PROVE FlagOwner'
  BY <1>6 DEF Ownership, FlagOwner, Flagged, Writers, RunPlain, Go
<1>7. ASSUME NEW c \in Cmd, MaintenanceDone(c) PROVE FlagOwner'
  BY <1>7 DEF Ownership, FlagOwner, Flagged, Writers, MaintenanceDone, Go
<1>8. ASSUME NEW c \in Cmd, Spawn(c) PROVE FlagOwner'
  <2>1. busy[AppOf[c]] = c /\ busy' = busy
    BY <1>8 DEF Ownership, Spawn, Go, AfterRun
  <2>2. AppOf[c] \in writing => pc[c] \in Flagged /\ KindOf[c] \in Writers
    BY <2>1 DEF FlagOwner
  <2>3. AppOf[c] \in writing' => pc'[c] \in Flagged /\ KindOf[c] \in Writers
    BY <1>8, <2>2 DEF Flagged, Writers, Spawn, Go, AfterRun
  <2>4. \A d \in Cmd \ {c} : pc'[d] = pc[d]
    BY <1>8 DEF Spawn, Go, AfterRun
  <2>5. writing' \subseteq writing \cup {AppOf[c]}
    BY <1>8 DEF Spawn, Go, AfterRun
  <2> QED
    BY <2>1, <2>3, <2>4, <2>5, FlagStep
<1>9. ASSUME NEW c \in Cmd, Contain(c) PROVE FlagOwner'
  <2>1. busy[AppOf[c]] = c /\ busy' = busy
    BY <1>9 DEF Ownership, Contain, KillAndLeave, Kill, AfterRun
  <2>2. AppOf[c] \in writing => pc[c] \in Flagged /\ KindOf[c] \in Writers
    BY <2>1 DEF FlagOwner
  <2>3. AppOf[c] \in writing' => pc'[c] \in Flagged /\ KindOf[c] \in Writers
    BY <1>9, <2>2 DEF Flagged, Writers, Contain, KillAndLeave, Kill, AfterRun
  <2>4. \A d \in Cmd \ {c} : pc'[d] = pc[d]
    BY <1>9 DEF Contain, KillAndLeave, Kill, AfterRun
  <2>5. writing' \subseteq writing \cup {AppOf[c]}
    BY <1>9 DEF Contain, KillAndLeave, Kill, AfterRun
  <2> QED
    BY <2>1, <2>3, <2>4, <2>5, FlagStep
<1>10. ASSUME NEW c \in Cmd, Drain(c) PROVE FlagOwner'
  <2>1. busy[AppOf[c]] = c /\ busy' = busy
    BY <1>10 DEF Ownership, Drain, KillAndLeave, Kill, AfterRun, Permit
  <2>2. AppOf[c] \in writing => pc[c] \in Flagged /\ KindOf[c] \in Writers
    BY <2>1 DEF FlagOwner
  <2>3. AppOf[c] \in writing' => pc'[c] \in Flagged /\ KindOf[c] \in Writers
    BY <1>10, <2>2 DEF Flagged, Writers, Containment, Drain, KillAndLeave, Kill, AfterRun, Permit
  <2>4. \A d \in Cmd \ {c} : pc'[d] = pc[d]
    BY <1>10 DEF Drain, KillAndLeave, Kill, AfterRun, Permit
  <2>5. writing' \subseteq writing \cup {AppOf[c]}
    BY <1>10 DEF Drain, KillAndLeave, Kill, AfterRun, Permit
  <2> QED
    BY <2>1, <2>3, <2>4, <2>5, FlagStep
<1>11. ASSUME NEW c \in Cmd, CancelCheck(c) PROVE FlagOwner'
  <2>1. busy[AppOf[c]] = c /\ busy' = busy
    BY <1>11 DEF Ownership, CancelCheck, KillAndLeave, Kill, AfterRun
  <2>2. AppOf[c] \in writing => pc[c] \in Flagged /\ KindOf[c] \in Writers
    BY <2>1 DEF FlagOwner
  <2>3. AppOf[c] \in writing' => pc'[c] \in Flagged /\ KindOf[c] \in Writers
    BY <1>11, <2>2 DEF Flagged, Writers, CancelCheck, KillAndLeave, Kill, AfterRun
  <2>4. \A d \in Cmd \ {c} : pc'[d] = pc[d]
    BY <1>11 DEF CancelCheck, KillAndLeave, Kill, AfterRun
  <2>5. writing' \subseteq writing \cup {AppOf[c]}
    BY <1>11 DEF CancelCheck, KillAndLeave, Kill, AfterRun
  <2> QED
    BY <2>1, <2>3, <2>4, <2>5, FlagStep
<1>12. ASSUME NEW c \in Cmd, ExitCheck(c) PROVE FlagOwner'
  <2>1. busy[AppOf[c]] = c /\ busy' = busy
    BY <1>12 DEF Ownership, ExitCheck, KillAndLeave, Kill, AfterRun
  <2>2. AppOf[c] \in writing => pc[c] \in Flagged /\ KindOf[c] \in Writers
    BY <2>1 DEF FlagOwner
  <2>3. AppOf[c] \in writing' => pc'[c] \in Flagged /\ KindOf[c] \in Writers
    BY <1>12, <2>2 DEF Flagged, Writers, ExitCheck, KillAndLeave, Kill, AfterRun
  <2>4. \A d \in Cmd \ {c} : pc'[d] = pc[d]
    BY <1>12 DEF ExitCheck, KillAndLeave, Kill, AfterRun
  <2>5. writing' \subseteq writing \cup {AppOf[c]}
    BY <1>12 DEF ExitCheck, KillAndLeave, Kill, AfterRun
  <2> QED
    BY <2>1, <2>3, <2>4, <2>5, FlagStep
<1>13. ASSUME NEW c \in Cmd, Finish(c) PROVE FlagOwner'
  BY <1>13 DEF Ownership, FlagOwner, Flagged, Writers, Finish, Go
<1>14. ASSUME NEW c \in Cmd, Release(c) PROVE FlagOwner'
  <2>1. busy[AppOf[c]] = c /\ pc[c] = "release"
    BY <1>14 DEF Ownership, Release, Go
  <2>2. AppOf[c] \notin writing
    BY <2>1 DEF FlagOwner, Flagged
  <2>3. \A a \in App \ {AppOf[c]} : busy'[a] = busy[a]
    BY <1>14 DEF Release
  <2>4. writing' = writing /\ \A d \in Cmd \ {c} : pc'[d] = pc[d]
    BY <1>14 DEF Release, Go
  <2> QED
    BY <2>2, <2>3, <2>4, FlagStep
<1>15. ASSUME NEW c \in Cmd, Timeout(c) PROVE FlagOwner'
  BY <1>15 DEF Ownership, FlagOwner, Flagged, Writers, Timeout
<1>16. ASSUME NEW c \in Cmd, HelperLock(c) PROVE FlagOwner'
  BY <1>16 DEF Ownership, FlagOwner, Flagged, Writers, HelperLock, HelperGoes
<1>17. ASSUME NEW c \in Cmd, HelperReady(c) PROVE FlagOwner'
  BY <1>17 DEF Ownership, FlagOwner, Flagged, Writers, HelperReady, HelperGoes, Attached
<1>18. ASSUME NEW c \in Cmd, HelperGo(c) PROVE FlagOwner'
  BY <1>18 DEF Ownership, FlagOwner, Flagged, Writers, HelperGo, HelperGoes
<1>19. ASSUME NEW c \in Cmd, HelperWrite(c) PROVE FlagOwner'
  BY <1>19 DEF Ownership, FlagOwner, Flagged, Writers, HelperWrite, HelperGoes, Attached
<1>20. ASSUME NEW c \in Cmd, HelperExit(c) PROVE FlagOwner'
  BY <1>20 DEF Ownership, FlagOwner, Flagged, Writers, HelperExit, Attached
<1>21. ASSUME NEW a \in App, Cancel(a) PROVE FlagOwner'
  BY <1>21 DEF Ownership, FlagOwner, Flagged, Writers, Cancel
<1>22. ASSUME NEW a \in App, Close(a) PROVE FlagOwner'
  BY <1>22 DEF Ownership, FlagOwner, Flagged, Writers, Close
<1>23. ASSUME NEW a \in App, Die(a) PROVE FlagOwner'
  BY <1>23 DEF Ownership, FlagOwner, Flagged, Writers, Die, Dies
<1>24. ASSUME NEW a \in App, Restart(a) PROVE FlagOwner'
  BY <1>24 DEF Ownership, FlagOwner, Flagged, Writers, Restart
<1>25. ASSUME UNCHANGED vars PROVE FlagOwner'
  BY <1>25 DEF vars, FlagOwner
<1> QED
  BY <1>1, <1>2, <1>3, <1>4, <1>5, <1>6, <1>7, <1>8, <1>9, <1>10, <1>11, <1>12, <1>13, <1>14, <1>15, <1>16, <1>17, <1>18, <1>19, <1>20, <1>21, <1>22, <1>23, <1>24, <1>25 DEF Next, CommandStep, HelperStep

\* Only a helper past operation_lock owns the mutex.
LEMMA MutexInductive ==
  TypeOK /\ MutexOwner /\ [Next]_vars => MutexOwner'
<1> SUFFICES ASSUME TypeOK /\ MutexOwner, [Next]_vars PROVE MutexOwner'
  OBVIOUS
<1> USE SlotAssumption DEF TypeOK, gui, pipes, proc, MutexOwner
<1>1. ASSUME NEW c \in Cmd, Request(c) PROVE MutexOwner'
  BY <1>1 DEF Request, Go
<1>2. ASSUME NEW c \in Cmd, Wake(c) PROVE MutexOwner'
  BY <1>2 DEF Wake, Go
<1>3. ASSUME NEW c \in Cmd, Begin(c) PROVE MutexOwner'
  BY <1>3 DEF Begin, Go
<1>4. ASSUME NEW c \in Cmd, RaiseWriting(c) PROVE MutexOwner'
  BY <1>4 DEF RaiseWriting, Go
<1>5. ASSUME NEW c \in Cmd, NoPlan(c) PROVE MutexOwner'
  BY <1>5 DEF NoPlan, Go
<1>6. ASSUME NEW c \in Cmd, RunPlain(c) PROVE MutexOwner'
  BY <1>6 DEF RunPlain, Go
<1>7. ASSUME NEW c \in Cmd, MaintenanceDone(c) PROVE MutexOwner'
  BY <1>7 DEF MaintenanceDone, Go
<1>8. ASSUME NEW c \in Cmd, Spawn(c) PROVE MutexOwner'
  BY <1>8 DEF Spawn, Go, AfterRun
<1>9. ASSUME NEW c \in Cmd, Contain(c) PROVE MutexOwner'
  BY <1>9 DEF Contain, KillAndLeave, Kill, AfterRun
<1>10. ASSUME NEW c \in Cmd, Drain(c) PROVE MutexOwner'
  BY <1>10 DEF Drain, KillAndLeave, Kill, AfterRun, Permit
<1>11. ASSUME NEW c \in Cmd, CancelCheck(c) PROVE MutexOwner'
  BY <1>11 DEF CancelCheck, KillAndLeave, Kill, AfterRun
<1>12. ASSUME NEW c \in Cmd, ExitCheck(c) PROVE MutexOwner'
  <2>1. CASE KillAndLeave(c)
    BY <1>12, <2>1 DEF ExitCheck, KillAndLeave, Kill, AfterRun
  <2>2. CASE ~KillAndLeave(c)
    BY <1>12, <2>2 DEF ExitCheck
  <2> QED
    BY <1>12, <2>1, <2>2 DEF ExitCheck
<1>13. ASSUME NEW c \in Cmd, Finish(c) PROVE MutexOwner'
  BY <1>13 DEF Finish, Go
<1>14. ASSUME NEW c \in Cmd, Release(c) PROVE MutexOwner'
  BY <1>14 DEF Release, Go
<1>15. ASSUME NEW c \in Cmd, Timeout(c) PROVE MutexOwner'
  BY <1>15 DEF Timeout
<1>16. ASSUME NEW c \in Cmd, HelperLock(c) PROVE MutexOwner'
  BY <1>16 DEF HelperLock, HelperGoes
<1>17. ASSUME NEW c \in Cmd, HelperReady(c) PROVE MutexOwner'
  BY <1>17 DEF HelperReady, HelperGoes, Attached
<1>18. ASSUME NEW c \in Cmd, HelperGo(c) PROVE MutexOwner'
  BY <1>18 DEF HelperGo, HelperGoes
<1>19. ASSUME NEW c \in Cmd, HelperWrite(c) PROVE MutexOwner'
  BY <1>19 DEF HelperWrite, HelperGoes, Attached
<1>20. ASSUME NEW c \in Cmd, HelperExit(c) PROVE MutexOwner'
  BY <1>20 DEF HelperExit, Attached
<1>21. ASSUME NEW a \in App, Cancel(a) PROVE MutexOwner'
  BY <1>21 DEF Cancel
<1>22. ASSUME NEW a \in App, Close(a) PROVE MutexOwner'
  BY <1>22 DEF Close
<1>23. ASSUME NEW a \in App, Die(a) PROVE MutexOwner'
  BY <1>23 DEF Die, Dies
<1>24. ASSUME NEW a \in App, Restart(a) PROVE MutexOwner'
  BY <1>24 DEF Restart
<1>25. ASSUME UNCHANGED vars PROVE MutexOwner'
  BY <1>25 DEF vars
<1> QED
  BY <1>1, <1>2, <1>3, <1>4, <1>5, <1>6, <1>7, <1>8, <1>9, <1>10, <1>11, <1>12, <1>13, <1>14, <1>15, <1>16, <1>17, <1>18, <1>19, <1>20, <1>21, <1>22, <1>23, <1>24, <1>25 DEF Next, CommandStep, HelperStep

-----------------------------------------------------------------------------
(* The invariant. *)

LEMMA Initially == Init => IInv
<1> SUFFICES ASSUME Init PROVE IInv
  OBVIOUS
<1>1. TypeOK
  <2>1. waiters \in [App -> Seq(Cmd)]
    BY EmptySeq DEF Init
  <2> QED
    BY <2>1, SlotAssumption DEF Init, TypeOK, Stages, Labels, HelperStates
<1>2. Ownership
  BY EmptySeq, SlotAssumption DEF Init, Ownership
<1>3. StageOfWindow
  BY DEF Init, StageOfWindow
<1>4. Containment /\ Granted /\ MutexOwner
  BY DEF Init, Containment, Granted, Permitted, MutexOwner
<1>5. FlagRaised /\ FlagOwner
  BY DEF Init, FlagRaised, FlagOwner, Flagged
<1> QED
  BY <1>1, <1>2, <1>3, <1>4, <1>5 DEF IInv

LEMMA Inductive == IInv /\ [Next]_vars => IInv'
BY TypeInvariant, OwnershipInductive, StageInductive, ContainmentInductive,
   GrantedInductive, FlagRaisedInductive, FlagOwnerInductive, MutexInductive
   DEF IInv

\* The inductive invariant holds in every state of the write gate.
THEOREM InvariantHolds == Spec => []IInv
<1>1. Init => IInv
  BY Initially
<1>2. IInv /\ [Next]_vars => IInv'
  BY Inductive
<1> QED
  BY <1>1, <1>2, PTL DEF Spec

-----------------------------------------------------------------------------
(* The properties. *)

LEMMA PermissionFollows == IInv => PermissionGuarded
<1> SUFFICES ASSUME IInv, NEW c \in Cmd, KindOf[c] = "storage", Permitted(c)
             PROVE  /\ Attached(c)
                    /\ window[AppOf[c]] = "open"
                    /\ AppOf[c] \in writing
                    /\ stage[AppOf[c]] = "Writing"
  BY DEF PermissionGuarded
<1>1. c \in jobbed /\ stage[AppOf[c]] = "Writing" /\ AppOf[c] \in writing
  BY DEF IInv, Granted
<1>2. Attached(c)
  BY <1>1 DEF IInv, Containment, Attached
<1>3. window[AppOf[c]] = "open"
  BY <1>1, SlotAssumption DEF IInv, StageOfWindow
<1> QED
  BY <1>1, <1>2, <1>3

LEMMA WriterFollows == IInv => WriterRaisesFlag
<1> SUFFICES ASSUME IInv, NEW c \in Cmd, helper[c] = "writing", Attached(c)
             PROVE  AppOf[c] \in writing
  BY DEF WriterRaisesFlag
<1>1. KindOf[c] \in {"storage", "factory"}
  BY DEF IInv, Containment
<1>2. CASE KindOf[c] = "storage"
  BY <1>2 DEF IInv, Granted, Permitted
<1>3. CASE KindOf[c] = "factory"
  BY <1>3 DEF IInv, FlagRaised, Flagged, Attached
<1> QED
  BY <1>1, <1>2, <1>3

\* The state of every GUI, command, helper and the OS mutex is well typed.
THEOREM TypeCorrect == Spec => []TypeOK
BY InvariantHolds, PTL DEF IInv

\* From the granted byte to `finish', a gated helper runs under an open window
\* that refuses to close and to cancel (main.rs:32-39).
THEOREM PermissionIsGuarded == Spec => []PermissionGuarded
BY InvariantHolds, PermissionFollows, PTL

\* An acknowledged cancel or close never meets a gated helper that may write.
THEOREM CancelledNeverWrite == Spec => []CancelNeverWrites
<1>1. PermissionGuarded => CancelNeverWrites
  BY DEF PermissionGuarded, CancelNeverWrites
<1> QED
  BY <1>1, PermissionIsGuarded, PTL

\* The close guard is up while the helper of a running command writes.
THEOREM WriterHoldsFlag == Spec => []WriterRaisesFlag
BY InvariantHolds, WriterFollows, PTL

\* A raised close guard belongs to a command that will lower it.
THEOREM FlagHasOwner == Spec => []FlagLowered
<1>1. IInv => FlagLowered
  BY DEF IInv, FlagOwner, FlagLowered, Flagged
<1> QED
  BY <1>1, InvariantHolds, PTL

\* At most one helper, of any GUI, alive or dead, is past operation_lock.
THEOREM UsbHasOneOwner == Spec => []OneUsbOwner
<1>1. IInv => OneUsbOwner
  BY DEF IInv, MutexOwner, OneUsbOwner
<1> QED
  BY <1>1, InvariantHolds, PTL

\* After an accepted close, no step grants or starts a gated write.
THEOREM CloseAlwaysWins == Spec => CloseWins
<1> DEFINE A == \A c \in Cmd :
     KindOf[c] = "storage" /\ window[AppOf[c]] = "closing" => ~Permitted(c)'
<1>1. TypeOK /\ PermissionGuarded' /\ [Next]_vars => [A]_vars
  <2> SUFFICES ASSUME TypeOK, PermissionGuarded', Next,
                      NEW c \in Cmd, KindOf[c] = "storage",
                      window[AppOf[c]] = "closing", Permitted(c)'
               PROVE  FALSE
    OBVIOUS
  <2>1. window'[AppOf[c]] = "open"
    BY DEF PermissionGuarded
  <2>2. \A a \in App : window[a] = "closing" => window'[a] # "open"
    <3>1. ASSUME NEW d \in Cmd, CommandStep(d) PROVE window' = window
      BY <3>1 DEF CommandStep, Wake, Begin, RaiseWriting, NoPlan, RunPlain,
         MaintenanceDone, Spawn, Contain, Drain, CancelCheck, ExitCheck,
         Finish, Release, gui
    <3>2. ASSUME NEW d \in Cmd, Request(d) \/ Timeout(d) \/ HelperStep(d)
          PROVE  window' = window
      BY <3>2 DEF Request, Timeout, HelperStep, HelperLock, HelperReady,
         HelperGo, HelperWrite, HelperExit, gui
    <3>3. ASSUME NEW b \in App, Cancel(b) \/ Close(b) \/ Die(b) \/ Restart(b)
          PROVE  \A a \in App : window[a] = "closing" => window'[a] # "open"
      BY <3>3 DEF Cancel, Close, Die, Restart, TypeOK
    <3> QED
      BY <3>1, <3>2, <3>3 DEF Next
  <2> QED
    BY <2>1, <2>2, SlotAssumption
<1> QED
  BY <1>1, TypeCorrect, PermissionIsGuarded, PTL DEF Spec, CloseWins
=============================================================================
