---------------------- MODULE StorageTransactionProofs ----------------------
(***************************************************************************)
(* The storage transaction for any boards, operations, layouts and bounds: *)
(* type correctness, the safety properties the runs check, and that it     *)
(* implements PlanLedger.                                                  *)
(***************************************************************************)
EXTENDS StorageTransaction, SequenceTheorems, TLAPS

\* Where a plan is at hand, which board is open, and that the segment exists.
Control == /\ pc # "idle" => job \in Plans
           /\ on \in {None, attached}
           /\ pc \in {"check", "gate"} => job \notin torn
           /\ pc \in {"segment", "write", "readback"} => seg \in DOMAIN Segments[job.op]

\* A plan is pending or used, a journal has a used plan, and the journal of the
\* plan being carried out does not say complete.
Consumed == /\ pending \cap used = {}
            /\ pc \in Writing => job \in used /\ Note("complete") \notin log
            /\ \A e \in log : e.plan \in used

\* The open board is of the planned model from the permission on.
Model == pc \in Writing \cup {"gate"} /\ on # None => job.identity = IdentityOf[on]

\* JournalCoversDamage, and the plan being carried out covers only the board it
\* has open, in ranges it will still verify.
Names(p, b, r) == /\ p.identity = IdentityOf[b]
                  /\ [plan |-> p, state |-> "writing", region |-> r] \in log
                  /\ [plan |-> p, state |-> "complete"] \notin log
Begun == pc \in {"write", "readback"} => NoteRange("writing") \in log
Damage == \A b \in Board, r \in Region : content[b][r] = Torn =>
            \E p \in used : /\ Names(p, b, r)
                            /\ pc \in Writing /\ p = job =>
                                 on \in {None, b} /\ r \in Written(p)

Inv == /\ TypeOK /\ Control /\ Consumed /\ Model
       /\ FreshTarget /\ EarlierRangesHold /\ Begun /\ Damage

-----------------------------------------------------------------------------
(* Facts about plans and data. *)

\* A plan's goal is data, and not a half-written range (flash.rs:19, 120-210).
LEMMA GoalIsData == ASSUME NEW p \in Plans
                    PROVE  Goal(p) \in Data /\ Goal(p) # Torn
<1>1. p.op \in Op /\ p.source \in 1..MaxSource[p.op] /\ p.source # 0
  BY LayoutAssumption DEF Plans
<1>2. Goal(p) \in {p.op} \X (1..MaxSource[p.op])
  BY <1>1 DEF Goal
<1>3. Goal(p) # Torn
  BY <1>1 DEF Goal, Torn
<1> QED
  BY <1>1, <1>2, <1>3 DEF Data

\* The segments of a plan are regions, each written at one place in the order
\* (flash.rs:61-69).
LEMMA SegmentsDistinct == ASSUME NEW p \in Plans
                          PROVE  /\ Segments[p.op] \in Seq(Region)
                                 /\ Len(Segments[p.op]) \in Nat
                                 /\ DOMAIN Segments[p.op] = 1..Len(Segments[p.op])
                                 /\ \A i \in DOMAIN Segments[p.op] :
                                      Segments[p.op][i] \in Region
                                 /\ \A i, j \in DOMAIN Segments[p.op] :
                                      Segments[p.op][i] = Segments[p.op][j] => i = j
<1>1. p.op \in Op /\ Segments[p.op] \in Seq(Region)
  BY LayoutAssumption DEF Plans
<1>2. /\ Len(Segments[p.op]) \in Nat
      /\ DOMAIN Segments[p.op] = 1..Len(Segments[p.op])
      /\ \A i \in DOMAIN Segments[p.op] : Segments[p.op][i] \in Region
  BY <1>1, LenProperties
<1> QED
  BY <1>1, <1>2, LayoutAssumption

\* save_plan's next attempt is a plan that was not consumed (flash.rs:219-222).
LEMMA NextPlanUnused == ASSUME NEW p \in Plans, NEW q \in NextPlan(p)
                        PROVE  q \in Plans /\ q \notin used
  BY DEF NextPlan, Attempts, Plans

\* A preview makes a plan (flash.rs:268).
LEMMA PreviewIsPlan == ASSUME TypeOK, NEW op \in Op, NEW backup \in 0..MaxBackups,
                              Preview(op, backup)
                       PROVE  job' \in Plans
<1>1. attached \in Board /\ source[op] \in 1..MaxSource[op]
  BY DEF Preview, TypeOK
<1>2. Boot(attached) \in [BootArea -> Data] /\ IdentityOf[attached] \in Identities
  BY <1>1, LayoutAssumption DEF Boot, TypeOK, Identities
<1>3. 0 \in 0..MaxPlans /\ source[op] \in Nat
  BY <1>1, LayoutAssumption
<1> QED
  BY <1>1, <1>2, <1>3 DEF Preview, Plans

\* A helper that is at work has a plan.
LEMMA JobIsPlan == ASSUME TypeOK, Control, pc # "idle"
                   PROVE  job \in Plans /\ job # None
  BY NoneAssumption DEF Control

-----------------------------------------------------------------------------
(* Each part of the invariant is preserved by every step. *)

\* The initial state (no plans, no journal).
LEMMA InitInv == Init => Inv
<1> SUFFICES ASSUME Init PROVE Inv
  OBVIOUS
<1>1. TypeOK
  BY LayoutAssumption DEF Init, TypeOK, Data, Labels
<1>2. Control /\ Consumed /\ Model /\ FreshTarget /\ EarlierRangesHold
  BY DEF Init, Control, Consumed, Model, FreshTarget, EarlierRangesHold, Writing
<1>3. Begun /\ Damage
  BY DEF Init, Begun, Damage, Torn, Writing
<1> QED
  BY <1>1, <1>2, <1>3 DEF Inv

\* Types (flash.rs:18-28, 297).
LEMMA TypeStep == Inv /\ [Next]_vars => TypeOK'
<1> SUFFICES ASSUME Inv, [Next]_vars PROVE TypeOK'
  OBVIOUS
<1> USE DEF At, To, Leave, files, world
<1>0. TypeOK /\ Control /\ Consumed
  BY DEF Inv
<1>1. ASSUME NEW op \in Op, NEW backup \in 0..MaxBackups, Preview(op, backup) PROVE TypeOK'
  <2>1. job' \in Plans
    BY <1>0, <1>1, PreviewIsPlan
  <2> QED
    BY <1>0, <1>1, <2>1 DEF Preview, TypeOK, Labels
<1>2. CASE Backup
  <2>1. job.backup \in 0..MaxBackups /\ job.identity \in Identities
    BY <1>0, <1>2, JobIsPlan DEF Backup, Plans
  <2> QED
    BY <1>0, <1>2, <2>1 DEF Backup, TypeOK, Labels
<1>3. CASE SaveReuse
  BY <1>0, <1>3 DEF SaveReuse, TypeOK, Labels
<1>4. CASE SaveCreate
  <2> PICK p \in NextPlan(job) \ pending : /\ pending' = pending \cup {p}
                                           /\ torn' = torn \cup {p}
                                           /\ job' = p
    BY <1>4 DEF SaveCreate
  <2>1. p \in Plans
    BY <1>0, <1>4, JobIsPlan, NextPlanUnused DEF SaveCreate
  <2> QED
    BY <1>0, <1>4, <2>1 DEF SaveCreate, TypeOK, Labels
<1>5. CASE SaveFill
  BY <1>0, <1>5 DEF SaveFill, TypeOK, Labels
<1>6. ASSUME NEW p \in pending, Load(p) PROVE TypeOK'
  BY <1>0, <1>6 DEF Load, TypeOK, Labels
<1>7. CASE Check
  BY <1>0, <1>7 DEF Check, TypeOK, Labels
<1>8. CASE Claim
  BY <1>0, <1>8, JobIsPlan DEF Claim, TypeOK, Labels, Control
<1>9. CASE Start
  <2>1. Note("started") \in Entries
    BY <1>0, <1>9, JobIsPlan DEF Start, Note, Entries
  <2> QED
    BY <1>0, <1>9, <2>1 DEF Start, TypeOK, Labels
<1>10. CASE BeginRange
  <2>1. NoteRange("writing") \in Entries
    BY <1>0, <1>10, JobIsPlan, SegmentsDistinct DEF BeginRange, NoteRange, Entries, Control
  <2> QED
    BY <1>0, <1>10, <2>1 DEF BeginRange, TypeOK, Labels
<1>11. CASE WriteBlock \/ WriteEnd
  <2>1. Torn \in Data /\ Goal(job) \in Data
    BY <1>0, <1>11, JobIsPlan, GoalIsData DEF WriteBlock, WriteEnd, Data
  <2>2. \E d \in Data : Put(d)
    BY <1>11, <2>1 DEF WriteBlock, WriteEnd
  <2>3. on \in Board
    BY <1>0, <1>11 DEF WriteBlock, WriteEnd, TypeOK
  <2>4. Segments[job.op][seg] \in Region
    BY <1>0, <1>11, JobIsPlan, SegmentsDistinct DEF WriteBlock, WriteEnd, Control
  <2>5. content' \in [Board -> [Region -> Data]]
    BY <1>0, <2>2, <2>3, <2>4 DEF Put, TypeOK
  <2> QED
    BY <1>0, <1>11, <2>5 DEF WriteBlock, WriteEnd, TypeOK, Labels
<1>12. CASE ReadBack
  <2>1. NoteRange("verified") \in Entries /\ Note("failed") \in Entries
    BY <1>0, <1>12, JobIsPlan, SegmentsDistinct DEF ReadBack, Note, NoteRange, Entries, Control
  <2> QED
    BY <1>0, <1>12, <2>1 DEF ReadBack, Fail, AfterRange, TypeOK, Labels
<1>13. CASE Final
  <2>1. Note("complete") \in Entries /\ Note("failed") \in Entries
    BY <1>0, <1>13, JobIsPlan DEF Final, Note, Entries
  <2> QED
    BY <1>0, <1>13, <2>1 DEF Final, Fail, TypeOK, Labels
<1>14. CASE Error
  <2>1. Note("failed") \in Entries
    BY <1>0, <1>14, JobIsPlan DEF Error, Note, Entries
  <2> QED
    BY <1>0, <1>14, <2>1 DEF Error, Fail, TypeOK, Labels
<1>15. CASE Crash
  BY <1>0, <1>15 DEF Crash, TypeOK, Labels
<1>16. ASSUME NEW b \in Board, Plug(b) PROVE TypeOK'
  BY <1>0, <1>16 DEF Plug, TypeOK
<1>17. CASE Unplug
  BY <1>0, <1>17 DEF Unplug, TypeOK
<1>18. ASSUME NEW b \in Board, NEW r \in Region, BoardRuns(b, r) PROVE TypeOK'
  <2>1. content' \in [Board -> [Region -> Data]]
    BY <1>0, <1>18 DEF BoardRuns, TypeOK, Data
  <2> QED
    BY <1>0, <1>18, <2>1 DEF BoardRuns, TypeOK
<1>19. ASSUME NEW op \in Op, ReplaceSource(op) PROVE TypeOK'
  <2>1. /\ source' = [source EXCEPT ![op] = @ + 1]
        /\ source[op] < MaxSource[op] /\ MaxSource[op] \in Nat
    BY <1>19, LayoutAssumption DEF ReplaceSource
  <2>2. ASSUME NEW o \in Op PROVE source'[o] \in 1..MaxSource[o]
    <3>1. CASE o = op
      BY <1>0, <2>1, <3>1 DEF TypeOK
    <3>2. CASE o # op
      BY <1>0, <2>1, <3>2 DEF TypeOK
    <3> QED
      BY <3>1, <3>2
  <2>3. source' \in [Op -> Nat]
    BY <1>0, <2>1 DEF TypeOK
  <2> QED
    BY <1>0, <1>19, <2>2, <2>3 DEF ReplaceSource, TypeOK
<1>20. CASE UNCHANGED vars
  BY <1>0, <1>20 DEF vars, TypeOK
<1> QED
  BY <1>1, <1>2, <1>3, <1>4, <1>5, <1>6, <1>7, <1>8, <1>9, <1>10, <1>11, <1>12, <1>13,
     <1>14, <1>15, <1>16, <1>17, <1>18, <1>19, <1>20 DEF Next, Helper, World
\* Control (flash.rs:301-365).
LEMMA ControlStep == Inv /\ [Next]_vars => Control'
<1> SUFFICES ASSUME Inv, [Next]_vars PROVE Control'
  OBVIOUS
<1> USE DEF At, To, Leave, files, world
<1>0. TypeOK /\ Control /\ TypeOK'
  BY TypeStep DEF Inv
<1>1. CASE \E op \in Op, backup \in 0..MaxBackups : Preview(op, backup)
  <2>1. job' \in Plans
    BY <1>0, <1>1, PreviewIsPlan
  <2> QED
    BY <1>0, <1>1, <2>1 DEF Preview, Control, TypeOK
<1>2. CASE Backup \/ SaveReuse \/ SaveFill
  BY <1>0, <1>2 DEF Backup, SaveReuse, SaveFill, Control
<1>3. CASE SaveCreate
  <2> PICK p \in NextPlan(job) \ pending : job' = p
    BY <1>3 DEF SaveCreate
  <2>1. p \in Plans
    BY <1>0, <1>3, JobIsPlan, NextPlanUnused DEF SaveCreate
  <2> QED
    BY <1>0, <1>3, <2>1 DEF SaveCreate, Control
<1>4. CASE \E p \in pending : Load(p)
  BY <1>0, <1>4 DEF Load, Control, TypeOK
<1>5. CASE Check \/ Claim
  BY <1>0, <1>5 DEF Check, Claim, Control
<1>6. CASE Start
  <2>1. Segments[job.op] # <<>> => 1 \in DOMAIN Segments[job.op]
    BY <1>0, <1>6, JobIsPlan, SegmentsDistinct, EmptySeq DEF Start
  <2> QED
    BY <1>0, <1>6, <2>1 DEF Start, Control
<1>7. CASE BeginRange \/ WriteBlock \/ WriteEnd
  BY <1>0, <1>7 DEF BeginRange, WriteBlock, WriteEnd, Control
<1>8. CASE ReadBack
  <2>1. seg \in DOMAIN Segments[job.op]
    BY <1>0, <1>8 DEF ReadBack, Control
  <2>2. seg < Len(Segments[job.op]) => seg + 1 \in DOMAIN Segments[job.op]
    BY <1>0, <1>8, <2>1, JobIsPlan, SegmentsDistinct DEF ReadBack
  <2> QED
    BY <1>0, <1>8, <2>1, <2>2 DEF ReadBack, Fail, AfterRange, Control
<1>9. CASE Final \/ Error \/ Crash
  BY <1>0, <1>9 DEF Final, Error, Crash, Fail, Control
<1>10. CASE World
  BY <1>0, <1>10 DEF World, Plug, Unplug, BoardRuns, ReplaceSource, Control
<1>11. CASE UNCHANGED vars
  BY <1>0, <1>11 DEF vars, Control
<1> QED
  BY <1>1, <1>2, <1>3, <1>4, <1>5, <1>6, <1>7, <1>8, <1>9, <1>10, <1>11 DEF Next, Helper

\* Plans are used once, before their journal is opened (flash.rs:219-226, 325).
LEMMA ConsumedStep == Inv /\ [Next]_vars => Consumed'
<1> SUFFICES ASSUME Inv, [Next]_vars PROVE Consumed'
  OBVIOUS
<1> USE DEF At, To, Leave, files, world
<1>0. TypeOK /\ Control /\ Consumed
  BY DEF Inv
<1>1. CASE \E op \in Op, backup \in 0..MaxBackups : Preview(op, backup)
  BY <1>0, <1>1 DEF Preview, Consumed, Writing
<1>2. CASE Backup \/ SaveReuse \/ SaveFill
  BY <1>0, <1>2 DEF Backup, SaveReuse, SaveFill, Consumed, Writing
<1>3. CASE SaveCreate
  <2> PICK p \in NextPlan(job) \ pending : pending' = pending \cup {p}
    BY <1>3 DEF SaveCreate
  <2>1. p \notin used
    BY <1>0, <1>3, JobIsPlan, NextPlanUnused DEF SaveCreate
  <2> QED
    BY <1>0, <1>3, <2>1 DEF SaveCreate, Consumed, Writing
<1>4. CASE (\E p \in pending : Load(p)) \/ Check
  BY <1>0, <1>4 DEF Load, Check, Consumed, Writing
<1>5. CASE Claim
  <2>1. job \in pending => Note("complete") \notin log
    BY <1>0 DEF Consumed, Note
  <2> QED
    BY <1>0, <1>5, <2>1 DEF Claim, Consumed, Writing, Note
<1>6. CASE Start \/ BeginRange
  BY <1>0, <1>6 DEF Start, BeginRange, Consumed, Writing, Note, NoteRange
<1>7. CASE WriteBlock \/ WriteEnd
  BY <1>0, <1>7 DEF WriteBlock, WriteEnd, Consumed, Writing, Note
<1>8. CASE ReadBack
  BY <1>0, <1>8 DEF ReadBack, Fail, AfterRange, Consumed, Writing, Note, NoteRange
<1>9. CASE Final \/ Error \/ Crash
  BY <1>0, <1>9 DEF Final, Error, Crash, Fail, Consumed, Writing, Note
<1>10. CASE World
  BY <1>0, <1>10 DEF World, Plug, Unplug, BoardRuns, ReplaceSource, Consumed, Note
<1>11. CASE UNCHANGED vars
  BY <1>0, <1>11 DEF vars, Consumed, Note
<1> QED
  BY <1>1, <1>2, <1>3, <1>4, <1>5, <1>6, <1>7, <1>8, <1>9, <1>10, <1>11 DEF Next, Helper

\* The model of the open board is checked once and cannot change (flash.rs:310).
LEMMA ModelStep == Inv /\ [Next]_vars => Model'
<1> SUFFICES ASSUME Inv, [Next]_vars PROVE Model'
  OBVIOUS
<1> USE DEF At, To, Leave, files, world
<1>0. TypeOK /\ Control /\ Model
  BY DEF Inv
<1>1. CASE \E op \in Op, backup \in 0..MaxBackups : Preview(op, backup)
  BY <1>0, <1>1 DEF Preview, Model, Writing
<1>2. CASE Backup \/ SaveReuse \/ SaveCreate \/ SaveFill
  BY <1>0, <1>2 DEF Backup, SaveReuse, SaveCreate, SaveFill, Model, Writing
<1>3. CASE (\E p \in pending : Load(p)) \/ Check
  BY <1>0, <1>3 DEF Load, Check, Matches, Model, Writing
<1>4. CASE Claim \/ Start \/ BeginRange \/ WriteBlock \/ WriteEnd
  BY <1>0, <1>4 DEF Claim, Start, BeginRange, WriteBlock, WriteEnd, Model, Writing
<1>5. CASE ReadBack \/ Final \/ Error \/ Crash
  BY <1>0, <1>5 DEF ReadBack, Final, Error, Crash, Fail, AfterRange, Model, Writing
<1>6. CASE World
  BY <1>0, <1>6 DEF World, Plug, Unplug, BoardRuns, ReplaceSource, Model
<1>7. CASE UNCHANGED vars
  BY <1>0, <1>7 DEF vars, Model
<1> QED
  BY <1>1, <1>2, <1>3, <1>4, <1>5, <1>6, <1>7 DEF Next, Helper

\* What the board runs by itself does not reach the board that is open.
LEMMA OpenBoardQuiet == ASSUME TypeOK, Control, World
                        PROVE  /\ on' \in {None, on}
                               /\ on' # None => content'[on'] = content[on]
                               /\ UNCHANGED <<pc, job, seg, files>>
<1> USE DEF files
<1>1. CASE \E b \in Board : Plug(b)
  BY <1>1 DEF Plug
<1>2. CASE Unplug
  BY <1>2 DEF Unplug
<1>3. ASSUME NEW b \in Board, NEW r \in Region, BoardRuns(b, r)
      PROVE  on' = on /\ (on # None => content'[on] = content[on])
  BY <1>3 DEF BoardRuns, Control, TypeOK
<1>4. CASE \E op \in Op : ReplaceSource(op)
  BY <1>4 DEF ReplaceSource
<1> QED
  BY <1>1, <1>2, <1>3, <1>4 DEF World, BoardRuns

\* Until the first write nothing that the preview saw can change (flash.rs:309-322).
LEMMA FreshStep == Inv /\ [Next]_vars => FreshTarget'
<1> SUFFICES ASSUME Inv, [Next]_vars PROVE FreshTarget'
  OBVIOUS
<1> USE DEF At, To, Leave
<1>0. TypeOK /\ Control /\ FreshTarget
  BY DEF Inv
<1>1. CASE \E op \in Op, backup \in 0..MaxBackups : Preview(op, backup)
  BY <1>1 DEF Preview, FreshTarget
<1>2. CASE Backup \/ SaveReuse \/ SaveCreate \/ SaveFill
  BY <1>2 DEF Backup, SaveReuse, SaveCreate, SaveFill, FreshTarget
<1>3. CASE (\E p \in pending : Load(p)) \/ Check
  BY <1>3 DEF Load, Check, Matches, FreshTarget, Boot, world
<1>4. CASE Claim \/ Start \/ BeginRange
  BY <1>0, <1>4 DEF Claim, Start, BeginRange, FreshTarget, Boot, world
<1>5. CASE WriteBlock \/ WriteEnd
  BY <1>5 DEF WriteBlock, WriteEnd, FreshTarget
<1>6. CASE ReadBack
  <2>1. seg \in Nat /\ seg # 0
    BY <1>0, <1>6, JobIsPlan, SegmentsDistinct DEF ReadBack, Control
  <2> QED
    BY <1>6, <2>1 DEF ReadBack, Fail, AfterRange, FreshTarget
<1>7. CASE Final \/ Error \/ Crash
  BY <1>7 DEF Final, Error, Crash, Fail, FreshTarget
<1>8. CASE World
  <2>1. \A op \in Op : ReplaceSource(op) /\ pc \in {"gate", "journal", "segment"} =>
          source'[job.op] = source[job.op]
    BY <1>0, JobIsPlan DEF ReplaceSource, TypeOK
  <2>2. pc \in {"gate", "journal", "segment"} => source'[job.op] = source[job.op]
    BY <1>8, <2>1 DEF World, Plug, Unplug, BoardRuns
  <2> QED
    BY <1>0, <1>8, <2>2, OpenBoardQuiet DEF FreshTarget, Boot
<1>9. CASE UNCHANGED vars
  BY <1>0, <1>9 DEF vars, world, files, FreshTarget, Boot
<1> QED
  BY <1>1, <1>2, <1>3, <1>4, <1>5, <1>6, <1>7, <1>8, <1>9 DEF Next, Helper

\* A write changes one region of the open board to whatever the device keeps.
LEMMA PutElsewhere == ASSUME TypeOK, Control, pc = "write", on # None, NEW d, Put(d)
                      PROVE  /\ on \in Board /\ Segments[job.op][seg] \in Region
                             /\ content'[on][Segments[job.op][seg]] = d
                             /\ \A b \in Board, r \in Region :
                                  b # on \/ r # Segments[job.op][seg] =>
                                    content'[b][r] = content[b][r]
<1>1. on \in Board /\ seg \in DOMAIN Segments[job.op] /\ content \in [Board -> [Region -> Data]]
  BY DEF TypeOK, Control
<1>2. Segments[job.op][seg] \in Region
  BY <1>1, JobIsPlan, SegmentsDistinct
<1> QED
  BY <1>1, <1>2 DEF Put

\* A range is left behind only with its goal in it (flash.rs:334-365).
LEMMA EarlierStep == Inv /\ [Next]_vars => EarlierRangesHold'
<1> SUFFICES ASSUME Inv, [Next]_vars PROVE EarlierRangesHold'
  OBVIOUS
<1> USE DEF At, To, Leave
<1>0. TypeOK /\ Control /\ EarlierRangesHold
  BY DEF Inv
<1>1. CASE \E op \in Op, backup \in 0..MaxBackups : Preview(op, backup)
  BY <1>1 DEF Preview, EarlierRangesHold
<1>2. CASE Backup \/ SaveReuse \/ SaveCreate \/ SaveFill
  BY <1>2 DEF Backup, SaveReuse, SaveCreate, SaveFill, EarlierRangesHold
<1>3. CASE (\E p \in pending : Load(p)) \/ Check \/ Claim
  BY <1>3 DEF Load, Check, Claim, EarlierRangesHold
<1>4. CASE Start
  <2>1. Segments[job.op] = <<>> => DOMAIN Segments[job.op] = {}
    OBVIOUS
  <2>2. \A i \in DOMAIN Segments[job.op] : ~(i < 1)
    BY <1>0, <1>4, JobIsPlan, SegmentsDistinct DEF Start
  <2> QED
    BY <1>4, <2>1, <2>2 DEF Start, EarlierRangesHold
<1>5. CASE BeginRange
  BY <1>0, <1>5 DEF BeginRange, EarlierRangesHold, Goal, world
<1>6. CASE WriteBlock \/ WriteEnd
  <2>1. pc = "write" /\ on # None /\ UNCHANGED <<job, seg, on>>
    BY <1>6 DEF WriteBlock, WriteEnd
  <2>2. PICK d : Put(d)
    BY <1>6 DEF WriteBlock, WriteEnd
  <2>3. ASSUME NEW i \in DOMAIN Segments[job.op], i < seg
        PROVE  content'[on][Segments[job.op][i]] = Goal(job)
    <3>1. content[on][Segments[job.op][i]] = Goal(job)
      BY <1>0, <2>1, <2>3 DEF EarlierRangesHold
    <3>2. /\ Segments[job.op][i] # Segments[job.op][seg]
          /\ Segments[job.op][i] \in Region
      <4>1. seg \in DOMAIN Segments[job.op] /\ job \in Plans /\ pc # "idle"
        BY <1>0, <2>1 DEF Control
      <4>2. i # seg
        BY <2>3, <4>1, SegmentsDistinct
      <4> QED
        BY <4>1, <4>2, SegmentsDistinct
    <3>3. content'[on][Segments[job.op][i]] = content[on][Segments[job.op][i]]
      BY <1>0, <2>1, <2>2, <3>2, PutElsewhere
    <3> QED
      BY <3>1, <3>3
  <2>4. pc' # "final"
    BY <1>6 DEF WriteBlock, WriteEnd
  <2> QED
    BY <2>1, <2>3, <2>4 DEF EarlierRangesHold, Goal
<1>7. CASE ReadBack
  <2>1. /\ seg \in 1..Len(Segments[job.op])
        /\ DOMAIN Segments[job.op] = 1..Len(Segments[job.op])
        /\ Len(Segments[job.op]) \in Nat
    BY <1>0, <1>7, JobIsPlan, SegmentsDistinct DEF ReadBack, Control
  <2>2. CASE content[on][Segments[job.op][seg]] = Goal(job)
    <3>1. /\ AfterRange /\ UNCHANGED <<content, job, on>>
          /\ pc = "readback" /\ on # None
      BY <1>7, <2>2 DEF ReadBack, world
    <3>2. \A i \in DOMAIN Segments[job.op] : i <= seg =>
            content[on][Segments[job.op][i]] = Goal(job)
      BY <1>0, <2>1, <2>2, <3>1 DEF EarlierRangesHold
    <3>3. CASE seg < Len(Segments[job.op])
      <4>1. pc' = "segment" /\ seg' = seg + 1
        BY <3>1, <3>3 DEF AfterRange
      <4>2. \A i \in DOMAIN Segments[job.op] : (i < seg' \/ pc' = "final") => i <= seg
        BY ONLY <2>1, <4>1
      <4>3. content' = content /\ job' = job /\ on' = on
        BY <3>1
      <4> QED
        BY ONLY <3>2, <4>2, <4>3 DEF EarlierRangesHold, Goal
    <3>4. CASE ~(seg < Len(Segments[job.op]))
      <4>1. pc' = "final" /\ seg' = seg /\ seg = Len(Segments[job.op])
        BY <2>1, <3>1, <3>4 DEF AfterRange
      <4>2. \A i \in DOMAIN Segments[job.op] : (i < seg' \/ pc' = "final") => i <= seg
        BY ONLY <2>1, <4>1
      <4>3. content' = content /\ job' = job /\ on' = on
        BY <3>1
      <4> QED
        BY ONLY <3>2, <4>2, <4>3 DEF EarlierRangesHold, Goal
    <3> QED
      BY <3>3, <3>4
  <2>3. CASE content[on][Segments[job.op][seg]] # Goal(job)
    BY <1>7, <2>3 DEF ReadBack, Fail, EarlierRangesHold
  <2> QED
    BY <2>2, <2>3
<1>8. CASE Final \/ Error \/ Crash
  BY <1>8 DEF Final, Error, Crash, Fail, EarlierRangesHold
<1>9. CASE World
  BY <1>0, <1>9, OpenBoardQuiet DEF EarlierRangesHold, Goal
<1>10. CASE UNCHANGED vars
  BY <1>0, <1>10 DEF vars, world, EarlierRangesHold, Goal
<1> QED
  BY <1>1, <1>2, <1>3, <1>4, <1>5, <1>6, <1>7, <1>8, <1>9, <1>10 DEF Next, Helper

\* A range is journaled before it is written (flash.rs:342).
LEMMA BegunStep == Inv /\ [Next]_vars => Begun'
<1> SUFFICES ASSUME Inv, [Next]_vars PROVE Begun'
  OBVIOUS
<1> USE DEF At, To, Leave, files, world
<1>0. TypeOK /\ Control /\ Begun
  BY DEF Inv
<1>1. CASE \E op \in Op, backup \in 0..MaxBackups : Preview(op, backup)
  BY <1>1 DEF Preview, Begun
<1>2. CASE Backup \/ SaveReuse \/ SaveCreate \/ SaveFill
  BY <1>2 DEF Backup, SaveReuse, SaveCreate, SaveFill, Begun
<1>3. CASE (\E p \in pending : Load(p)) \/ Check \/ Claim \/ Start
  BY <1>3 DEF Load, Check, Claim, Start, Begun
<1>4. CASE BeginRange \/ WriteBlock \/ WriteEnd
  BY <1>0, <1>4 DEF BeginRange, WriteBlock, WriteEnd, Begun, NoteRange
<1>5. CASE ReadBack \/ Final \/ Error \/ Crash
  BY <1>5 DEF ReadBack, Final, Error, Crash, Fail, AfterRange, Begun
<1>6. CASE World
  BY <1>0, <1>6, OpenBoardQuiet DEF Begun, NoteRange
<1>7. CASE UNCHANGED vars
  BY <1>0, <1>7 DEF vars, Begun, NoteRange
<1> QED
  BY <1>1, <1>2, <1>3, <1>4, <1>5, <1>6, <1>7 DEF Next, Helper

\* Damage outlives every step that makes no new one, keeps the used plans and
\* the journals, completes nothing and keeps or ends the plan at work.
LEMMA DamageKept ==
  ASSUME Inv, used \subseteq used', log \subseteq log',
         \A e \in log' \ log : e.state # "complete",
         \A b \in Board, r \in Region : content'[b][r] = Torn => content[b][r] = Torn,
         pc' \in Writing => \/ job' = job /\ pc \in Writing /\ on' \in {None, on}
                            \/ job' \notin used
  PROVE  Damage'
<1> SUFFICES ASSUME NEW b \in Board, NEW r \in Region, content'[b][r] = Torn
             PROVE  \E p \in used' : /\ Names(p, b, r)'
                                     /\ pc' \in Writing /\ p = job' =>
                                          on' \in {None, b} /\ r \in Written(p)
  BY DEF Damage, Written
<1>1. PICK p \in used : /\ Names(p, b, r)
                        /\ pc \in Writing /\ p = job => on \in {None, b} /\ r \in Written(p)
  BY DEF Inv, Damage
<1>2. Names(p, b, r)'
  <2>1. [plan |-> p, state |-> "complete"].state = "complete"
    OBVIOUS
  <2> QED
    BY <1>1, <2>1 DEF Names
<1>3. pc' \in Writing /\ p = job' => on' \in {None, b} /\ r \in Written(p)
  BY <1>1
<1> QED
  BY <1>1, <1>2, <1>3

\* A new half-written range is in the journal of the plan being carried out.
LEMMA DamageMade == Inv /\ (WriteBlock \/ WriteEnd) => Damage'
<1> SUFFICES ASSUME Inv, WriteBlock \/ WriteEnd,
                    NEW b \in Board, NEW r \in Region, content'[b][r] = Torn
             PROVE  \E p \in used' : /\ Names(p, b, r)'
                                     /\ pc' \in Writing /\ p = job' =>
                                          on' \in {None, b} /\ r \in Written(p)
  BY DEF Damage, Written
<1> USE DEF At, To, files
<1>1. /\ pc = "write" /\ on # None /\ UNCHANGED <<job, seg, on, used, log>>
      /\ TypeOK /\ Control /\ job \in used /\ pc \in Writing
      /\ \E d : Put(d)
  BY DEF WriteBlock, WriteEnd, Inv, Consumed, Writing
<1>2. CASE b = on /\ r = Segments[job.op][seg]
  <2>1. Names(job, b, r)
    BY <1>1, <1>2 DEF Inv, Model, Begun, Consumed, Names, Note, NoteRange
  <2>2. r \in Written(job)
    BY <1>1, <1>2 DEF Control, Written
  <2> QED
    BY <1>1, <1>2, <2>1, <2>2 DEF Names
<1>3. CASE ~(b = on /\ r = Segments[job.op][seg])
  <2>1. content[b][r] = Torn
    BY <1>1, <1>3, PutElsewhere
  <2>2. PICK p \in used : /\ Names(p, b, r)
                          /\ pc \in Writing /\ p = job => on \in {None, b} /\ r \in Written(p)
    BY <2>1 DEF Inv, Damage
  <2> QED
    BY <1>1, <2>2 DEF Names
<1> QED
  BY <1>2, <1>3

\* A plan completes with none of its ranges damaged (flash.rs:361-377).
LEMMA DamageCompleted == Inv /\ Final => Damage'
<1> SUFFICES ASSUME Inv, Final PROVE Damage'
  OBVIOUS
<1> USE DEF At, Leave, files, world
<1>1. CASE \A e \in log' \ log : e.state # "complete"
  <2>1. used \subseteq used' /\ log \subseteq log' /\ pc' \notin Writing /\ UNCHANGED content
    BY DEF Final, Fail, Writing
  <2> QED
    BY <1>1, <2>1, DamageKept
<1>2. CASE log' = log \cup {Note("complete")}
  <2> SUFFICES ASSUME NEW b \in Board, NEW r \in Region, content'[b][r] = Torn
               PROVE  \E p \in used' : Names(p, b, r)'
    BY DEF Final, Fail, Damage, Writing
  <2>1. content[b][r] = Torn /\ UNCHANGED used /\ pc = "final" /\ on # None /\ pc \in Writing
    BY DEF Final, Writing
  <2>2. PICK p \in used : /\ Names(p, b, r)
                          /\ pc \in Writing /\ p = job => on \in {None, b} /\ r \in Written(p)
    BY <2>1 DEF Inv, Damage
  <2>3. p # job
    <3> SUFFICES ASSUME p = job PROVE FALSE
      OBVIOUS
    <3>1. PICK i \in DOMAIN Segments[job.op] : r = Segments[job.op][i]
      BY <2>1, <2>2 DEF Written
    <3>2. content[b][r] = Goal(job)
      BY <2>1, <2>2, <3>1 DEF Inv, EarlierRangesHold
    <3>3. job \in Plans
      BY <2>1 DEF Inv, Control
    <3> QED
      BY <2>1, <3>2, <3>3, GoalIsData
  <2> QED
    BY <1>2, <2>1, <2>2, <2>3 DEF Names, Note
<1>3. Note("failed").state # "complete"
  BY DEF Note
<1> QED
  BY <1>1, <1>2, <1>3 DEF Final, Fail

\* Every half-written range stays named (flash.rs:325-377).
LEMMA DamageStep == Inv /\ [Next]_vars => Damage'
<1> SUFFICES ASSUME Inv, [Next]_vars PROVE Damage'
  OBVIOUS
<1> USE DEF At, To, Leave, files, world
<1>1. CASE \E op \in Op, backup \in 0..MaxBackups : Preview(op, backup)
  BY <1>1, DamageKept DEF Preview, Writing
<1>2. CASE Backup \/ SaveReuse \/ SaveCreate \/ SaveFill
  BY <1>2, DamageKept DEF Backup, SaveReuse, SaveCreate, SaveFill, Writing
<1>3. CASE (\E p \in pending : Load(p)) \/ Check
  BY <1>3, DamageKept DEF Load, Check, Writing
<1>4. CASE Claim
  <2>1. job \in pending => job \notin used
    BY DEF Inv, Consumed
  <2> QED
    BY <1>4, <2>1, DamageKept DEF Claim, Writing
<1>5. CASE Start \/ BeginRange
  <2>1. \A e \in log' \ log : e.state # "complete"
    BY <1>5 DEF Start, BeginRange, Note, NoteRange
  <2> QED
    BY <1>5, <2>1, DamageKept DEF Start, BeginRange, Writing
<1>6. CASE ReadBack
  <2>1. \A e \in log' \ log : e.state # "complete"
    BY <1>6 DEF ReadBack, Fail, Note, NoteRange
  <2> QED
    BY <1>6, <2>1, DamageKept DEF ReadBack, AfterRange, Fail, Writing
<1>7. CASE Error \/ Crash
  <2>1. \A e \in log' \ log : e.state # "complete"
    BY <1>7 DEF Error, Crash, Fail, Note
  <2> QED
    BY <1>7, <2>1, DamageKept DEF Error, Crash, Fail, Writing
<1>8. CASE World
  <2>1. \A b \in Board, r \in Region : content'[b][r] = Torn => content[b][r] = Torn
    BY <1>8 DEF World, Plug, Unplug, BoardRuns, ReplaceSource, Inv, TypeOK, Torn
  <2>2. /\ UNCHANGED <<pc, job, used, log>> /\ on' \in {None, on}
    BY <1>8, OpenBoardQuiet DEF Inv
  <2> QED
    BY <2>1, <2>2, DamageKept
<1>9. CASE UNCHANGED vars
  BY <1>9, DamageKept DEF vars
<1> QED
  BY <1>1, <1>2, <1>3, <1>4, <1>5, <1>6, <1>7, <1>8, <1>9, DamageMade, DamageCompleted
     DEF Next, Helper

-----------------------------------------------------------------------------
(* The theorems. *)

\* The invariant holds in every reachable state.
THEOREM InvariantHolds == Spec => []Inv
<1>1. Inv /\ [Next]_vars => Inv'
  BY TypeStep, ControlStep, ConsumedStep, ModelStep, FreshStep, EarlierStep, BegunStep,
     DamageStep DEF Inv
<1> QED
  BY InitInv, <1>1, PTL DEF Spec

\* Type correctness, for any boards, layouts and bounds (flash.rs:18-28).
THEOREM TypeCorrect == Spec => []TypeOK
<1>1. Inv => TypeOK
  BY DEF Inv
<1> QED
  BY InvariantHolds, <1>1, PTL

\* From the permission to the first write, board and source are what the preview
\* saw (flash.rs:309-322).
THEOREM TargetIsFresh == Spec => []FreshTarget
<1>1. Inv => FreshTarget
  BY DEF Inv
<1> QED
  BY InvariantHolds, <1>1, PTL

\* A range is begun only when every earlier one holds its goal (flash.rs:334-365).
THEOREM EarlierRangesAreWritten == Spec => []EarlierRangesHold
<1>1. Inv => EarlierRangesHold
  BY DEF Inv
<1> QED
  BY InvariantHolds, <1>1, PTL

\* Every half-written range is named by the journal of a used plan that never
\* reported success (flash.rs:325-342).
THEOREM DamageIsJournaled == Spec => []JournalCoversDamage
<1>1. Inv => JournalCoversDamage
  BY DEF Inv, Damage, Names, JournalCoversDamage
<1> QED
  BY InvariantHolds, <1>1, PTL

\* A journal that says complete tells the truth about the open board (flash.rs:
\* 361-377).
THEOREM CompletionIsHonest == Spec => CompletionHonest
<1> DEFINE Honest == \A e \in log' \ log : e.state = "complete" =>
                       /\ \A r \in Written(e.plan) : content[on][r] = Goal(e.plan)
                       /\ \A r \in BootArea \ Written(e.plan) :
                            content[on][r] = e.plan.boot[r]
<1>1. ASSUME Inv, [Next]_vars PROVE [Honest]_vars
  <2> USE DEF At, files, world
  <2>1. CASE Final
    <3>1. pc = "final" /\ on # None
      BY <2>1 DEF Final
    <3>2. \A r \in Written(job) : content[on][r] = Goal(job)
      BY <1>1, <3>1 DEF Inv, EarlierRangesHold, Written
    <3>3. ASSUME NEW e \in log' \ log, e.state = "complete"
          PROVE  /\ e.plan = job
                 /\ \A r \in BootArea \ Written(job) : content[on][r] = job.boot[r]
      BY <2>1, <3>3 DEF Final, Fail, Note
    <3> QED
      BY <3>2, <3>3
  <2>2. CASE Start \/ BeginRange \/ ReadBack \/ Error
    <3>1. \A e \in log' \ log : e.state # "complete"
      BY <2>2 DEF Start, BeginRange, ReadBack, Error, Fail, Note, NoteRange
    <3> QED
      BY <3>1
  <2>3. CASE (\E op \in Op, backup \in 0..MaxBackups : Preview(op, backup)) \/ Backup
             \/ SaveReuse \/ SaveCreate \/ SaveFill
    BY <2>3 DEF Preview, Backup, SaveReuse, SaveCreate, SaveFill
  <2>4. CASE (\E p \in pending : Load(p)) \/ Check \/ Claim \/ WriteBlock \/ WriteEnd \/ Crash
    BY <2>4 DEF Load, Check, Claim, WriteBlock, WriteEnd, Crash
  <2>5. CASE World
    BY <1>1, <2>5, OpenBoardQuiet DEF Inv
  <2>6. CASE UNCHANGED vars
    BY <2>6
  <2> QED
    BY <1>1, <2>1, <2>2, <2>3, <2>4, <2>5, <2>6 DEF Next, Helper
<1> QED
  BY <1>1, InvariantHolds, PTL DEF Spec, CompletionHonest

\* The transaction implements PlanLedger: plans are one-use and a journal grows
\* only in the run that consumed its plan (flash.rs:212-229, 325-326).
THEOREM PlansAreOneShot == Spec => OneShot
<1>1. Init => Ledger!Init
  BY DEF Init, Ledger!Init, Writing
<1>2. ASSUME Inv, [Next]_vars PROVE [Ledger!Next]_(Ledger!vars)
  <2> USE DEF At, To, Leave, files, Ledger!Next, Ledger!vars
  <2>0. TypeOK /\ Control /\ Consumed
    BY <1>2 DEF Inv
  <2>1. CASE (\E op \in Op, backup \in 0..MaxBackups : Preview(op, backup)) \/ Backup
             \/ SaveReuse \/ SaveFill \/ (\E p \in pending : Load(p)) \/ Check
    BY <2>1 DEF Preview, Backup, SaveReuse, SaveFill, Load, Check, Writing
  <2>2. CASE SaveCreate
    <3> PICK p \in NextPlan(job) \ pending : pending' = pending \cup {p}
      BY <2>2 DEF SaveCreate
    <3>1. p \notin used
      BY <2>0, <2>2, JobIsPlan, NextPlanUnused DEF SaveCreate
    <3> QED
      BY <2>2, <3>1 DEF SaveCreate, Writing, Ledger!Offer
  <2>3. CASE Claim
    <3>1. CASE job \in pending
      BY <2>0, <2>3, <3>1 DEF Claim, Consumed, Writing, Ledger!Consume
    <3>2. CASE job \notin pending
      BY <2>3, <3>2 DEF Claim, Writing
    <3> QED
      BY <3>1, <3>2
  <2>4. CASE Start \/ BeginRange \/ ReadBack \/ Final \/ (Error /\ pc \in Writing \ {"journal"})
    <3>1. /\ pc \in Writing /\ job # None
          /\ UNCHANGED <<pending, used>>
          /\ (pc' \in Writing /\ job' = job) \/ pc' \notin Writing
      BY <2>0, <2>4, JobIsPlan DEF Start, BeginRange, ReadBack, Final, Error, Fail, AfterRange, Writing
    <3>2. \E e \in log' : e.plan = job /\ log' = log \cup {e}
      BY <2>4 DEF Start, BeginRange, ReadBack, Final, Error, Fail, Note, NoteRange, Writing
    <3> QED
      BY <3>1, <3>2 DEF Ledger!Record
  <2>5. CASE Error /\ pc \notin Writing \ {"journal"}
    BY <2>5 DEF Error, Writing, Ledger!Stop
  <2>6. CASE Crash
    BY <2>6 DEF Crash, Writing, Ledger!Stop
  <2>7. CASE WriteBlock \/ WriteEnd
    BY <2>7 DEF WriteBlock, WriteEnd, Writing
  <2>8. CASE World
    BY <2>0, <2>8, OpenBoardQuiet
  <2>9. CASE UNCHANGED vars
    BY <2>9 DEF vars
  <2> QED
    BY <1>2, <2>1, <2>2, <2>3, <2>4, <2>5, <2>6, <2>7, <2>8, <2>9 DEF Next, Helper
<1> QED
  BY <1>1, <1>2, InvariantHolds, PTL DEF Spec, OneShot, Ledger!Spec

=============================================================================
