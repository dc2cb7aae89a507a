------------------------- MODULE StorageTransaction -------------------------
(***************************************************************************)
(* The two-phase storage transactions of the installer                     *)
(* (installer/engine/src/flash.rs): a helper process previews an operation *)
(* and saves a one-use plan; a later helper revalidates it, waits for the  *)
(* write permission, consumes it and writes the eMMC range by range.       *)
(*                                                                         *)
(* One helper runs at a time: WriteGate's OneUsbOwner.  It may be killed   *)
(* at any step, the board may be unplugged, swapped or booted, writes may  *)
(* be short or silently wrong, and source files may be replaced.           *)
(***************************************************************************)
EXTENDS Naturals, Sequences, FiniteSets

CONSTANTS
  Board,      \* boards that are plugged into the selected USB port
  IdentityOf, \* what Rockusb reports of a board; equal for equal models
  Region,     \* disjoint sector ranges of the eMMC
  BootArea,   \* the regions `capture' reads: boot firmware and both GPTs
  Gpt,        \* those of them that hold the GPT pair
  Op,         \* operations
  Segments,   \* the regions an operation writes, in order
  None,       \* no board, no plan
  Skippable,  \* operations that may go without a recovery backup
  Own,        \* the regions a running board may change by itself
  MaxPlans,   \* bound: plan files ever created
  MaxBackups, \* bound: recovery backups ever made
  MaxSource   \* bound: versions of each source file

ASSUME LayoutAssumption ==
  /\ BootArea \subseteq Region /\ Gpt \subseteq BootArea
  /\ Segments \in [Op -> Seq(Region)]
  \* validate_ranges: no range is written twice
  /\ \A op \in Op : \A i, j \in DOMAIN Segments[op] :
       Segments[op][i] = Segments[op][j] => i = j
  /\ None \notin Board
  /\ Skippable \subseteq Op /\ Own \subseteq Region
  /\ MaxPlans \in Nat /\ MaxBackups \in Nat /\ MaxSource \in [Op -> Nat \ {0}]

VARIABLES
  content,  \* what each region of each board holds
  attached, \* the board on the port, or None
  source,   \* the version of each operation's source file
  pending,  \* data/plans/<id>.json
  torn,     \* the pending files that were created but not filled
  used,     \* data/plans/<id>.used.json
  log,      \* the journals' records
  backups,  \* number of recovery archives made of each device identity
  pc,       \* where the helper is
  job,      \* the plan it works on
  seg,      \* the segment it works on
  on        \* the board it has open, None when there is none or it is gone

files == <<pending, torn, used, log>>
world == <<content, attached, source>>
vars == <<world, files, backups, pc, job, seg, on>>

Torn == <<"torn", 0>>
Data == {Torn, <<"local", 0>>} \cup {<<"initial", b>> : b \in Board}
        \cup UNION {{op} \X (1..MaxSource[op]) : op \in Op}

Identities == {IdentityOf[b] : b \in Board}

\* A plan is identified by the hash of its bytes, here by its fields: `boot' is
\* the fingerprint of the boot area, `backup' is 0 without a recovery copy.
Plans == {p \in [op : Op, source : Nat, identity : Identities, boot : [BootArea -> Data],
                  backup : 0..MaxBackups, attempt : 0..MaxPlans] :
            p.source \in 1..MaxSource[p.op]}

ASSUME NoneAssumption == None \notin Plans

Entries == [plan : Plans, state : {"writing", "verified"}, region : Region]
           \cup [plan : Plans, state : {"started", "complete", "failed"}]

Boot(b) == [r \in BootArea |-> content[b][r]]
Goal(p) == <<p.op, p.source>>
Written(p) == {Segments[p.op][i] : i \in DOMAIN Segments[p.op]}

Init == /\ content = [b \in Board |-> [r \in Region |-> <<"initial", b>>]]
        /\ attached = None
        /\ source = [op \in Op |-> 1]
        /\ pending = {} /\ torn = {} /\ used = {} /\ log = {}
        /\ backups = [i \in Identities |-> 0]
        /\ pc = "idle" /\ job = None /\ seg = 0 /\ on = None

At(l) == pc = l
To(l) == pc' = l /\ UNCHANGED <<job, seg, on>>

\* The helper ends, by itself or killed: its handles and memory are gone.
Leave == pc' = "idle" /\ job' = None /\ seg' = 0 /\ on' = None

-----------------------------------------------------------------------------
(* Preview: plan_inner and save_plan. *)

\* Capture the boot area of the attached board and build the segments.  The
\* recovery copy is none, an archive made before, or a new one made afterwards.
Preview(op, backup) ==
  /\ At("idle") /\ attached # None
  /\ Cardinality(pending \cup used) < MaxPlans
  /\ backup <= backups[IdentityOf[attached]] + 1
  /\ backup = 0 => op \in Skippable
  /\ on' = attached
  /\ job' = [op |-> op, source |-> source[op], identity |-> IdentityOf[attached],
             boot |-> Boot(attached), backup |-> backup, attempt |-> 0]
  /\ pc' = IF backup > backups[IdentityOf[attached]] THEN "backup" ELSE "save"
  /\ UNCHANGED <<world, files, backups, seg>>

\* The archive is read twice from the board before it is published.
Backup == /\ At("backup") /\ on # None
          /\ backups' = [backups EXCEPT ![job.identity] = job.backup]
          /\ To("save")
          /\ UNCHANGED <<world, files>>

\* Mutant: the attempt counter never advances.
NextPlanSame(p) == {p}

\* save_plan advances past consumed ids until its counter is exhausted, reuses an
\* unused preview only when its bytes match, and otherwise creates the file.
Attempts(p) == {n \in 0..MaxPlans : [p EXCEPT !.attempt = n] \notin used}
NextPlan(p) == {[p EXCEPT !.attempt = n] :
                  n \in {n \in Attempts(p) : \A k \in Attempts(p) : n <= k}}

SaveReuse == /\ At("save")
             /\ NextPlan(job) \cap pending # {}
             /\ Leave
             /\ UNCHANGED <<world, files, backups>>

SaveCreate == /\ At("save")
              /\ \E p \in NextPlan(job) \ pending :
                    /\ pending' = pending \cup {p}
                    /\ torn' = torn \cup {p}
                    /\ job' = p
              /\ pc' = "fill"
              /\ UNCHANGED <<world, used, log, backups, seg, on>>

SaveFill == /\ At("fill")
            /\ torn' = torn \ {job}
            /\ Leave
            /\ UNCHANGED <<world, pending, used, log, backups>>

-----------------------------------------------------------------------------
(* Execution: execute_with_gate. *)

\* Mutant: the plan file is not hashed against its name.
LoadUnhashed(p) == /\ At("idle") /\ attached # None
                   /\ job' = p /\ on' = attached /\ pc' = "check"
                   /\ UNCHANGED <<world, files, backups, seg>>

\* load_plan hashes the file against its name; the plan's board is looked up by
\* USB instance and port only.
Load(p) == /\ At("idle") /\ attached # None
           /\ p \in pending \ torn
           /\ job' = p /\ on' = attached /\ pc' = "check"
           /\ UNCHANGED <<world, files, backups, seg>>

\* Mutant: the fingerprint of the boot area is not compared.
MatchesIdentity(p) == /\ IdentityOf[on] = p.identity
                      /\ source[p.op] = p.source

\* The identity, the boot fingerprint, and the segments rebuilt from the source
\* must all match the plan.
Matches(p) == /\ IdentityOf[on] = p.identity
              /\ Boot(on) = p.boot
              /\ source[p.op] = p.source

Check == /\ At("check") /\ on # None
         /\ IF Matches(job) THEN To("gate") ELSE Leave
         /\ UNCHANGED <<world, files, backups>>

\* Mutant: the plan is copied, not renamed.
ClaimKeepPending == /\ At("gate")
                    /\ used' = used \cup {job}
                    /\ To("journal")
                    /\ UNCHANGED <<world, pending, torn, log, backups>>

\* The byte "G" arrived: the plan is consumed before the first write.
Claim == /\ At("gate")
         /\ IF job \in pending
            THEN /\ pending' = pending \ {job}
                 /\ used' = used \cup {job}
                 /\ To("journal")
            ELSE Leave /\ UNCHANGED <<pending, used>>
         /\ UNCHANGED <<world, torn, log, backups>>

Note(state) == [plan |-> job, state |-> state]
NoteRange(state) == [plan |-> job, state |-> state, region |-> Segments[job.op][seg]]

Start == /\ At("journal")
         /\ log' = log \cup {Note("started")}
         /\ seg' = 1
         /\ pc' = IF Segments[job.op] = <<>> THEN "final" ELSE "segment"
         /\ UNCHANGED <<world, pending, torn, used, backups, job, on>>

\* Mutant: the range is journaled only once it is verified.
BeginRangeSilent == /\ At("segment")
                    /\ To("write")
                    /\ UNCHANGED <<world, files, backups>>

\* Every record is synced before the program goes on.
BeginRange == /\ At("segment")
              /\ log' = log \cup {NoteRange("writing")}
              /\ To("write")
              /\ UNCHANGED <<world, pending, torn, used, backups>>

Put(d) == content' = [content EXCEPT ![on][Segments[job.op][seg]] = d]

\* Some of the blocks are written: the range holds a mixture, unless the blocks
\* it already held were the same.
WriteBlock == /\ At("write") /\ on # None
              /\ Put(Torn)
              /\ UNCHANGED <<attached, source, files, backups, pc, job, seg, on>>

\* The last block is written and the source's hash was the planned one; the
\* device acknowledged every block but may hold something else.
WriteEnd == /\ At("write") /\ on # None
            /\ \E d \in {Goal(job), Torn} : Put(d)
            /\ To("readback")
            /\ UNCHANGED <<attached, source, files, backups>>

AfterRange == IF seg < Len(Segments[job.op])
              THEN pc' = "segment" /\ seg' = seg + 1
              ELSE pc' = "final" /\ UNCHANGED seg

Fail == log' = log \cup {Note("failed")} /\ Leave

\* Mutant: the acknowledged writes are trusted.
ReadBackSkipped == /\ At("readback") /\ on # None
                   /\ log' = log \cup {NoteRange("verified")}
                   /\ AfterRange
                   /\ UNCHANGED <<world, pending, torn, used, backups, job, on>>

\* Mutant: a mismatch is journaled and the next range is written.
ReadBackLenient ==
  /\ At("readback") /\ on # None
  /\ log' = IF content[on][Segments[job.op][seg]] = Goal(job)
            THEN log \cup {NoteRange("verified")} ELSE log
  /\ AfterRange
  /\ UNCHANGED <<world, pending, torn, used, backups, job, on>>

\* The whole range is read again and hashed.
ReadBack ==
  /\ At("readback") /\ on # None
  /\ IF content[on][Segments[job.op][seg]] = Goal(job)
     THEN /\ log' = log \cup {NoteRange("verified")}
          /\ AfterRange
          /\ UNCHANGED <<job, on>>
     ELSE Fail
  /\ UNCHANGED <<world, pending, torn, used, backups>>

\* Capture again: the GPT pair is the intended one, and the firmware area is
\* untouched outside the planned ranges.
Final ==
  /\ At("final") /\ on # None
  /\ IF /\ \A r \in Gpt : content[on][r] = IF r \in Written(job) THEN Goal(job)
                                            ELSE job.boot[r]
        /\ \A r \in BootArea \ Written(job) : content[on][r] = job.boot[r]
     THEN log' = log \cup {Note("complete")} /\ Leave
     ELSE Fail
  /\ UNCHANGED <<world, pending, torn, used, backups>>

\* A refused permission, a short transfer, a lost board, an unreadable or changed
\* source: before the journal is open the helper just ends.
Error == /\ pc # "idle"
         /\ IF pc \in {"segment", "write", "readback", "final"}
            THEN Fail ELSE Leave /\ UNCHANGED log
         /\ UNCHANGED <<world, pending, torn, used, backups>>

\* The helper is killed: cancel, timeout, closed window, PC power loss.
Crash == /\ pc # "idle"
         /\ Leave
         /\ UNCHANGED <<world, files, backups>>

-----------------------------------------------------------------------------
(* The world. *)

Plug(b) == /\ attached = None
           /\ attached' = b
           /\ UNCHANGED <<content, source, files, backups, pc, job, seg, on>>

\* The helper's open interface dies with the connection.
Unplug == /\ attached # None
          /\ attached' = None
          /\ on' = None
          /\ UNCHANGED <<content, source, files, backups, pc, job, seg>>

\* A board that is not attached as a loader runs its system, which may change
\* its own storage: user data, an update of the firmware or of the GPT.
BoardRuns(b, r) == /\ b # attached /\ r \in Own
                   /\ content' = [content EXCEPT ![b][r] = <<"local", 0>>]
                   /\ UNCHANGED <<attached, source, files, backups, pc, job, seg, on>>

\* A source file is replaced.  From build to the end of the transaction its
\* handle denies writers.
ReplaceSource(op) ==
  /\ ~(pc \in {"gate", "journal", "segment", "write", "readback", "final"}
       /\ job.op = op)
  /\ source[op] < MaxSource[op]
  /\ source' = [source EXCEPT ![op] = @ + 1]
  /\ UNCHANGED <<content, attached, files, backups, pc, job, seg, on>>

Helper == \/ \E op \in Op, backup \in 0..MaxBackups : Preview(op, backup)
          \/ Backup \/ SaveReuse \/ SaveCreate \/ SaveFill
          \/ \E p \in pending : Load(p)
          \/ Check \/ Claim \/ Start \/ BeginRange \/ WriteBlock \/ WriteEnd
          \/ ReadBack \/ Final \/ Error \/ Crash

World == \/ \E b \in Board : Plug(b) \/ \E r \in Region : BoardRuns(b, r)
         \/ Unplug
         \/ \E op \in Op : ReplaceSource(op)

Next == Helper \/ World

Spec == Init /\ [][Next]_vars

-----------------------------------------------------------------------------
(* Properties. *)

Labels == {"idle", "backup", "save", "fill", "check", "gate", "journal",
           "segment", "write", "readback", "final"}
Writing == {"journal", "segment", "write", "readback", "final"}

\* The types of the boards', the files' and the helper's state.
TypeOK == /\ content \in [Board -> [Region -> Data]]
          /\ attached \in Board \cup {None}
          /\ source \in [Op -> Nat]
          /\ \A op \in Op : source[op] \in 1..MaxSource[op]
          /\ pending \subseteq Plans
          /\ torn \subseteq pending
          /\ used \subseteq Plans
          /\ log \subseteq Entries
          /\ backups \in [Identities -> 0..MaxBackups]
          /\ pc \in Labels
          /\ job \in Plans \cup {None}
          /\ seg \in Nat
          /\ on \in Board \cup {None}

\* Whatever kills the helper or cuts the cable, a range left half written is
\* named by the journal of a consumed plan that never reported success
\* (flash.rs:325-342): the user is told where to look.
JournalCoversDamage ==
  \A b \in Board, r \in Region : content[b][r] = Torn =>
    \E p \in used : /\ p.identity = IdentityOf[b]
                    /\ [plan |-> p, state |-> "writing", region |-> r] \in log
                    /\ [plan |-> p, state |-> "complete"] \notin log

\* A range is begun only when every earlier one is on the eMMC: the primary GPT,
\* the last range of an installation, keeps its old value until all it refers to
\* is in place (flash.rs:161-166, 334-365).
EarlierRangesHold ==
  pc \in {"segment", "write", "readback", "final"} /\ on # None =>
    \A i \in DOMAIN Segments[job.op] :
      (i < seg \/ pc = "final") => content[on][Segments[job.op][i]] = Goal(job)

\* From the write permission to the first write the board and the source are
\* what the preview saw, although boards are swapped and booted and files are
\* replaced between the two (flash.rs:309-322).
FreshTarget ==
  (pc \in {"gate", "journal"} \/ (pc = "segment" /\ seg = 1)) /\ on # None =>
    /\ Boot(on) = job.boot
    /\ IdentityOf[on] = job.identity
    /\ source[job.op] = job.source

\* When the journal says complete, every planned range of the open board holds
\* the planned bytes and the rest of its boot area is untouched, although writes
\* may be silently wrong (flash.rs:361-377).
CompletionHonest ==
  [][\A e \in log' \ log : e.state = "complete" =>
       /\ \A r \in Written(e.plan) : content[on][r] = Goal(e.plan)
       /\ \A r \in BootArea \ Written(e.plan) : content[on][r] = e.plan.boot[r]]_vars

Ledger == INSTANCE PlanLedger WITH
            offered <- pending, consumed <- used, records <- log,
            active <- IF pc \in Writing THEN job ELSE None

\* Plans are one-use and their journals are final, whatever is previewed again,
\* retried or killed (flash.rs:212-229, 325-326).
OneShot == Ledger!Spec
=============================================================================
