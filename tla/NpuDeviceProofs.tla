--------------------------- MODULE NpuDeviceProofs ---------------------------
(***************************************************************************)
(* Power, rates and resources of the NPU device, for every number of       *)
(* clients and every device tree whose tables are usable.                  *)
(*                                                                         *)
(* None of the properties is inductive.  That the votes balance depends on *)
(* the stages of the probe, before which nobody may hold one (Phases,      *)
(* Power); that a voltage is changed safely depends on where a rate can    *)
(* come from at all, so that the table has a point for it (Clocks), and on *)
(* what is known of the change whose first step has been made (Change).    *)
(***************************************************************************)
EXTENDS VendorPolicyProofs

-----------------------------------------------------------------------------
(* What a rate change asks for. *)

\* Rates that the chip has an operating point for.
Points == {opps[i].mhz : i \in DOMAIN opps}

\* The table of a chip that is driven, and its limit.
LEMMA UsableTable ==
  ASSUME NEW v, Usable(v)
  PROVE  /\ Table(v.opps) /\ SuspendMhz \in Nat
         /\ v.limit = 0 \/ \E i \in DOMAIN v.opps : v.opps[i].mhz = v.limit
         /\ v.limit \in Nat
<1>1. Table(v.opps) /\ SuspendMhz \in Nat
  BY DeviceAssumption DEF Usable, Table, Point
<1>2. v.limit = 0 \/ \E i \in DOMAIN v.opps : v.opps[i].mhz = v.limit
  BY DEF Usable
<1> QED
  BY <1>1, <1>2, TableFacts

\* Its rates are numbers.
LEMMA PointsNat == ASSUME Usable(vendor) PROVE Points \subseteq Nat
  BY UsableTable, TableFacts DEF Points, opps

\* A rate that the table can serve has a voltage, and the point selected for it is
\* the point that is found again for its own rate.
LEMMA NeedOf ==
  ASSUME Usable(vendor), NEW mhz \in Nat, \E p \in Points : p >= mhz
  PROVE  /\ Ceil(opps, mhz) \in DOMAIN opps
         /\ opps[Ceil(opps, mhz)].mhz \in Points
         /\ opps[Ceil(opps, mhz)].mhz >= mhz
         /\ Ceil(opps, opps[Ceil(opps, mhz)].mhz) = Ceil(opps, mhz)
         /\ Need(mhz) \in Nat
<1>1. /\ Table(opps) /\ Len(opps) \in Nat /\ DOMAIN opps = 1 .. Len(opps)
      /\ \A i \in DOMAIN opps : opps[i].mhz \in Nat /\ opps[i].mv \in Nat /\ opps[i].cold \in Nat
  BY UsableTable, TableFacts DEF opps
<1>2. PICK i \in DOMAIN opps : opps[i].mhz >= mhz
  BY DEF Points
<1> DEFINE k == Ceil(opps, mhz)
<1>3. /\ k \in DOMAIN opps /\ opps[k].mhz >= mhz
      /\ \A j \in DOMAIN opps : opps[j].mhz >= mhz => k <= j
  BY <1>1, <1>2, CeilFound
<1>4. Need(mhz) \in Nat
  BY <1>1, <1>3 DEF Need, Voltage
<1> DEFINE h == Ceil(opps, opps[k].mhz)
<1>5. h \in DOMAIN opps /\ opps[h].mhz >= opps[k].mhz /\ h <= k
  <2>1. k \in DOMAIN opps /\ opps[k].mhz \in Nat /\ opps[k].mhz >= opps[k].mhz
    BY <1>1, <1>3
  <2> HIDE DEF k
  <2> QED
    BY <1>1, <2>1, CeilFound
<1>6. k <= h
  BY <1>1, <1>3, <1>5
<1>7. h = k
  BY <1>1, <1>3, <1>5, <1>6
<1> QED
  BY <1>3, <1>4, <1>7 DEF Points

\* The first step of a rate change: a point of the table, its voltage, and the
\* order in which the two are set (k11c_vendor_set_rate).
LEMMA BeginFacts ==
  ASSUME Usable(vendor), NEW who, NEW mhz \in Nat, \E p \in Points : p >= mhz,
         RateBegin(who, mhz)
  PROVE  \E p \in Points :
           /\ rate = NoRate /\ cur' = cur
           /\ rate' = [who |-> who, mhz |-> p, mv |-> Need(p), down |-> p < clk, resumed |-> FALSE]
           /\ p < clk => clk' = p /\ volt' = volt
           /\ ~(p < clk) => clk' = clk /\ volt' = Need(p)
<1> DEFINE m == IF cold /\ limit # 0 /\ mhz > limit THEN limit ELSE mhz
           k == Selected(opps, limit, cold, mhz)
           p == opps[k].mhz
<1>1. m \in Nat /\ \E q \in Points : q >= m
  BY UsableTable, PointsNat DEF Points, opps, limit
<1>2. k = Ceil(opps, m)
  BY DEF Selected
<1>3. p \in Points /\ Ceil(opps, p) = k
  BY <1>1, <1>2, NeedOf
<1>4. Need(p) = Voltage(opps[k], cold)
  BY <1>3 DEF Need
<1> HIDE DEF k
<1>5. /\ rate = NoRate /\ cur' = cur
      /\ rate' = [who |-> who, mhz |-> p, mv |-> Voltage(opps[k], cold), down |-> p < clk,
                  resumed |-> FALSE]
      /\ p < clk => clk' = p /\ volt' = volt
      /\ ~(p < clk) => clk' = clk /\ volt' = Voltage(opps[k], cold)
  BY DEF RateBegin, k
<1> QED
  BY <1>3, <1>4, <1>5

\* update_devfreq always asks for a rate of the table.
LEMMA TargetIsPoint ==
  ASSUME Usable(vendor), cap \in {0, limit}, want \in Nat
  PROVE  Target \in Points
<1>1. /\ Table(opps) /\ Len(opps) \in Nat /\ DOMAIN opps = 1 .. Len(opps)
      /\ \A i \in DOMAIN opps : opps[i].mhz \in Nat
  BY UsableTable, TableFacts DEF opps
<1>2. limit = 0 \/ \E i \in DOMAIN opps : opps[i].mhz = limit
  BY UsableTable DEF opps, limit
<1>3. \E i \in DOMAIN opps : TRUE
  BY DEF Usable, opps
<1>4. CASE cap # 0 /\ want > cap
  <2>1. cap \in Nat /\ \E i \in DOMAIN opps : opps[i].mhz <= cap
    BY <1>1, <1>2, <1>4
  <2>2. Floor(opps, cap) \in DOMAIN opps
    BY <1>1, <2>1, FloorFound
  <2> QED
    BY <1>4, <2>2 DEF Target, Points
<1>5. CASE ~(cap # 0 /\ want > cap) /\ Ceil(opps, want) # 0
  <2>1. Ceil(opps, want) \in DOMAIN opps
    BY <1>1, <1>5, CeilFirst
  <2> QED
    BY <1>5, <2>1 DEF Target, Points
<1>6. CASE ~(cap # 0 /\ want > cap) /\ Ceil(opps, want) = 0
  <2>1. \A i \in DOMAIN opps : opps[i].mhz <= want
    <3>1. \A i \in DOMAIN opps : ~(opps[i].mhz >= want)
      BY <1>1, <1>6, CeilFirst
    <3> QED
      BY <1>1, <3>1
  <2>2. Floor(opps, want) \in DOMAIN opps
    BY <1>1, <1>3, <2>1, FloorFound
  <2> QED
    BY <1>6, <2>2 DEF Target, Points
<1> QED
  BY <1>4, <1>5, <1>6

-----------------------------------------------------------------------------
(* Resources: whatever step fails, nothing is left. *)

\* The only member of a set is its least one.
LEMMA MinOfOne == ASSUME NEW k \in Nat PROVE Min({k}) = k
  BY DEF Min

\* The steps before a step of the probe are those with a smaller index.
LEMMA HeldBeforeStep ==
  ASSUME NEW k \in 1..15
  PROVE  HeldBefore(ProbeOrder[k]) = {ProbeOrder[i] : i \in 1..(k - 1)} \ Unheld
<1> DEFINE I == {i \in 1 .. Len(ProbeOrder) : ProbeOrder[i] = ProbeOrder[k]}
<1>1. I = {k}
  BY DEF ProbeOrder
<1>2. Min(I) = k /\ I # {}
  BY <1>1, MinOfOne
<1> QED
  BY <1>2 DEF HeldBefore, SelectInSeq

\* The members of the order of the probe, one by one.
LEMMA HeldBeforeNames ==
  /\ HeldBefore("io") = {"pool"}
  /\ HeldBefore("irq") = {"pool", "io"}
  /\ HeldBefore("drm_dev") = {"pool", "io", "irq"}
  /\ HeldBefore("drm") = {"pool", "io", "irq", "drm_dev"}
  /\ HeldBefore("fence") = {"pool", "io", "irq", "drm_dev", "drm", "fake"}
  /\ \A step \in {"boot", "power", "rate", "governor"} :
       HeldBefore(step) = {"pool", "io", "irq", "drm_dev", "drm", "fake", "fence", "pm"}
  /\ HeldBefore("devfreq") =
       {"pool", "io", "irq", "drm_dev", "drm", "fake", "fence", "pm", "governor"}
  /\ HeldBefore("monitor") =
       {"pool", "io", "irq", "drm_dev", "drm", "fake", "fence", "pm", "governor", "devfreq"}
  /\ HeldBefore("workqueue") =
       {"pool", "io", "irq", "drm_dev", "drm", "fake", "fence", "pm", "governor", "devfreq",
        "monitor"}
<1> DEFINE Set(k) == {ProbeOrder[i] : i \in 1..(k - 1)} \ Unheld
<1>1. \A k \in 1..15 : HeldBefore(ProbeOrder[k]) = Set(k)
  BY HeldBeforeStep
<1>2. /\ ProbeOrder[2] = "io" /\ ProbeOrder[3] = "irq" /\ ProbeOrder[4] = "drm_dev"
      /\ ProbeOrder[5] = "drm" /\ ProbeOrder[7] = "fence" /\ ProbeOrder[9] = "boot"
      /\ ProbeOrder[10] = "power" /\ ProbeOrder[11] = "rate" /\ ProbeOrder[12] = "governor"
      /\ ProbeOrder[13] = "devfreq" /\ ProbeOrder[14] = "monitor"
      /\ ProbeOrder[15] = "workqueue"
  BY DEF ProbeOrder
<1>3. Set(2) = {"pool"} /\ Set(3) = {"pool", "io"} /\ Set(4) = {"pool", "io", "irq"}
  BY DEF ProbeOrder, Unheld
<1>4. /\ Set(5) = {"pool", "io", "irq", "drm_dev"}
      /\ Set(7) = {"pool", "io", "irq", "drm_dev", "drm", "fake"}
  BY DEF ProbeOrder, Unheld
<1>5. \A k \in 9..12 :
        Set(k) = {"pool", "io", "irq", "drm_dev", "drm", "fake", "fence", "pm"}
  BY DEF ProbeOrder, Unheld
<1>6. Set(13) = {"pool", "io", "irq", "drm_dev", "drm", "fake", "fence", "pm", "governor"}
  BY DEF ProbeOrder, Unheld
<1>7. Set(14) = {"pool", "io", "irq", "drm_dev", "drm", "fake", "fence", "pm", "governor",
                 "devfreq"}
  BY DEF ProbeOrder, Unheld
<1>8. Set(15) = {"pool", "io", "irq", "drm_dev", "drm", "fake", "fence", "pm", "governor",
                 "devfreq", "monitor"}
  BY DEF ProbeOrder, Unheld
<1> HIDE DEF Set
<1> QED
  BY <1>1, <1>2, <1>3, <1>4, <1>5, <1>6, <1>7, <1>8

\* What a probe that ends well has acquired, by name.
LEMMA ProbedNames ==
  Probed = {"pool", "io", "irq", "drm_dev", "drm", "fake", "fence", "pm", "governor", "devfreq",
            "monitor", "workqueue"}
<1>1. ToSet(ProbeOrder) = {"pool", "io", "irq", "drm_dev", "drm", "fake", "fence", "pm", "boot",
                "power", "rate", "governor", "devfreq", "monitor", "workqueue"}
  BY DEF ToSet, ProbeOrder
<1> QED
  BY <1>1 DEF Probed, Unheld

\* The steps that may fail, as the probe names them.
Failing == {"io", "irq", "drm_dev", "drm", "fence", "boot", "power", "rate", "governor",
            "devfreq", "monitor", "workqueue"}

\* The labels of rknpu_probe give back what the steps before a failure acquired.
LEMMA ProbeLeavesNothing == \A step \in Failing : ProbeLeft(step) = {}
<1> USE HeldBeforeNames DEF ProbeLeft, ErrReleaseIommu, DrmRemove, ErrRemoveDrv, ErrDetachPm,
          DevfreqRemove, ErrDevfreqRemove, DrmUndo, DevfreqUndo, Managed
<1>1. ProbeLeft("io") = {} /\ ProbeLeft("irq") = {} /\ ProbeLeft("drm_dev") = {}
  OBVIOUS
<1>2. ProbeLeft("drm") = {} /\ ProbeLeft("fence") = {}
  OBVIOUS
<1>3. ProbeLeft("boot") = {} /\ ProbeLeft("power") = {}
  OBVIOUS
<1>4. ProbeLeft("rate") = {} /\ ProbeLeft("governor") = {}
  OBVIOUS
<1>5. ProbeLeft("devfreq") = {}
  OBVIOUS
<1>6. ProbeLeft("monitor") = {} /\ ProbeLeft("workqueue") = {}
  OBVIOUS
<1> QED
  BY <1>1, <1>2, <1>3, <1>4, <1>5, <1>6 DEF Failing

\* rknpu_remove leaves the memory pool, whether or not there is a fake device.
LEMMA RemovalLeaves ==
  ASSUME NEW held, held \in {Probed, Probed \ {"fake"}}
  PROVE  RemovalLeft(held) \subseteq {"pool"}
  BY ProbedNames DEF RemovalLeft, Managed, DrmRemove, DevfreqRemove

\* The steps of a creation and of an import, and what each of them finds.
LEMMA AcquiredBeforeStep ==
  ASSUME NEW k \in 1..8
  PROVE  AcquiredBefore(Acquisitions[k]) = {Acquisitions[i] : i \in 1..(k - 1)}
<1> DEFINE I == {i \in 1 .. Len(Acquisitions) : Acquisitions[i] = Acquisitions[k]}
<1>1. I = {k}
  BY DEF Acquisitions
<1>2. Min(I) = k /\ I # {}
  BY <1>1, MinOfOne
<1> QED
  BY <1>2 DEF AcquiredBefore, SelectInSeq

\* The steps of a creation, and what is acquired before each.
LEMMA CreationSteps ==
  /\ Created = {"object", "file", "pages", "dma", "sgt", "entries", "filled", "handle"}
  /\ AcquiredBefore("object") = {} /\ AcquiredBefore("file") = {"object"}
  /\ AcquiredBefore("pages") = {"object", "file"}
  /\ AcquiredBefore("dma") = {"object", "file", "pages"}
  /\ AcquiredBefore("sgt") = {"object", "file", "pages", "dma"}
  /\ AcquiredBefore("entries") = {"object", "file", "pages", "dma", "sgt"}
  /\ AcquiredBefore("filled") = {"object", "file", "pages", "dma", "sgt", "entries"}
  /\ AcquiredBefore("handle") = {"object", "file", "pages", "dma", "sgt", "entries", "filled"}
<1> DEFINE Set(k) == {Acquisitions[i] : i \in 1..(k - 1)}
<1>1. \A k \in 1..8 : AcquiredBefore(Acquisitions[k]) = Set(k)
  BY AcquiredBeforeStep
<1>2. /\ Acquisitions[1] = "object" /\ Acquisitions[2] = "file" /\ Acquisitions[3] = "pages"
      /\ Acquisitions[4] = "dma" /\ Acquisitions[5] = "sgt" /\ Acquisitions[6] = "entries"
      /\ Acquisitions[7] = "filled" /\ Acquisitions[8] = "handle"
  BY DEF Acquisitions
<1>3. Set(1) = {} /\ Set(2) = {"object"} /\ Set(3) = {"object", "file"}
  BY DEF Acquisitions
<1>4. Set(4) = {"object", "file", "pages"} /\ Set(5) = {"object", "file", "pages", "dma"}
  BY DEF Acquisitions
<1>5. Set(6) = {"object", "file", "pages", "dma", "sgt"}
  BY DEF Acquisitions
<1>6. Set(7) = {"object", "file", "pages", "dma", "sgt", "entries"}
  BY DEF Acquisitions
<1>7. Set(8) = {"object", "file", "pages", "dma", "sgt", "entries", "filled"}
  BY DEF Acquisitions
<1>8. Created = {"object", "file", "pages", "dma", "sgt", "entries", "filled", "handle"}
  BY DEF Created, ToSet, Acquisitions
<1> HIDE DEF Set
<1> QED
  BY <1>1, <1>2, <1>3, <1>4, <1>5, <1>6, <1>7, <1>8

\* rknpu_gem_create_ioctl, rknpu_gem_object_create, rknpu_gem_alloc_buf.
LEMMA CreationLeavesNothing == \A step \in Created : LeftAfter(step) = {}
<1> USE CreationSteps DEF LeftAfter, BufferUndo, ErrFree, ErrFreeDma, ErrFreeSgt, ErrFreeSgTable,
          Buffer, Release
<1>1. LeftAfter("object") = {} /\ LeftAfter("file") = {} /\ LeftAfter("pages") = {}
  OBVIOUS
<1>2. LeftAfter("dma") = {} /\ LeftAfter("sgt") = {} /\ LeftAfter("entries") = {}
  OBVIOUS
<1>3. LeftAfter("filled") = {} /\ LeftAfter("handle") = {}
  OBVIOUS
<1> QED
  BY <1>1, <1>2, <1>3

\* rknpu_gem_prime_import_sg_table and what DRM has done before it.
LEMMA ImportLeavesNothing == \A step \in Imported \ {"handle"} : ImportLeft(step) = {}
<1> DEFINE Set(k) == {Imports[i] : i \in 1..(k - 1)}
           Undo(step) == {"attachment"} \cup
              CASE step \in {"attachment", "object"} -> {}
                [] step = "file"   -> {"object"}
                [] step = "pages"  -> Release
                [] step = "filled" -> ErrFreeLarge
<1>1. ASSUME NEW k \in 1..5 PROVE ImportLeft(Imports[k]) = Set(k) \ Undo(Imports[k])
  <2> DEFINE I == {i \in 1 .. Len(Imports) : Imports[i] = Imports[k]}
  <2>1. I = {k}
    BY DEF Imports
  <2>2. Min(I) = k /\ I # {}
    BY <2>1, MinOfOne
  <2> QED
    BY <2>2 DEF ImportLeft, SelectInSeq
<1>2. \A k \in 1..5 : Set(k) \ Undo(Imports[k]) = {}
  BY DEF Imports, ErrFreeLarge, Release
<1>3. \A step \in Imported \ {"handle"} : \E k \in 1..5 : step = Imports[k]
  BY DEF Imported, ToSet, Imports
<1> QED
  BY <1>1, <1>2, <1>3

\* The last reference to a complete buffer gives everything back, and the memory of
\* an imported one to its exporter (rknpu_gem_free_object).
LEMMA FreeLeavesNothing == AfterFree(Created) = {} /\ AfterFree(Imported) = {} /\ AfterFree({}) = {}
<1>1. Imported = {"attachment", "object", "file", "pages", "filled", "handle"}
  BY DEF Imported, ToSet, Imports
<1> QED
  BY <1>1, CreationSteps DEF AfterFree, ObjectDestroy, Release, Buffer

-----------------------------------------------------------------------------
(* The invariant. *)

\* Nobody uses a device whose probe has not ended, and only what the probe has set
\* up can run.
Phases ==
  /\ probe \notin {"bound", "removed"} => refs = 0 /\ cmd = 0
  /\ probe # "bound" => /\ \A c \in Clients : client[c] = "idle"
                        /\ admin = "idle" /\ sleep = "no" /\ ~pending
  /\ mon # "off" \/ cap # 0 => probe \in {"set", "bound"}

\* The part of the state that says who is where.
Control ==
  /\ probe \in Pcs /\ fuses \in IF probe = "none" THEN FuseSet ELSE Followed
  /\ pending \in BOOLEAN /\ delay \in BOOLEAN
  /\ client \in [Clients -> {"idle", "ioctl", "destroy", "close"}]
  /\ admin \in {"idle", "show", "set", "rate", "off"} /\ cmd \in 0..MaxCmd
  /\ sleep \in {"no", "got", "asleep", "put"}
  /\ cold \in BOOLEAN /\ mon \in {"off", "timer", "qos", "target", "apply", "dead"}
  /\ faults \in 0..MaxFaults /\ strayed \in BOOLEAN
  /\ Phases

\* A client's buffer is complete or absent.
Buffers ==
  /\ mem \in [Clients -> SUBSET (Created \cup Imported)]
  /\ \A c \in Clients : mem[c] \in {{}, IF c \in Importers THEN Imported ELSE Created}

\* What is acquired at each stage of the probe.
Bare == HeldBefore("power")
Acquired ==
  /\ probe \in {"none", "failed"} => parts = {}
  /\ probe \in {"named", "on", "table", "rate", "applied"} => parts \in {Bare, Bare \ {"fake"}}
  /\ probe = "set" => parts \in {Probed \ {"workqueue"}, Probed \ {"workqueue", "fake"}}
  /\ probe = "bound" => parts \in {Probed, Probed \ {"fake"}}
  /\ probe = "removed" => parts \subseteq {"pool"}
Parts == Acquired /\ Buffers

\* Every holder has its vote, and the votes have the device on.
Count == Cardinality(Busy) + Cardinality(Destroying) + cmd + Bit(admin # "idle")
           + Bit(sleep \in {"got", "asleep"}) + Bit(pending)
Balance == /\ refs > 0 => on >= 1
           /\ ~strayed => refs = Count /\ on = Bit(refs > 0)
Power ==
  /\ refs \in Int /\ on \in Nat
  /\ probe \in {"none", "named", "failed"} => on = 0
  /\ probe \in {"on", "table", "rate", "applied", "set"} => on = 1
  /\ probe = "bound" => Balance
  /\ probe = "removed" /\ ~strayed => on = 0

\* Who holds devfreq_lock is at the place where it does.
Holder ==
  /\ rate = NoRate \/ rate \in [who : {"probe", "qos", "monitor", "admin"}, mhz : Nat, mv : Nat,
                                 down : BOOLEAN, resumed : BOOLEAN]
  /\ rate.who = "probe" <=> probe = "rate"
  /\ rate.who = "qos" => mon = "target"
  /\ rate.who = "monitor" => mon = "apply"
  /\ rate.who = "admin" <=> admin = "rate"

\* The clock runs at a rate that the table can serve.
Clocks ==
  /\ clk \in Nat /\ volt \in Nat /\ cur \in Nat /\ want \in Nat /\ cap \in Nat
  /\ probe = "none" => volt = 0
  /\ probe \in {"none", "named", "on"} => cur = 0 /\ clk = BootMhz
  /\ HasPolicy => /\ ~Refused(fuses) /\ vendor = Prepared(fuses)
                  /\ clk \in Points \cup {BootMhz, SuspendMhz}
                  /\ cur \in Points \cup {0} /\ cap \in {0, limit}
                  /\ probe \in {"applied", "set", "bound"} => cur \in Points
                  /\ probe = "table" => want \in Points

\* A rate change after its first step: it has its point and its voltage, the
\* regulator is there when the clock goes up, the clock when the voltage goes down.
Change ==
  rate # NoRate => /\ rate.mhz \in Points /\ rate.mv = Need(rate.mhz)
                   /\ ~rate.down => volt = rate.mv
                   /\ rate.down /\ ~rate.resumed => SuspendMhz <= clk /\ clk <= rate.mhz
                   /\ rate.who = "probe" => ~rate.resumed

IInv == Control /\ Parts /\ Power /\ Holder /\ Clocks /\ Change

-----------------------------------------------------------------------------
(* Control. *)

\* The probe and a removal: nobody uses the device before and after.
LEMMA ProbeControl ==
  ASSUME Control, Holder, Probe \/ Removal
  PROVE  Control'
<1> USE DeviceAssumption
    DEF Control, Phases, Holder, Pcs, ProbeUnchanged, Fault, NoFault, ProbeFailsAt, policyVars,
        rateVars, userVars, adminVars, chipVars, NoRate
<1>1. CASE ProbeNames
  <2>1. probe = "none" /\ probe' \in {"named", "failed"} /\ fuses \in Followed
    BY <1>1 DEF ProbeNames
  <2>2. faults' \in 0..MaxFaults
    <3>1. faults' = faults \/ Fault
      BY <1>1 DEF ProbeNames
    <3> QED
      BY <3>1
  <2>3. ProbeUnchanged /\ UNCHANGED <<delay, cap, cold, mon>>
    BY <1>1 DEF ProbeNames
  <2> QED
    BY <2>1, <2>2, <2>3
<1>2. CASE ProbePower
  BY <1>2 DEF ProbePower
<1>3. CASE ProbeRefuses
  BY <1>3 DEF ProbeRefuses
<1>4. CASE ProbeTable
  <2>1. cold' \in BOOLEAN
    BY <1>4 DEF ProbeTable, Sampled, ColdState
  <2> QED
    BY <1>4, <2>1 DEF ProbeTable
<1>5. CASE ProbeRate
  BY <1>5 DEF ProbeRate, RateBegin
<1>6. CASE ProbeRateEnd
  BY <1>6 DEF ProbeRateEnd, RateEnd
<1>7. CASE ProbeDevfreq
  BY <1>7 DEF ProbeDevfreq
<1>8. CASE ProbeBinds
  BY <1>8 DEF ProbeBinds
<1>9. CASE ProbeFails
  BY <1>9 DEF ProbeFails
<1>10. CASE ProbeRateFails
  BY <1>10 DEF ProbeRateFails
<1>11. CASE Removal
  BY <1>11 DEF Removal, Quiet
<1> QED
  BY <1>1, <1>2, <1>3, <1>4, <1>5, <1>6, <1>7, <1>8, <1>9, <1>10, <1>11 DEF Probe

\* A power-up, also one whose failure is ignored.
LEMMA GetControl ==
  ASSUME Control, GetIgnored
  PROVE  faults' \in 0..MaxFaults /\ strayed' \in BOOLEAN
<1>1. faults' \in 0..MaxFaults
  BY DeviceAssumption DEF Control, GetIgnored, Get, GetFails, Fault, NoFault
<1>2. strayed' \in BOOLEAN
  BY DEF Control, GetIgnored
<1> QED
  BY <1>1, <1>2

\* Clients: only a device that is bound is used.
LEMMA ClientControl ==
  ASSUME Control, NEW c \in Clients, Client(c)
  PROVE  Control'
<1> USE DeviceAssumption
    DEF Control, Phases, ClientUnchanged, Fault, NoFault, boundVars, policyVars,
        rateVars, adminVars, chipVars, powerVars, Move, Awake
<1>0. client[c] # "idle" => probe = "bound"
  OBVIOUS
<1>1. CASE Ioctl(c)
  BY <1>1 DEF Ioctl, Get, GetFails
<1>2. CASE IoctlEnd(c)
  BY <1>0, <1>2 DEF IoctlEnd, PutDelay, Put
<1>3. CASE Free(c)
  BY <1>3, GetControl DEF Free
<1>4. CASE FreeEnd(c)
  BY <1>0, <1>4 DEF FreeEnd, PutDelay, Put
<1>5. CASE Create(c) \/ DumbCreate(c) \/ Import(c)
  BY <1>5 DEF Create, DumbCreate, Import
<1> QED
  BY <1>1, <1>2, <1>3, <1>4, <1>5 DEF Client

\* The debugfs files and the delayed work.
LEMMA AdminControl ==
  ASSUME Control, Admin \/ PowerOffWork
  PROVE  Control'
<1> USE DeviceAssumption
    DEF Control, Phases, AdminUnchanged, Fault, NoFault, boundVars, userVars,
        rateVars, chipVars, powerVars, policyVars, Awake
<1>0. admin # "idle" \/ pending => probe = "bound"
  OBVIOUS
<1>1. CASE Freq
  BY <1>1, GetControl DEF Freq
<1>2. CASE FreqTarget
  BY <1>0, <1>2 DEF FreqTarget, RateBeginFails
<1>3. CASE FreqTargetEnd
  BY <1>0, <1>3 DEF FreqTargetEnd, RateEndFails
<1>4. CASE FreqEnd
  BY <1>0, <1>4 DEF FreqEnd, Put
<1>5. CASE PowerOnWrite
  BY <1>5, GetControl DEF PowerOnWrite
<1>6. CASE PowerOffWrite
  BY <1>6 DEF PowerOffWrite
<1>7. CASE PowerOffWriteEnd
  BY <1>0, <1>7 DEF PowerOffWriteEnd, Put
<1>8. CASE DelayWrite
  BY <1>8 DEF DelayWrite
<1>9. CASE PowerOffWork
  BY <1>0, <1>9 DEF PowerOffWork, Put
<1> QED
  BY <1>1, <1>2, <1>3, <1>4, <1>5, <1>6, <1>7, <1>8, <1>9 DEF Admin

\* The monitor and system sleep.
LEMMA MonitorControl ==
  ASSUME Control, Monitor \/ SystemSleep
  PROVE  Control'
<1> USE DeviceAssumption
    DEF Control, Phases, MonitorUnchanged, SleepUnchanged, Fault, NoFault, boundVars, userVars,
        rateVars, chipVars, powerVars, policyVars, adminVars, Quiet
<1>0. /\ mon # "off" => probe \in {"set", "bound"}
      /\ sleep # "no" => probe = "bound"
  OBVIOUS
<1>1. CASE MonitorSample
  BY <1>0, <1>1 DEF MonitorSample
<1>2. CASE MonitorQos
  BY <1>0, <1>2 DEF MonitorQos
<1>3. CASE MonitorTarget
  BY <1>0, <1>3 DEF MonitorTarget, RateBeginFails
<1>4. CASE MonitorTargetEnd
  BY <1>0, <1>4 DEF MonitorTargetEnd, RateEndFails
<1>5. CASE MonitorApply
  BY <1>0, <1>5 DEF MonitorApply, RateBeginFails
<1>6. CASE MonitorApplyEnd
  BY <1>0, <1>6 DEF MonitorApplyEnd, RateEndFails
<1>7. CASE Suspend
  BY <1>7 DEF Suspend, Get, GetFails
<1>8. CASE ForceSuspend
  BY <1>0, <1>8 DEF ForceSuspend, Put
<1>9. CASE Resume
  BY <1>0, <1>9 DEF Resume, PutDelay, Put
<1>10. CASE ForceResume
  BY <1>0, <1>10 DEF ForceResume
<1> QED
  BY <1>1, <1>2, <1>3, <1>4, <1>5, <1>6, <1>7, <1>8, <1>9, <1>10 DEF Monitor, SystemSleep

\* The steps of the system, by whom they are of.
LEMMA NextSplits ==
  ASSUME Next
  PROVE  \/ Probe \/ Removal \/ Admin \/ PowerOffWork \/ Monitor \/ SystemSleep
         \/ \E c \in Clients : Client(c)
  BY DEF Next

\* Every step keeps who is where.
LEMMA ControlStep == Control /\ Holder /\ Next => Control'
  BY NextSplits, ProbeControl, ClientControl, AdminControl, MonitorControl

-----------------------------------------------------------------------------
(* Resources. *)

\* What the stages hold, by name.
LEMMA Stages ==
  /\ Bare = {"pool", "io", "irq", "drm_dev", "drm", "fake", "fence", "pm"}
  /\ FakeDevRegister(HeldBefore("power"), TRUE) = Bare
  /\ FakeDevRegister(HeldBefore("power"), FALSE) = Bare \ {"fake"}
  /\ \A held \in {Bare, Bare \ {"fake"}} :
       held \cup {"governor", "devfreq", "monitor"} \in
         {Probed \ {"workqueue"}, Probed \ {"workqueue", "fake"}}
  /\ \A held \in {Probed \ {"workqueue"}, Probed \ {"workqueue", "fake"}} :
       held \cup {"workqueue"} \in {Probed, Probed \ {"fake"}}
<1>1. Bare = {"pool", "io", "irq", "drm_dev", "drm", "fake", "fence", "pm"}
  BY HeldBeforeNames DEF Bare
<1>2. /\ FakeDevRegister(HeldBefore("power"), TRUE) = Bare
      /\ FakeDevRegister(HeldBefore("power"), FALSE) = Bare \ {"fake"}
  BY DEF FakeDevRegister, Bare
<1>3. ASSUME NEW held, held \in {Bare, Bare \ {"fake"}}
      PROVE  held \cup {"governor", "devfreq", "monitor"} \in
               {Probed \ {"workqueue"}, Probed \ {"workqueue", "fake"}}
  <2>1. Bare \cup {"governor", "devfreq", "monitor"} = Probed \ {"workqueue"}
    BY <1>1, ProbedNames
  <2>2. (Bare \ {"fake"}) \cup {"governor", "devfreq", "monitor"}
          = Probed \ {"workqueue", "fake"}
    BY <1>1, ProbedNames
  <2> QED
    BY <1>3, <2>1, <2>2
<1>4. ASSUME NEW held, held \in {Probed \ {"workqueue"}, Probed \ {"workqueue", "fake"}}
      PROVE  held \cup {"workqueue"} \in {Probed, Probed \ {"fake"}}
  <2>1. (Probed \ {"workqueue"}) \cup {"workqueue"} = Probed
    BY ProbedNames
  <2>2. (Probed \ {"workqueue", "fake"}) \cup {"workqueue"} = Probed \ {"fake"}
    BY ProbedNames
  <2> QED
    BY <1>4, <2>1, <2>2
<1> QED
  BY <1>1, <1>2, <1>3, <1>4

\* A probe that fails has given back what it held, and no step of it is made twice.
LEMMA ProbeAcquired ==
  ASSUME Acquired, Probe \/ Removal
  PROVE  Acquired'
<1>2. ASSUME NEW step \in Failing, ProbeFailsAt(step) PROVE Acquired'
  BY <1>2, ProbeLeavesNothing DEF ProbeFailsAt, Acquired
<1>3. CASE ProbeNames
  <2>1. CASE probe' = "named"
    <3>1. parts' \in {Bare, Bare \ {"fake"}}
      BY <1>3, <2>1, Stages DEF ProbeNames, ProbeFailsAt
    <3> QED
      BY <2>1, <3>1 DEF Acquired
  <2>2. CASE probe' # "named"
    <3>1. \E step \in Failing : ProbeFailsAt(step)
      BY <1>3, <2>2 DEF ProbeNames, Failing
    <3> QED
      BY <1>2, <3>1
  <2> QED
    BY <2>1, <2>2
<1>4. CASE ProbePower
  <2>1. CASE ProbeFailsAt("power")
    BY <1>2, <2>1 DEF Failing
  <2>2. CASE ~ProbeFailsAt("power")
    BY <1>4, <2>2 DEF ProbePower, Acquired
  <2> QED
    BY <2>1, <2>2
<1>5. CASE ProbeRefuses \/ ProbeRateFails
  <2>1. ProbeFailsAt("rate")
    BY <1>5 DEF ProbeRefuses, ProbeRateFails
  <2> QED
    BY <1>2, <2>1 DEF Failing
<1>6. CASE ProbeTable \/ ProbeRate \/ ProbeRateEnd
  BY <1>6 DEF ProbeTable, ProbeRate, ProbeRateEnd, Acquired
<1>7. CASE ProbeDevfreq
  <2>1. probe' = "set" /\ parts' = parts \cup {"governor", "devfreq", "monitor"}
    BY <1>7 DEF ProbeDevfreq
  <2>2. parts' \in {Probed \ {"workqueue"}, Probed \ {"workqueue", "fake"}}
    BY <1>7, <2>1, Stages DEF ProbeDevfreq, Acquired
  <2> QED
    BY <2>1, <2>2 DEF Acquired
<1>8. CASE ProbeBinds
  <2>1. probe' = "bound" /\ parts' = parts \cup {"workqueue"}
    BY <1>8 DEF ProbeBinds
  <2>2. parts' \in {Probed, Probed \ {"fake"}}
    BY <1>8, <2>1, Stages DEF ProbeBinds, Acquired
  <2> QED
    BY <2>1, <2>2 DEF Acquired
<1>9. CASE ProbeFails
  <2>1. \E step \in Failing : ProbeFailsAt(step)
    BY <1>9 DEF ProbeFails, Failing
  <2> QED
    BY <1>2, <2>1
<1>10. CASE Removal
  <2>1. probe' = "removed" /\ parts' \subseteq {"pool"}
    BY <1>10, RemovalLeaves DEF Removal, Quiet, Acquired
  <2> QED
    BY <2>1 DEF Acquired
<1> QED
  BY <1>3, <1>4, <1>5, <1>6, <1>7, <1>8, <1>9, <1>10 DEF Probe

\* The probe has nothing to do with buffers.
LEMMA ProbeParts == ASSUME Parts, Probe \/ Removal PROVE Parts'
<1>1. mem' = mem
  BY DEF Probe, Removal, ProbeNames, ProbePower, ProbeRefuses, ProbeTable, ProbeRate,
         ProbeRateEnd, ProbeDevfreq, ProbeBinds, ProbeFails, ProbeRateFails, ProbeUnchanged,
         userVars
<1> QED
  BY <1>1, ProbeAcquired DEF Parts, Buffers

\* A buffer is complete or absent, whatever step of its creation or import fails.
LEMMA ClientParts ==
  ASSUME Parts, NEW c \in Clients, Client(c)
  PROVE  Parts'
<1> DEFINE Good(held) == held \in {{}, IF c \in Importers THEN Imported ELSE Created}
<1>1. UNCHANGED <<probe, parts>>
  BY DEF Client, Ioctl, IoctlEnd, Free, FreeEnd, Create, DumbCreate, Import, ClientUnchanged,
         boundVars
<1>2. Good(mem[c])
  BY DEF Parts, Buffers
<1>3. mem' = mem \/ \E held : Good(held) /\ mem' = [mem EXCEPT ![c] = held]
  <2>1. CASE Ioctl(c) \/ IoctlEnd(c) \/ Free(c)
    BY <2>1 DEF Ioctl, IoctlEnd, Free
  <2>2. CASE FreeEnd(c)
    <3>1. mem' = [mem EXCEPT ![c] = AfterFree(mem[c])]
      BY <2>2 DEF FreeEnd
    <3>2. AfterFree(mem[c]) = {}
      BY <1>2, FreeLeavesNothing
    <3> QED
      BY <3>1, <3>2
  <2>3. CASE Create(c) \/ DumbCreate(c)
    <3>1. c \notin Importers
      BY <2>3 DEF Create, DumbCreate
    <3>2. \/ mem' = [mem EXCEPT ![c] = Created]
          \/ \E step \in Created : mem' = [mem EXCEPT ![c] = LeftAfter(step)]
      BY <2>3 DEF Create, DumbCreate
    <3>3. \/ mem' = [mem EXCEPT ![c] = Created]
          \/ mem' = [mem EXCEPT ![c] = {}]
      BY <3>2, CreationLeavesNothing
    <3> QED
      BY <3>1, <3>3
  <2>4. CASE Import(c)
    <3>1. c \in Importers
      BY <2>4 DEF Import
    <3>2. \/ mem' = [mem EXCEPT ![c] = Imported]
          \/ \E step \in Imported \ {"handle"} : mem' = [mem EXCEPT ![c] = ImportLeft(step)]
      BY <2>4 DEF Import
    <3>3. \/ mem' = [mem EXCEPT ![c] = Imported]
          \/ mem' = [mem EXCEPT ![c] = {}]
      BY <3>2, ImportLeavesNothing
    <3> QED
      BY <3>1, <3>3
  <2> QED
    BY <2>1, <2>2, <2>3, <2>4 DEF Client
<1>4. Buffers'
  <2>1. Buffers
    BY DEF Parts, Buffers
  <2> QED
    BY <1>3, <2>1 DEF Buffers
<1> QED
  BY <1>1, <1>4 DEF Parts, Acquired

\* Nobody else acquires or gives back a resource.
LEMMA OtherParts ==
  ASSUME Parts, Admin \/ PowerOffWork \/ Monitor \/ SystemSleep
  PROVE  Parts'
<1>1. UNCHANGED <<probe, parts, mem>>
  BY DEF Admin, PowerOffWork, Monitor, SystemSleep, Freq, FreqTarget, FreqTargetEnd, FreqEnd,
         PowerOnWrite, PowerOffWrite, PowerOffWriteEnd, DelayWrite, MonitorSample, MonitorQos,
         MonitorTarget, MonitorTargetEnd, MonitorApply, MonitorApplyEnd, Suspend, ForceSuspend,
         Resume, ForceResume, AdminUnchanged, MonitorUnchanged, SleepUnchanged, boundVars, userVars
<1> QED
  BY <1>1 DEF Parts, Acquired, Buffers

-----------------------------------------------------------------------------
(* Votes. *)

\* A set with one member more, one less, or the same.
LEMMA CountOne ==
  ASSUME NEW S, IsFiniteSet(S), NEW T, NEW c, T \ {c} = S \ {c}
  PROVE  /\ Cardinality(S) \in Nat /\ Cardinality(T) \in Nat
         /\ Cardinality(T) = Cardinality(S) + Bit(c \in T) - Bit(c \in S)
<1>1. Cardinality(S) \in Nat
  BY FS_CardinalityType
<1>2. CASE c \in T /\ c \notin S
  <2>1. T = S \cup {c}
    BY <1>2
  <2>2. Cardinality(S \cup {c}) = Cardinality(S) + 1
    BY <1>2, FS_AddElement
  <2> QED
    BY <1>1, <1>2, <2>1, <2>2 DEF Bit
<1>3. CASE c \notin T /\ c \in S
  <2>1. T = S \ {c} /\ IsFiniteSet(T)
    BY <1>3, FS_RemoveElement
  <2>2. Cardinality(S \ {c}) = Cardinality(S) - 1
    BY <1>3, FS_RemoveElement
  <2>3. Cardinality(T) \in Nat
    BY <2>1, FS_CardinalityType
  <2> QED
    BY <1>1, <1>3, <2>1, <2>2, <2>3 DEF Bit
<1>4. CASE c \in T <=> c \in S
  <2>1. T = S
    BY <1>4
  <2> QED
    BY <1>1, <1>4, <2>1 DEF Bit
<1> QED
  BY <1>2, <1>3, <1>4

\* The votes of a client that moves.
VotesAt(place) == Bit(place # "idle") + Bit(place = "destroy")

\* A client that moves changes the count by what its places differ.
LEMMA MoveCounts ==
  ASSUME Control, NEW c \in Clients, NEW to, Move(c, to)
  PROVE  /\ Cardinality(Busy) + Cardinality(Destroying) \in Nat
         /\ Cardinality(Busy') + Cardinality(Destroying') \in Nat
         /\ Cardinality(Busy') + Cardinality(Destroying')
              = Cardinality(Busy) + Cardinality(Destroying) + VotesAt(to) - VotesAt(client[c])
<1>1. \A d \in Clients : client'[d] = IF d = c THEN to ELSE client[d]
  BY DEF Move, Control
<1>2. IsFiniteSet(Busy) /\ IsFiniteSet(Destroying)
  BY DeviceAssumption, FS_Subset, Busy \subseteq Clients, Destroying \subseteq Clients
  DEF Busy, Destroying
<1>3. /\ Busy' \ {c} = Busy \ {c} /\ Destroying' \ {c} = Destroying \ {c}
      /\ c \in Busy <=> client[c] # "idle"
      /\ c \in Busy' <=> to # "idle"
      /\ c \in Destroying <=> client[c] = "destroy"
      /\ c \in Destroying' <=> to = "destroy"
  BY <1>1 DEF Busy, Destroying
<1>4. /\ Cardinality(Busy) \in Nat /\ Cardinality(Busy') \in Nat
      /\ Cardinality(Busy') = Cardinality(Busy) + Bit(to # "idle") - Bit(client[c] # "idle")
  BY <1>2, <1>3, CountOne DEF Bit
<1>5. /\ Cardinality(Destroying) \in Nat /\ Cardinality(Destroying') \in Nat
      /\ Cardinality(Destroying')
           = Cardinality(Destroying) + Bit(to = "destroy") - Bit(client[c] = "destroy")
  BY <1>2, <1>3, CountOne DEF Bit
<1> QED
  BY <1>4, <1>5 DEF VotesAt, Bit

\* Votes are counted in natural numbers, and each holder counts.
LEMMA CountParts ==
  ASSUME Control
  PROVE  /\ Cardinality(Busy) + Cardinality(Destroying) \in Nat /\ cmd \in Nat
         /\ Count \in Nat
         /\ Count >= cmd + Bit(admin # "idle") + Bit(sleep \in {"got", "asleep"}) + Bit(pending)
<1>1. Cardinality(Busy) + Cardinality(Destroying) \in Nat
  BY DeviceAssumption, FS_Subset, FS_CardinalityType, Busy \subseteq Clients,
     Destroying \subseteq Clients DEF Busy, Destroying
<1>2. cmd \in Nat
  BY DeviceAssumption DEF Control
<1>3. Cardinality(Busy) \in Nat /\ Cardinality(Destroying) \in Nat
  BY DeviceAssumption, FS_Subset, FS_CardinalityType, Busy \subseteq Clients,
     Destroying \subseteq Clients DEF Busy, Destroying
<1> QED
  BY <1>1, <1>2, <1>3 DEF Count, Bit

\* rknpu_power_get and rknpu_power_put with their callers' votes.
LEMMA GetBalance ==
  ASSUME Balance, refs \in Int, on \in Nat, Count \in Nat, Get, Count' = Count + 1,
         strayed' = strayed
  PROVE  Balance' /\ refs' \in Int /\ on' \in Nat
  BY DEF Balance, Get, PowerOn, Bit

\* A vote given back: the last one turns the device off.
LEMMA PutBalance ==
  ASSUME Balance, refs \in Int, on \in Nat, Count \in Nat, Put, Count' = Count - 1, Count >= 1,
         strayed' = strayed
  PROVE  Balance' /\ refs' \in Int /\ on' \in Nat
  BY DEF Balance, Put, PowerOff, Bit

\* A caller that goes on without power.
LEMMA StrayBalance ==
  ASSUME refs \in Int, on \in Nat, GetFails, strayed' = TRUE
  PROVE  Balance' /\ refs' \in Int /\ on' \in Nat
  BY DEF Balance, GetFails

\* A vote whose result nobody looks at.
LEMMA GetIgnoredBalance ==
  ASSUME Balance, refs \in Int, on \in Nat, Count \in Nat, GetIgnored, Count' = Count + 1
  PROVE  Balance' /\ refs' \in Int /\ on' \in Nat
  BY GetBalance, StrayBalance DEF GetIgnored

\* rknpu_power_put_delay: the vote goes, or becomes the delayed work's.
LEMMA PutDelayBalance ==
  ASSUME Balance, refs \in Int, on \in Nat, Count \in Nat, pending \in BOOLEAN, PutDelay,
         Count' = Count - 1 + Bit(pending') - Bit(pending), Count >= 1 + Bit(pending),
         strayed' = strayed
  PROVE  Balance' /\ refs' \in Int /\ on' \in Nat
<1>1. CASE ~delay
  BY <1>1, PutBalance DEF PutDelay, Bit
<1>2. CASE delay /\ refs > 1
  <2>1. refs' = refs - 1 /\ on' = on /\ Bit(pending') = Bit(pending)
    BY <1>2 DEF PutDelay, Bit
  <2>2. Bit(pending) \in Int
    BY DEF Bit
  <2>3. Count' = Count - 1
    BY <2>1, <2>2
  <2> QED
    BY <1>2, <2>1, <2>3 DEF Balance, Bit
<1>3. CASE delay /\ refs <= 1
  <2>1. refs' = refs /\ on' = on
    BY <1>3 DEF PutDelay
  <2>2. CASE strayed
    BY <2>1, <2>2 DEF Balance
  <2>3. CASE ~strayed
    <3>1. refs = 1 /\ Count = 1 /\ ~pending
      BY <1>3, <2>3 DEF Balance, Bit
    <3>2. pending' = TRUE
      BY <1>3, <3>1 DEF PutDelay
    <3>3. Count' = 1
      BY <3>1, <3>2 DEF Bit
    <3> QED
      BY <2>1, <3>1, <3>3 DEF Balance, Bit
  <2> QED
    BY <2>2, <2>3
<1> QED
  BY <1>1, <1>2, <1>3

\* In use, only the balance is at stake.
LEMMA BoundPower ==
  ASSUME probe = "bound", probe' = "bound", Balance', refs' \in Int, on' \in Nat
  PROVE  Power'
  BY DEF Power

\* An ioctl, a free or the end of either counts itself and takes or gives its vote.
LEMMA ClientPower ==
  ASSUME Control, Power, NEW c \in Clients, Client(c)
  PROVE  Power'
<1> DEFINE Theirs == Cardinality(Busy) + Cardinality(Destroying)
<1>1. probe = "bound" /\ probe' = "bound" /\ UNCHANGED <<cmd, admin, sleep>>
  <2>1. client[c] # "idle" => probe = "bound"
    BY DEF Control, Phases
  <2> QED
    BY <2>1 DEF Client, Ioctl, IoctlEnd, Free, FreeEnd, Create, DumbCreate, Import, Awake,
                ClientUnchanged, boundVars, adminVars
<1>2. Balance /\ refs \in Int /\ on \in Nat /\ pending \in BOOLEAN
  BY <1>1 DEF Power, Control
<1>3. Count \in Nat
  BY CountParts
<1>4. Count = Theirs + cmd + Bit(admin # "idle") + Bit(sleep \in {"got", "asleep"}) + Bit(pending)
  BY DEF Count
<1>5. Count' = Theirs' + cmd + Bit(admin # "idle") + Bit(sleep \in {"got", "asleep"})
                 + Bit(pending')
  BY <1>1 DEF Count
<1>6. cmd \in Nat /\ Bit(admin # "idle") \in Nat /\ Bit(sleep \in {"got", "asleep"}) \in Nat
      /\ Bit(pending) \in Nat /\ Bit(pending') \in Nat
  BY CountParts DEF Bit
<1>7. ASSUME NEW to, Move(c, to)
      PROVE  /\ Theirs \in Nat /\ Theirs' \in Nat
             /\ Theirs' = Theirs + VotesAt(to) - VotesAt(client[c])
  BY <1>7, MoveCounts
<1> HIDE DEF Theirs
<1>8. CASE client' = client /\ powerVars' = powerVars /\ strayed' = strayed
  <2>1. Busy' = Busy /\ Destroying' = Destroying
    BY <1>8 DEF Busy, Destroying
  <2>2. Count' = Count
    BY <1>1, <1>8, <2>1 DEF Count, powerVars
  <2> QED
    BY <1>1, <1>2, <1>8, <2>2 DEF Power, Balance, powerVars
<1>9. CASE Ioctl(c)
  <2>1. CASE GetFails /\ client' = client
    BY <1>8, <1>9, <2>1 DEF Ioctl, GetFails, powerVars
  <2>2. CASE Get /\ Move(c, "ioctl")
    <3>1. Theirs' = Theirs + 1 /\ Theirs \in Nat
      BY <1>7, <1>9, <2>2 DEF Ioctl, VotesAt, Bit
    <3>2. pending' = pending /\ strayed' = strayed
      BY <1>9 DEF Ioctl
    <3>3. Count' = Count + 1
      BY <1>4, <1>5, <1>6, <3>1, <3>2
    <3> QED
      BY <1>1, <1>2, <1>3, <2>2, <3>2, <3>3, GetBalance, BoundPower
  <2> QED
    BY <1>9, <2>1, <2>2 DEF Ioctl
<1>10. CASE Free(c)
  <2>1. Theirs' = Theirs + 1 /\ Theirs \in Nat
    <3>1. \/ client[c] = "ioctl" /\ Move(c, "destroy")
          \/ client[c] = "idle" /\ Move(c, "close")
      BY <1>10 DEF Free
    <3> QED
      BY <1>7, <3>1 DEF VotesAt, Bit
  <2>2. pending' = pending /\ GetIgnored
    BY <1>10 DEF Free
  <2>3. Count' = Count + 1
    BY <1>4, <1>5, <1>6, <2>1, <2>2
  <2> QED
    BY <1>1, <1>2, <1>3, <2>2, <2>3, GetIgnoredBalance, BoundPower
<1>11. CASE IoctlEnd(c) \/ FreeEnd(c)
  <2>1. Theirs' = Theirs - 1 /\ Theirs \in Nat /\ Theirs' \in Nat
    <3>1. \/ client[c] = "ioctl" /\ Move(c, "idle")
          \/ client[c] = "destroy" /\ Move(c, "ioctl")
          \/ client[c] = "close" /\ Move(c, "idle")
      BY <1>11 DEF IoctlEnd, FreeEnd
    <3> QED
      BY <1>7, <3>1 DEF VotesAt, Bit
  <2>2. PutDelay /\ strayed' = strayed
    BY <1>11 DEF IoctlEnd, FreeEnd
  <2>3. Count' = Count - 1 + Bit(pending') - Bit(pending) /\ Count >= 1 + Bit(pending)
    BY <1>4, <1>5, <1>6, <2>1
  <2> QED
    BY <1>1, <1>2, <1>3, <2>2, <2>3, PutDelayBalance, BoundPower
<1>12. CASE Create(c) \/ DumbCreate(c) \/ Import(c)
  BY <1>8, <1>12 DEF Create, DumbCreate, Import
<1> QED
  BY <1>9, <1>10, <1>11, <1>12 DEF Client

\* Without a client that moves, the count changes with the other holders only.
LEMMA CountOthers ==
  ASSUME Control, client' = client
  PROVE  \E n \in Nat :
           /\ Count = n + cmd + Bit(admin # "idle") + Bit(sleep \in {"got", "asleep"})
                        + Bit(pending)
           /\ Count' = n + cmd' + Bit(admin' # "idle") + Bit(sleep' \in {"got", "asleep"})
                        + Bit(pending')
<1>1. Busy' = Busy /\ Destroying' = Destroying
  BY DEF Busy, Destroying
<1> DEFINE n == Cardinality(Busy) + Cardinality(Destroying)
<1>2. n \in Nat
  BY CountParts
<1> QED
  BY <1>1, <1>2 DEF Count

\* The debugfs files and the delayed work.
LEMMA AdminPower ==
  ASSUME Control, Power, Admin \/ PowerOffWork
  PROVE  Power'
<1>1. probe = "bound" /\ probe' = "bound" /\ UNCHANGED <<client, sleep>>
  <2>1. admin # "idle" \/ pending => probe = "bound"
    BY DEF Control, Phases
  <2> QED
    BY <2>1 DEF Admin, PowerOffWork, Freq, FreqTarget, FreqTargetEnd, FreqEnd, PowerOnWrite,
                PowerOffWrite, PowerOffWriteEnd, DelayWrite, Awake, AdminUnchanged, boundVars, userVars
<1>2. Balance /\ refs \in Int /\ on \in Nat /\ pending \in BOOLEAN
  BY <1>1 DEF Power, Control
<1>3. Count \in Nat /\ cmd \in Nat
  BY CountParts
<1>4. PICK n \in Nat :
        /\ Count = n + cmd + Bit(admin # "idle") + Bit(sleep \in {"got", "asleep"}) + Bit(pending)
        /\ Count' = n + cmd' + Bit(admin' # "idle") + Bit(sleep \in {"got", "asleep"})
                      + Bit(pending')
  BY <1>1, CountOthers
<1>5. CASE Freq
  <2>1. GetIgnored /\ admin = "idle" /\ admin' # "idle" /\ UNCHANGED <<cmd, pending>>
    BY <1>5 DEF Freq
  <2>2. Count' = Count + 1
    BY <1>3, <1>4, <2>1 DEF Bit
  <2> QED
    BY <1>1, <1>2, <1>3, <2>1, <2>2, GetIgnoredBalance, BoundPower
<1>6. CASE PowerOnWrite
  <2>1. GetIgnored /\ cmd' = cmd + 1 /\ UNCHANGED <<admin, pending>>
    BY <1>6 DEF PowerOnWrite
  <2>2. Count' = Count + 1
    BY <1>3, <1>4, <2>1 DEF Bit
  <2> QED
    BY <1>1, <1>2, <1>3, <2>1, <2>2, GetIgnoredBalance, BoundPower
<1>7. CASE FreqEnd \/ PowerOffWriteEnd
  <2>1. Put /\ admin # "idle" /\ admin' = "idle" /\ UNCHANGED <<cmd, pending, strayed>>
    BY <1>7 DEF FreqEnd, PowerOffWriteEnd
  <2>2. Count' = Count - 1 /\ Count >= 1
    BY <1>3, <1>4, <2>1 DEF Bit
  <2> QED
    BY <1>1, <1>2, <1>3, <2>1, <2>2, PutBalance, BoundPower
<1>8. CASE PowerOffWork
  <2>1. Put /\ pending = TRUE /\ pending' = FALSE /\ UNCHANGED <<cmd, admin, strayed>>
    BY <1>8, <1>2 DEF PowerOffWork
  <2>2. Count' = Count - 1 /\ Count >= 1
    BY <1>3, <1>4, <2>1 DEF Bit
  <2> QED
    BY <1>1, <1>2, <1>3, <2>1, <2>2, PutBalance, BoundPower
<1>9. CASE PowerOffWrite
  <2>1. /\ admin = "idle" /\ admin' # "idle" /\ cmd > 0 /\ cmd' = 0
        /\ refs > 0 /\ refs' = refs - (cmd - 1) /\ UNCHANGED <<on, pending, strayed>>
    BY <1>9 DEF PowerOffWrite
  <2>2. Count' = Count - (cmd - 1) /\ Count' >= 1
    BY <1>3, <1>4, <2>1 DEF Bit
  <2>3. refs' \in Int /\ refs' <= refs /\ on' \in Nat
    BY <1>2, <1>3, <2>1
  <2>4. Balance'
    BY <1>2, <1>3, <2>1, <2>2, <2>3 DEF Balance, Bit
  <2> QED
    BY <1>1, <2>3, <2>4, BoundPower
<1>10. CASE FreqTarget \/ FreqTargetEnd \/ DelayWrite
  <2>1. /\ UNCHANGED <<refs, on, pending, cmd, strayed>>
        /\ admin' # "idle" <=> admin # "idle"
    BY <1>10 DEF FreqTarget, FreqTargetEnd, DelayWrite, powerVars
  <2>2. Count' = Count
    BY <1>3, <1>4, <2>1 DEF Bit
  <2> QED
    BY <1>1, <1>2, <2>1, <2>2 DEF Power, Balance
<1> QED
  BY <1>5, <1>6, <1>7, <1>8, <1>9, <1>10 DEF Admin

\* The monitor holds no vote; a system that goes to sleep holds one.
LEMMA MonitorPower ==
  ASSUME Control, Power, Monitor
  PROVE  Power'
<1>1. UNCHANGED <<probe, client, refs, on, pending, cmd, admin, sleep, strayed>>
  BY DEF Monitor, MonitorSample, MonitorQos, MonitorTarget, MonitorTargetEnd, MonitorApply,
         MonitorApplyEnd, MonitorUnchanged, powerVars, adminVars, userVars
<1>2. Count' = Count
  BY <1>1 DEF Count, Busy, Destroying
<1> QED
  BY <1>1, <1>2 DEF Power, Balance

\* System sleep holds a vote until it leaves it to the delayed work (Resume).
LEMMA SleepPower ==
  ASSUME Control, Power, SystemSleep
  PROVE  Power'
<1>1. probe = "bound" /\ probe' = "bound" /\ UNCHANGED <<client, cmd, admin, strayed>>
  <2>1. sleep # "no" => probe = "bound"
    BY DEF Control, Phases
  <2> QED
    BY <2>1 DEF SystemSleep, Suspend, ForceSuspend, Resume, ForceResume, Quiet, SleepUnchanged,
                adminVars, userVars
<1>2. Balance /\ refs \in Int /\ on \in Nat /\ pending \in BOOLEAN
  BY <1>1 DEF Power, Control
<1>3. Count \in Nat /\ cmd \in Nat
  BY CountParts
<1>4. PICK n \in Nat :
        /\ Count = n + cmd + Bit(admin # "idle") + Bit(sleep \in {"got", "asleep"}) + Bit(pending)
        /\ Count' = n + cmd + Bit(admin # "idle") + Bit(sleep' \in {"got", "asleep"})
                      + Bit(pending')
  BY <1>1, CountOthers
<1>5. ASSUME UNCHANGED <<refs, on, pending>>, sleep' \in {"got", "asleep"} <=> sleep \in {"got", "asleep"}
      PROVE  Power'
  <2>1. Count' = Count
    BY <1>3, <1>4, <1>5 DEF Bit
  <2> QED
    BY <1>1, <1>2, <1>5, <2>1 DEF Power, Balance
<1>6. CASE Suspend
  <2>1. CASE GetFails /\ sleep' = sleep
    BY <1>5, <1>6, <2>1 DEF Suspend, GetFails
  <2>2. CASE Get /\ sleep' = "got"
    <3>1. sleep = "no" /\ pending' = pending
      BY <1>6 DEF Suspend, Quiet
    <3>2. Count' = Count + 1
      BY <1>3, <1>4, <2>2, <3>1 DEF Bit
    <3> QED
      BY <1>1, <1>2, <1>3, <2>2, <3>2, GetBalance, BoundPower
  <2> QED
    BY <1>6, <2>1, <2>2 DEF Suspend
<1>7. CASE ForceSuspend
  <2>1. CASE sleep' = "asleep"
    BY <1>5, <1>7, <2>1 DEF ForceSuspend
  <2>2. CASE sleep' # "asleep"
    <3>1. sleep = "got" /\ sleep' = "no" /\ Put /\ pending' = pending
      BY <1>7, <2>2 DEF ForceSuspend
    <3>2. Count' = Count - 1 /\ Count >= 1
      BY <1>3, <1>4, <3>1 DEF Bit
    <3> QED
      BY <1>1, <1>2, <1>3, <3>1, <3>2, PutBalance, BoundPower
  <2> QED
    BY <2>1, <2>2
<1>8. CASE Resume
  <2>1. sleep = "asleep" /\ sleep' = "put" /\ PutDelay
    BY <1>8 DEF Resume
  <2>2. Count' = Count - 1 + Bit(pending') - Bit(pending) /\ Count >= 1 + Bit(pending)
    BY <1>3, <1>4, <2>1 DEF Bit
  <2> QED
    BY <1>1, <1>2, <1>3, <2>1, <2>2, PutDelayBalance, BoundPower
<1>9. CASE ForceResume
  BY <1>5, <1>9 DEF ForceResume, powerVars
<1> QED
  BY <1>6, <1>7, <1>8, <1>9 DEF SystemSleep

\* The probe holds one vote from its power-up to its end, also when it fails; a
\* removal gives back the vote of the delayed work and the command line's at once.
LEMMA ProbePowerStep ==
  ASSUME Control, Power, Probe \/ Removal
  PROVE  Power'
<1> USE DEF Power, ProbeUnchanged, ProbeFailsAt, rateVars, policyVars, userVars
<1>1. CASE ProbeNames
  <2>1. probe = "none" /\ probe' \in {"named", "failed"} /\ UNCHANGED <<refs, on>>
    BY <1>1 DEF ProbeNames
  <2> QED
    BY <2>1
<1>2. CASE ProbePower
  BY <1>2 DEF ProbePower, PowerOn
<1>3. CASE ProbeRefuses
  BY <1>3 DEF ProbeRefuses, PowerOff
<1>4. CASE ProbeTable \/ ProbeRate \/ ProbeRateEnd \/ ProbeDevfreq
  BY <1>4 DEF ProbeTable, ProbeRate, ProbeRateEnd, ProbeDevfreq
<1>5. CASE ProbeBinds
  <2>1. /\ probe' = "bound" /\ on = 1 /\ on' = 0 /\ refs' = 0
        /\ UNCHANGED <<pending, client, admin, cmd, sleep>>
    BY <1>5 DEF ProbeBinds, PowerOff, Control, Phases
  <2>2. /\ Busy' = {} /\ Destroying' = {} /\ cmd = 0 /\ admin = "idle" /\ sleep = "no"
        /\ ~pending
    BY <1>5, <2>1 DEF ProbeBinds, Control, Phases, Busy, Destroying
  <2>3. Count' = 0
    BY <2>1, <2>2, FS_EmptySet DEF Count, Bit
  <2> QED
    BY <2>1, <2>3 DEF Balance, Bit
<1>6. CASE ProbeFails
  <2>1. probe \in {"table", "applied", "set"} /\ probe' = "failed" /\ on' = on - 1 /\ refs' = refs
    BY <1>6 DEF ProbeFails, PowerOff
  <2> QED
    BY <2>1
<1>7. CASE ProbeRateFails
  BY <1>7 DEF ProbeRateFails
<1>8. CASE Removal
  <2>1. probe = "bound" /\ probe' = "removed" /\ UNCHANGED <<refs, strayed>>
    BY <1>8 DEF Removal, Quiet
  <2>2. IF refs > 0 THEN on' = on - 1 ELSE on' = on
    BY <1>8 DEF Removal, PowerOff
  <2> QED
    BY <2>1, <2>2 DEF Balance, Bit
<1> QED
  BY <1>1, <1>2, <1>3, <1>4, <1>5, <1>6, <1>7, <1>8 DEF Probe

\* Every step keeps the votes balanced.
LEMMA PowerStep == Control /\ Power /\ Next => Power'
  BY NextSplits, ProbePowerStep, ClientPower, AdminPower, MonitorPower, SleepPower

-----------------------------------------------------------------------------
(* Rates. *)

\* Where the driver has a policy, its table can serve the live clock.
LEMMA Served ==
  ASSUME Control, Clocks, HasPolicy
  PROVE  /\ Usable(vendor)
         /\ \E p \in Points : p >= clk
         /\ \A p \in Points : p \in Nat /\ p >= SuspendMhz
<1>1. fuses \in Followed
  BY DEF Control, HasPolicy
<1>2. Usable(vendor)
  BY <1>1, UsableChip, DeviceAssumption DEF Clocks
<1>3. \A p \in Points : p \in Nat /\ p >= SuspendMhz
  BY <1>2, PointsNat DEF Usable, Points, opps
<1>4. \E p \in Points : p >= BootMhz
  BY <1>2 DEF Usable, Points, opps
<1>5. \E p \in Points : p >= clk
  BY <1>3, <1>4 DEF Clocks
<1> QED
  BY <1>2, <1>3, <1>5

\* The first step of a rate change by who (BeginFacts).
Begins(who) ==
  \E p \in Points :
    /\ rate = NoRate /\ cur' = cur
    /\ rate' = [who |-> who, mhz |-> p, mv |-> Need(p), down |-> p < clk, resumed |-> FALSE]
    /\ p < clk => clk' = p /\ volt' = volt
    /\ ~(p < clk) => clk' = clk /\ volt' = Need(p)

\* Whoever changes the rate asks for one that the table can serve.
LEMMA RateBegins ==
  ASSUME Control, Holder, Clocks
  PROVE  /\ ProbeRate => Begins("probe")
         /\ FreqTarget /\ ~RateBeginFails => Begins("admin")
         /\ MonitorTarget /\ ~RateBeginFails => Begins("qos")
         /\ MonitorApply /\ ~RateBeginFails => Begins("monitor")
<1>1. ASSUME NEW who, NEW mhz, HasPolicy, mhz \in Points \/ mhz = clk, RateBegin(who, mhz)
      PROVE  Begins(who)
  <2>1. mhz \in Nat /\ \E p \in Points : p >= mhz
    BY <1>1, Served DEF Clocks
  <2> QED
    BY <1>1, <2>1, Served, BeginFacts DEF Begins
<1>2. ASSUME probe \in {"set", "bound"} PROVE HasPolicy /\ Target \in Points
  <2>1. HasPolicy
    BY <1>2 DEF HasPolicy
  <2> QED
    BY <2>1, Served, TargetIsPoint DEF Clocks
<1>3. ASSUME ProbeRate PROVE Begins("probe")
  BY <1>1, <1>3 DEF ProbeRate, Clocks, HasPolicy
<1>4. ASSUME FreqTarget, ~RateBeginFails PROVE Begins("admin")
  <2>1. probe = "bound" /\ RateBegin("admin", Target)
    BY <1>4 DEF FreqTarget, Control, Phases
  <2> QED
    BY <1>1, <1>2, <2>1
<1>5. ASSUME MonitorTarget, ~RateBeginFails PROVE Begins("qos")
  <2>1. probe \in {"set", "bound"} /\ RateBegin("qos", Target)
    BY <1>5 DEF MonitorTarget, Control, Phases
  <2> QED
    BY <1>1, <1>2, <2>1
<1>6. ASSUME MonitorApply, ~RateBeginFails PROVE Begins("monitor")
  <2>1. probe \in {"set", "bound"} /\ RateBegin("monitor", clk)
    BY <1>6 DEF MonitorApply, Control, Phases
  <2> QED
    BY <1>1, <1>2, <2>1
<1> QED
  BY <1>3, <1>4, <1>5, <1>6

\* The invariant about rates, in one name.
Rate == Holder /\ Clocks /\ Change

\* What stays where the chip, its table and the temperature stay.
LEMMA SameTable ==
  ASSUME UNCHANGED <<vendor, cold>>
  PROVE  Points' = Points /\ limit' = limit /\ \A m : Need(m)' = Need(m)
  BY DEF Points, limit, opps, Need

\* After the first step: the change is described by its record.
LEMMA BeginRate ==
  ASSUME Control, Rate, NEW who, Begins(who), HasPolicy, HasPolicy',
         UNCHANGED <<fuses, vendor, want, cap, cold>>,
         probe' = probe \/ ProbeRate
  PROVE  /\ Clocks' /\ Change' /\ rate'.who = who
         /\ rate' \in [who : {who}, mhz : Nat, mv : Nat, down : BOOLEAN, resumed : BOOLEAN]
<1>1. PICK p \in Points :
        /\ rate = NoRate /\ cur' = cur
        /\ rate' = [who |-> who, mhz |-> p, mv |-> Need(p), down |-> p < clk, resumed |-> FALSE]
        /\ p < clk => clk' = p /\ volt' = volt
        /\ ~(p < clk) => clk' = clk /\ volt' = Need(p)
  BY DEF Begins
<1>2. Points' = Points /\ limit' = limit /\ Need(p)' = Need(p)
  BY SameTable
<1>3. p \in Nat /\ Need(p) \in Nat /\ clk \in Nat
  BY Served, NeedOf DEF Rate, Clocks
<1>4. Clocks'
  BY <1>1, <1>2, <1>3 DEF Clocks, Rate, HasPolicy, ProbeRate
<1>5. /\ rate'.mhz = p /\ rate'.mv = Need(p) /\ rate'.down = (p < clk) /\ ~rate'.resumed
      /\ Need(rate.mhz)' = Need(p)
  BY <1>1, <1>2 DEF Need, opps
<1>6. Change'
  <2>1. rate'.mhz \in Points' /\ rate'.mv = Need(rate.mhz)'
    BY <1>2, <1>5
  <2>2. ~rate'.down => volt' = rate'.mv
    BY <1>1, <1>5
  <2>3. rate'.down => SuspendMhz <= clk' /\ clk' <= rate'.mhz
    <3>1. SuspendMhz <= p
      BY Served DEF Rate
    <3>2. rate'.down => clk' = p
      BY <1>1, <1>5
    <3>3. rate'.mhz = p /\ p <= p
      BY <1>3, <1>5
    <3> QED
      BY ONLY <3>1, <3>2, <3>3
  <2> QED
    BY <1>5, <2>1, <2>2, <2>3 DEF Change
<1> QED
  BY <1>1, <1>3, <1>4, <1>6

\* After the second step nobody holds devfreq_lock, and the rate is in force.
LEMMA EndRate ==
  ASSUME Control, Rate, NEW who \in {"probe", "admin", "qos", "monitor"},
         RateEnd(who) \/ RateEndFails(who), HasPolicy, HasPolicy',
         UNCHANGED <<fuses, vendor, want, cap>>,
         probe' = probe \/ ProbeRateEnd
  PROVE  /\ Clocks' /\ Change' /\ rate' = NoRate
<1>1. rate.who = who /\ rate' = NoRate /\ rate # NoRate
  BY DEF RateEnd, RateEndFails, NoRate
<1>2. rate.mhz \in Points /\ rate.mhz \in Nat /\ rate.mv \in Nat
  BY <1>1, Served DEF Rate, Holder, Change, Clocks
<1>3. Points' = Points /\ limit' = limit
  BY DEF Points, limit, opps
<1>4. /\ clk' \in {clk, rate.mhz} /\ volt' \in {volt, rate.mv} /\ cur' \in {cur, rate.mhz}
      /\ who # "monitor" /\ RateEnd(who) => cur' = rate.mhz
  BY <1>1 DEF RateEnd, RateEndFails
<1>5. \/ probe' = probe
      \/ probe' = "applied" /\ cur' = rate.mhz
  BY DEF ProbeRateEnd, RateEnd
<1>6. Clocks'
  <2>1. CASE probe' = probe
    BY <1>2, <1>3, <1>4, <2>1 DEF Clocks, Rate, HasPolicy
  <2>2. CASE probe' = "applied" /\ cur' = rate.mhz
    BY <1>2, <1>3, <1>4, <2>2 DEF Clocks, Rate, HasPolicy
  <2> QED
    BY <1>5, <2>1, <2>2
<1> QED
  BY <1>1, <1>6 DEF Change

\* Getting and giving back power: only runtime PM moves the clock, between its
\* suspended and its saved rate, and never while somebody holds devfreq_lock.
ClockOf == /\ clk' \in {clk, cur, SuspendMhz}
           /\ clk' # clk => rate = NoRate

\* So do all the ways to get and to give back power.
LEMMA PowerClock ==
  /\ Get => ClockOf
  /\ GetFails => ClockOf
  /\ GetIgnored => ClockOf
  /\ Put => ClockOf
  /\ PutDelay => ClockOf
  /\ PowerOn => ClockOf
  /\ PowerOff => ClockOf
<1> USE DEF ClockOf, PowerOn, PowerOff
<1>1. (Get => ClockOf) /\ (GetFails => ClockOf)
  BY DEF Get, GetFails
<1>2. Put => ClockOf
  BY DEF Put
<1>3. PutDelay => ClockOf
  BY <1>2 DEF PutDelay
<1> QED
  BY <1>1, <1>2, <1>3 DEF GetIgnored

\* Nothing but the clock and the request changes.
LEMMA KeepRate ==
  ASSUME Control, Rate, ClockOf, want' \in Nat, rate' = rate,
         UNCHANGED <<fuses, vendor, probe, volt, cur, cap, cold>>,
         clk' # clk => probe = "bound",
         want' # want => probe = "bound"
  PROVE  Clocks' /\ Change'
<1>1. Points' = Points /\ limit' = limit /\ Need(rate.mhz)' = Need(rate.mhz)
  BY DEF Points, limit, opps, Need
<1>2. Clocks'
  BY <1>1, DeviceAssumption DEF Clocks, Rate, HasPolicy, ClockOf
<1>3. Change'
  <2>1. CASE rate = NoRate
    BY <2>1 DEF Change
  <2>2. CASE rate # NoRate
    <3>1. clk' = clk
      BY <2>2 DEF ClockOf
    <3> QED
      BY <1>1, <3>1 DEF Change, Rate
  <2> QED
    BY <2>1, <2>2
<1> QED
  BY <1>2, <1>3

\* Clients and the delayed work.
LEMMA ClientRate ==
  ASSUME Control, Rate, NEW c \in Clients, Client(c)
  PROVE  Rate'
<1>1. /\ UNCHANGED <<fuses, vendor, probe, volt, cur, want, cap, cold, mon, rate, admin>>
      /\ probe = "bound"
  <2>1. client[c] # "idle" => probe = "bound"
    BY DEF Control, Phases
  <2> QED
    BY <2>1 DEF Client, Ioctl, IoctlEnd, Free, FreeEnd, Create, DumbCreate, Import, Awake,
                ClientUnchanged, boundVars, chipVars, policyVars, adminVars
<1>2. ClockOf
  <2>1. CASE Create(c) \/ DumbCreate(c) \/ Import(c)
    BY <2>1 DEF Create, DumbCreate, Import, ClockOf
  <2> QED
    BY <2>1, PowerClock DEF Client, Ioctl, IoctlEnd, Free, FreeEnd
<1>3. want' \in Nat
  BY <1>1 DEF Rate, Clocks
<1>4. Clocks' /\ Change'
  BY <1>1, <1>2, <1>3, KeepRate
<1>5. Holder'
  BY <1>1 DEF Rate, Holder
<1> QED
  BY <1>4, <1>5 DEF Rate

\* The delayed work, which gives back a vote.
LEMMA WorkRate ==
  ASSUME Control, Rate, PowerOffWork
  PROVE  Rate'
<1>1. /\ UNCHANGED <<fuses, vendor, probe, volt, cur, want, cap, cold, mon, rate, admin>>
      /\ probe = "bound" /\ ClockOf
  BY PowerClock DEF PowerOffWork, Control, Phases, boundVars, chipVars, policyVars
<1>2. want' \in Nat
  BY <1>1 DEF Rate, Clocks
<1>3. Clocks' /\ Change'
  BY <1>1, <1>2, KeepRate
<1>4. Holder'
  BY <1>1 DEF Rate, Holder
<1> QED
  BY <1>3, <1>4 DEF Rate

\* The debugfs files.
LEMMA AdminRate ==
  ASSUME Control, Rate, Admin
  PROVE  Rate'
<1> USE DEF AdminUnchanged, boundVars, chipVars, rateVars, powerVars
<1>1. UNCHANGED <<fuses, vendor, probe, cap, cold, mon>> /\ probe = "bound"
  <2>1. admin # "idle" => probe = "bound"
    BY DEF Control, Phases
  <2> QED
    BY <2>1 DEF Admin, Freq, FreqTarget, FreqTargetEnd, FreqEnd, PowerOnWrite, PowerOffWrite,
                PowerOffWriteEnd, DelayWrite, Awake
<1>2. HasPolicy /\ HasPolicy'
  BY <1>1 DEF HasPolicy
<1>3. CASE Freq \/ FreqEnd \/ PowerOnWrite \/ PowerOffWrite \/ PowerOffWriteEnd \/ DelayWrite
  <2>1. UNCHANGED <<volt, cur, rate>> /\ ClockOf
    <3>1. CASE PowerOffWrite \/ DelayWrite
      BY <3>1 DEF PowerOffWrite, DelayWrite, ClockOf
    <3> QED
      BY <1>3, <3>1, PowerClock DEF Freq, FreqEnd, PowerOnWrite, PowerOffWriteEnd
  <2>2. want' \in Nat
    <3>1. CASE Freq
      BY <3>1, DeviceAssumption DEF Freq, Rate, Clocks
    <3>2. CASE ~Freq
      BY <1>3, <3>2 DEF FreqEnd, PowerOnWrite, PowerOffWrite, PowerOffWriteEnd, DelayWrite,
                        Rate, Clocks
    <3> QED
      BY <3>1, <3>2
  <2>3. admin # "rate" /\ admin' # "rate"
    <3>1. CASE Freq
      BY <3>1 DEF Freq
    <3> QED
      BY <1>3, <3>1 DEF FreqEnd, PowerOnWrite, PowerOffWrite, PowerOffWriteEnd, DelayWrite, Awake,
                        Rate, Holder
  <2>4. Clocks' /\ Change'
    BY <1>1, <2>1, <2>2, KeepRate
  <2>5. Holder'
    BY <1>1, <2>1, <2>3 DEF Rate, Holder
  <2> QED
    BY <2>4, <2>5 DEF Rate
<1>4. CASE FreqTarget
  <2>1. CASE RateBeginFails /\ admin' = "show"
    <3>1. UNCHANGED <<rateVars, want>> /\ admin = "set"
      BY <1>4, <2>1 DEF FreqTarget, RateBeginFails
    <3>2. Clocks' /\ Change'
      BY <1>1, <3>1, KeepRate DEF ClockOf, Rate, Clocks
    <3>3. Holder'
      BY <1>1, <2>1, <3>1 DEF Rate, Holder
    <3> QED
      BY <3>2, <3>3 DEF Rate
  <2>2. CASE admin' = "rate" /\ RateBegin("admin", Target)
    <3>1. want' = want /\ Begins("admin")
      <4>1. HasPolicy /\ Target \in Points
        BY <1>1, <1>2, Served, TargetIsPoint DEF Rate, Clocks
      <4>2. Target \in Nat /\ \E p \in Points : p >= Target
        BY <1>2, <4>1, Served DEF Rate
      <4> QED
        BY <1>2, <1>4, <2>2, <4>2, Served, BeginFacts DEF Begins, Rate, FreqTarget
    <3>2. /\ Clocks' /\ Change' /\ rate'.who = "admin"
          /\ rate' \in [who : {"admin"}, mhz : Nat, mv : Nat, down : BOOLEAN, resumed : BOOLEAN]
      <4>1. UNCHANGED <<fuses, vendor, want, cap, cold>> /\ probe' = probe
        BY <1>1, <3>1
      <4> QED
        BY <1>2, <3>1, <4>1, BeginRate
    <3>3. Holder'
      BY <1>1, <2>2, <3>2 DEF Holder
    <3> QED
      BY <3>2, <3>3 DEF Rate
  <2> QED
    BY <1>4, <2>1, <2>2 DEF FreqTarget
<1>5. CASE FreqTargetEnd
  <2>1. /\ RateEnd("admin") \/ RateEndFails("admin")
        /\ want' = want /\ admin' = "show"
    BY <1>5 DEF FreqTargetEnd
  <2>2. UNCHANGED <<fuses, vendor, want, cap>> /\ probe' = probe
    BY <1>1, <2>1
  <2>3. Clocks' /\ Change' /\ rate' = NoRate
    BY <1>2, <2>1, <2>2, EndRate
  <2>4. Holder'
    BY <1>1, <2>1, <2>3 DEF Holder, NoRate
  <2> QED
    BY <2>3, <2>4 DEF Rate
<1> QED
  BY <1>3, <1>4, <1>5 DEF Admin

\* The monitor: the table changes only while nobody holds devfreq_lock, and the
\* limit is that of the table.
LEMMA MonitorRate ==
  ASSUME Control, Rate, Monitor
  PROVE  Rate'
<1> USE DEF MonitorUnchanged, boundVars, chipVars, adminVars, rateVars
<1>1. UNCHANGED <<fuses, vendor, probe, want, admin>> /\ probe \in {"set", "bound"}
  <2>1. mon # "off" => probe \in {"set", "bound"}
    BY DEF Control, Phases
  <2> QED
    BY <2>1 DEF Monitor, MonitorSample, MonitorQos, MonitorTarget, MonitorTargetEnd, MonitorApply,
                MonitorApplyEnd
<1>2. HasPolicy /\ HasPolicy'
  BY <1>1 DEF HasPolicy
<1>3. Points' = Points /\ limit' = limit
  BY <1>1 DEF Points, limit, opps
<1>4. CASE MonitorSample
  <2>1. UNCHANGED <<clk, volt, cur, rate, cap>> /\ rate = NoRate
    BY <1>4 DEF MonitorSample
  <2>2. Clocks'
    BY <1>1, <1>2, <1>3, <2>1 DEF Clocks, Rate, HasPolicy
  <2>3. Change' /\ Holder'
    BY <1>1, <2>1 DEF Change, Rate, Holder, NoRate
  <2> QED
    BY <2>2, <2>3 DEF Rate
<1>5. CASE MonitorQos
  <2>1. /\ UNCHANGED <<clk, volt, cur, rate, cold>> /\ cap' \in {0, limit}
        /\ mon = "qos"
    BY <1>5 DEF MonitorQos
  <2>2. limit \in Nat
    BY <1>2, Served, UsableTable DEF Rate, limit
  <2>3. Clocks'
    BY <1>1, <1>2, <1>3, <2>1, <2>2 DEF Clocks, Rate, HasPolicy
  <2>4. Need(rate.mhz)' = Need(rate.mhz)
    BY <1>1, <2>1 DEF Need, opps
  <2>5. Change'
    BY <1>3, <2>1, <2>4 DEF Change, Rate
  <2>6. Holder'
    BY <1>1, <2>1 DEF Rate, Holder
  <2> QED
    BY <2>3, <2>5, <2>6 DEF Rate
<1>6. CASE MonitorTarget \/ MonitorApply
  <2>1. UNCHANGED <<cap, cold>> /\ mon \in {"target", "apply"}
    BY <1>6 DEF MonitorTarget, MonitorApply
  <2>2. CASE RateBeginFails
    <3>1. UNCHANGED <<clk, volt, cur, rate>> /\ rate = NoRate
      BY <2>2 DEF RateBeginFails
    <3>2. Clocks' /\ Change'
      BY <1>1, <2>1, <3>1, KeepRate DEF ClockOf, Rate, Clocks
    <3>3. Holder'
      BY <1>1, <3>1 DEF Rate, Holder, NoRate
    <3> QED
      BY <3>2, <3>3 DEF Rate
  <2>3. CASE ~RateBeginFails
    <3>1. PICK who \in {"qos", "monitor"} :
            Begins(who) /\ mon = (IF who = "qos" THEN "target" ELSE "apply") /\ mon' = mon
      <4>1. MonitorTarget => Begins("qos") /\ mon = "target" /\ mon' = mon
        BY <2>3, RateBegins DEF Rate, MonitorTarget
      <4>2. MonitorApply => Begins("monitor") /\ mon = "apply" /\ mon' = mon
        BY <2>3, RateBegins DEF Rate, MonitorApply
      <4> QED
        BY <1>6, <4>1, <4>2
    <3>2. /\ Clocks' /\ Change' /\ rate'.who = who
          /\ rate' \in [who : {who}, mhz : Nat, mv : Nat, down : BOOLEAN, resumed : BOOLEAN]
      BY <1>1, <1>2, <2>1, <3>1, BeginRate
    <3>3. admin # "rate" /\ probe # "rate"
      BY <1>1, <3>1 DEF Begins, Rate, Holder, NoRate
    <3>4. Holder'
      BY <1>1, <3>1, <3>2, <3>3 DEF Holder
    <3> QED
      BY <3>2, <3>4 DEF Rate
  <2> QED
    BY <2>2, <2>3
<1>7. CASE MonitorTargetEnd \/ MonitorApplyEnd
  <2>1. /\ UNCHANGED <<cap, cold>>
        /\ \E who \in {"qos", "monitor"} : RateEnd(who) \/ RateEndFails(who)
    BY <1>7 DEF MonitorTargetEnd, MonitorApplyEnd
  <2>2. /\ Clocks' /\ Change' /\ rate' = NoRate
        /\ rate.who \in {"qos", "monitor"}
    <3>1. PICK who \in {"qos", "monitor"} : RateEnd(who) \/ RateEndFails(who)
      BY <2>1
    <3>2. rate.who = who
      BY <3>1 DEF RateEnd, RateEndFails
    <3> QED
      BY <1>1, <1>2, <2>1, <3>1, <3>2, EndRate
  <2>3. Holder'
    BY <1>1, <2>2 DEF Rate, Holder, NoRate
  <2> QED
    BY <2>2, <2>3 DEF Rate
<1> QED
  BY <1>4, <1>5, <1>6, <1>7 DEF Monitor

\* System sleep, which does not take devfreq_lock: a suspend goes below every point,
\* and a resume marks the change that it has run into.
LEMMA SleepRate ==
  ASSUME Control, Rate, SystemSleep
  PROVE  Rate'
<1> USE DEF SleepUnchanged, boundVars, chipVars, adminVars, policyVars
<1>1. /\ UNCHANGED <<fuses, vendor, probe, volt, cur, want, cap, cold, mon, admin>>
      /\ probe = "bound"
  <2>1. sleep # "no" => probe = "bound"
    BY DEF Control, Phases
  <2> QED
    BY <2>1 DEF SystemSleep, Suspend, ForceSuspend, Resume, ForceResume, Quiet
<1>2. HasPolicy /\ HasPolicy'
  BY <1>1 DEF HasPolicy
<1>3. Points' = Points /\ limit' = limit
  BY <1>1 DEF Points, limit, opps
<1>4. ASSUME rate' = rate, ClockOf PROVE Rate'
  <2>1. Clocks' /\ Change'
    BY <1>1, <1>4, KeepRate DEF Rate, Clocks
  <2>2. Holder'
    BY <1>1, <1>4 DEF Rate, Holder
  <2> QED
    BY <2>1, <2>2 DEF Rate
<1>5. CASE Suspend \/ Resume
  <2>1. rate' = rate
    BY <1>5 DEF Suspend, Resume
  <2>2. ClockOf
    BY <1>5, PowerClock DEF Suspend, Resume
  <2> QED
    BY <1>4, <2>1, <2>2
<1>6. CASE ForceSuspend
  <2>1. CASE Put /\ rate' = rate
    BY <1>4, <2>1, PowerClock
  <2>2. CASE clk' = SuspendMhz /\ rate' = rate
    <3>1. Clocks'
      BY <1>1, <1>2, <1>3, <2>2, DeviceAssumption DEF Clocks, Rate, HasPolicy
    <3>2. rate # NoRate => SuspendMhz <= rate.mhz
      BY <1>2, Served DEF Rate, Change
    <3>3. Change'
      <4>1. Need(rate.mhz)' = Need(rate.mhz)
        BY <1>1, <2>2 DEF Need, opps
      <4>2. rate # NoRate => SuspendMhz <= clk' /\ clk' <= rate.mhz
        BY <2>2, <3>2, DeviceAssumption
      <4> QED
        BY <1>1, <1>3, <2>2, <4>1, <4>2 DEF Change, Rate
    <3>4. Holder'
      BY <1>1, <2>2 DEF Rate, Holder
    <3> QED
      BY <3>1, <3>3, <3>4 DEF Rate
  <2> QED
    BY <1>6, <2>1, <2>2 DEF ForceSuspend
<1>7. CASE ForceResume
  <2>1. clk' \in {cur, SuspendMhz} /\ cur \in Points
    BY <1>1, <1>2, <1>7 DEF ForceResume, Rate, Clocks
  <2>2. Clocks'
    BY <1>1, <1>2, <1>3, <2>1, DeviceAssumption DEF Clocks, Rate, HasPolicy
  <2>3. CASE rate = NoRate
    <3>1. rate' = rate
      BY <1>7, <2>3 DEF ForceResume
    <3> QED
      BY <1>1, <2>2, <2>3, <3>1 DEF Rate, Holder, Change
  <2>4. CASE rate # NoRate
    <3>1. rate' = [rate EXCEPT !.resumed = TRUE]
      BY <1>7, <2>4 DEF ForceResume
    <3>2. rate \in [who : {"probe", "qos", "monitor", "admin"}, mhz : Nat, mv : Nat,
                    down : BOOLEAN, resumed : BOOLEAN]
      BY <2>4 DEF Rate, Holder
    <3>3. /\ rate' \in [who : {"probe", "qos", "monitor", "admin"}, mhz : Nat, mv : Nat,
                        down : BOOLEAN, resumed : BOOLEAN]
          /\ rate'.who = rate.who /\ rate'.mhz = rate.mhz /\ rate'.mv = rate.mv
          /\ rate'.down = rate.down /\ rate'.resumed
      BY <3>1, <3>2
    <3>4. rate.who # "probe"
      BY <1>1 DEF Rate, Holder
    <3>5. Need(rate.mhz)' = Need(rate.mhz)
      BY <1>1, <3>3 DEF Need, opps
    <3>6. Change'
      BY <1>1, <1>3, <2>4, <3>3, <3>4, <3>5 DEF Change, Rate
    <3>7. Holder'
      BY <1>1, <3>3 DEF Rate, Holder
    <3> QED
      BY <2>2, <3>6, <3>7 DEF Rate
  <2> QED
    BY <2>3, <2>4
<1> QED
  BY <1>5, <1>6, <1>7 DEF SystemSleep

\* devfreq_lock is free unless a rate change of the probe, or somebody who uses the
\* device, holds it.
LEMMA NobodyHolds ==
  ASSUME Control, Holder, probe \notin {"rate", "set", "bound"}
  PROVE  rate = NoRate
  BY DEF Control, Phases, Holder

\* A probe that fails, and a removal, leave rates of which nothing more is said.
LEMMA DeadRate ==
  ASSUME probe' \in {"failed", "removed"}, rate' = NoRate, admin' # "rate",
         clk' \in Nat, volt' \in Nat, cur' \in Nat, want' \in Nat, cap' \in Nat
  PROVE  Rate'
  BY DEF Rate, Holder, Clocks, Change, HasPolicy, NoRate

\* A probe until it has its table: the clock stays at the rate of the boot loader.
LEMMA EarlyRate ==
  ASSUME Control, Rate, ProbeNames \/ ProbePower \/ ProbeRefuses
  PROVE  Rate'
<1> USE DeviceAssumption DEF ProbeUnchanged, ProbeFailsAt, policyVars
<1>1. /\ probe \in {"none", "named", "on"} /\ admin' = admin /\ admin = "idle" /\ rate' = rate
      /\ UNCHANGED <<cur, want, cap>>
  BY DEF ProbeNames, ProbePower, ProbeRefuses, Control, Phases
<1>2. rate = NoRate
  BY <1>1, NobodyHolds DEF Rate
<1>3. /\ clk \in Nat /\ volt \in Nat /\ cur = 0 /\ want \in Nat /\ cap \in Nat /\ clk = BootMhz
  BY <1>1 DEF Rate, Clocks
<1>4. clk' \in Nat /\ (probe' \in {"named", "on"} => clk' = clk)
  BY <1>3 DEF ProbeNames, ProbePower, ProbeRefuses, PowerOn, PowerOff
<1>5. volt' \in Nat
  BY <1>3 DEF ProbeNames, ProbePower, ProbeRefuses
<1>6. CASE probe' = "failed"
  BY <1>1, <1>2, <1>3, <1>4, <1>5, <1>6, DeadRate
<1>7. CASE probe' \in {"named", "on"}
  <2>1. Clocks'
    BY <1>1, <1>3, <1>4, <1>5, <1>7 DEF Clocks, HasPolicy
  <2>2. Holder' /\ Change'
    BY <1>1, <1>2, <1>7 DEF Holder, Change, NoRate
  <2> QED
    BY <2>1, <2>2 DEF Rate
<1> QED
  BY <1>6, <1>7 DEF ProbeNames, ProbePower, ProbeRefuses

\* k11c_vendor_prepare has a point for the initial rate.
LEMMA TableRate ==
  ASSUME Control, Rate, ProbeTable
  PROVE  Rate'
<1> USE DEF ProbeUnchanged, rateVars
<1>1. /\ probe = "on" /\ probe' = "table" /\ ~Refused(fuses) /\ vendor' = Prepared(fuses)
      /\ want' = opps'[Floor(opps', InitialMhz)].mhz
      /\ UNCHANGED <<fuses, admin, clk, volt, cur, rate, cap, mon>>
  BY DEF ProbeTable
<1>2. /\ cap = 0 /\ admin = "idle" /\ fuses \in Followed
  BY <1>1 DEF Control, Phases
<1>3. rate = NoRate
  BY <1>1, NobodyHolds DEF Rate
<1>4. Usable(Prepared(fuses))
  BY <1>1, <1>2, UsableChip, DeviceAssumption
<1> DEFINE t == Prepared(fuses).opps
<1>5. opps' = t
  BY <1>1 DEF opps
<1>6. Table(t) /\ Floor(t, InitialMhz) \in DOMAIN t
  <2>1. Table(t) /\ \E i \in DOMAIN t : t[i].mhz <= InitialMhz
    BY <1>4, UsableTable DEF Usable
  <2> HIDE DEF t
  <2> QED
    BY <2>1, FloorFound, DeviceAssumption
<1>7. want' \in Nat /\ want' \in Points'
  <2>1. want' = t[Floor(t, InitialMhz)].mhz
    BY <1>1, <1>5
  <2> HIDE DEF t
  <2> QED
    BY <1>5, <1>6, <2>1, TableFacts DEF Points
<1>8. Clocks'
  BY <1>1, <1>2, <1>7 DEF Clocks, Rate, HasPolicy
<1>9. Holder' /\ Change'
  BY <1>1, <1>2, <1>3 DEF Holder, Change, Rate, NoRate
<1> QED
  BY <1>8, <1>9 DEF Rate

\* The first rate change, and what follows it.
LEMMA LateRate ==
  ASSUME Control, Rate, ProbeRate \/ ProbeRateEnd \/ ProbeDevfreq \/ ProbeBinds
  PROVE  Rate'
<1> USE DEF ProbeUnchanged, policyVars, rateVars
<1>1. /\ UNCHANGED <<fuses, vendor, admin, cold, want>> /\ admin = "idle"
      /\ probe \in {"table", "rate", "applied", "set"}
  BY DEF ProbeRate, ProbeRateEnd, ProbeDevfreq, ProbeBinds, Control, Phases
<1>2. HasPolicy /\ HasPolicy'
  BY <1>1 DEF HasPolicy, ProbeRate, ProbeRateEnd, ProbeDevfreq, ProbeBinds
<1>3. Points' = Points /\ limit' = limit
  BY <1>1 DEF Points, limit, opps
<1>4. CASE ProbeRate
  <2>1. Begins("probe") /\ cap' = cap /\ probe' = "rate"
    BY <1>4, RateBegins DEF Rate, ProbeRate
  <2>2. /\ Clocks' /\ Change' /\ rate'.who = "probe"
        /\ rate' \in [who : {"probe"}, mhz : Nat, mv : Nat, down : BOOLEAN, resumed : BOOLEAN]
    BY <1>1, <1>2, <1>4, <2>1, BeginRate
  <2>3. Holder'
    BY <1>1, <2>1, <2>2 DEF Holder
  <2> QED
    BY <2>2, <2>3 DEF Rate
<1>5. CASE ProbeRateEnd
  <2>1. RateEnd("probe") /\ cap' = cap /\ probe' = "applied"
    BY <1>5 DEF ProbeRateEnd
  <2>2. Clocks' /\ Change' /\ rate' = NoRate
    BY <1>1, <1>2, <1>5, <2>1, EndRate
  <2>3. Holder'
    BY <1>1, <2>1, <2>2 DEF Holder, NoRate
  <2> QED
    BY <2>2, <2>3 DEF Rate
<1>6. CASE ProbeDevfreq
  <2>1. /\ probe = "applied" /\ probe' = "set" /\ UNCHANGED <<clk, volt, cur, rate>>
        /\ cap' \in {0, limit}
    BY <1>6 DEF ProbeDevfreq
  <2>2. rate = NoRate
    BY <2>1, NobodyHolds DEF Rate
  <2>3. limit \in Nat
    BY <1>2, Served, UsableTable DEF Rate, limit
  <2>4. Clocks'
    BY <1>1, <1>2, <1>3, <2>1, <2>3 DEF Clocks, Rate, HasPolicy
  <2>5. Holder' /\ Change'
    BY <1>1, <2>1, <2>2 DEF Holder, Change, NoRate
  <2> QED
    BY <2>4, <2>5 DEF Rate
<1>7. CASE ProbeBinds
  <2>1. /\ probe = "set" /\ probe' = "bound" /\ rate = NoRate
        /\ UNCHANGED <<volt, cur, rate, cap, mon>> /\ clk' \in {clk, SuspendMhz}
    BY <1>7 DEF ProbeBinds, PowerOff
  <2>2. Clocks'
    BY <1>1, <1>2, <1>3, <2>1, DeviceAssumption DEF Clocks, Rate, HasPolicy
  <2>3. Holder' /\ Change'
    BY <1>1, <2>1 DEF Holder, Change, NoRate
  <2> QED
    BY <2>2, <2>3 DEF Rate
<1> QED
  BY <1>4, <1>5, <1>6, <1>7

\* The ways out.
LEMMA LastRate ==
  ASSUME Control, Rate, ProbeFails \/ ProbeRateFails \/ Removal
  PROVE  Rate'
<1> USE DeviceAssumption DEF ProbeUnchanged, ProbeFailsAt, policyVars, chipVars, adminVars
<1>1. /\ clk \in Nat /\ volt \in Nat /\ cur \in Nat /\ want \in Nat /\ cap \in Nat
  BY DEF Rate, Clocks
<1>2. CASE ProbeFails
  <2>1. probe' = "failed" /\ UNCHANGED <<admin, volt, cur, rate, want>> /\ cap' = 0
    BY <1>2 DEF ProbeFails
  <2>2. probe \in {"table", "applied", "set"} /\ rate = NoRate /\ clk' \in {clk, SuspendMhz}
    BY <1>2 DEF ProbeFails, PowerOff
  <2>3. admin = "idle"
    BY <2>2 DEF Control, Phases
  <2> QED
    BY <1>1, <2>1, <2>2, <2>3, DeadRate
<1>3. CASE ProbeRateFails
  <2>1. /\ probe = "rate" /\ probe' = "failed" /\ UNCHANGED <<admin, volt, cur, want, cap>>
        /\ rate' = NoRate /\ clk' = SuspendMhz
    BY <1>3 DEF ProbeRateFails
  <2>2. admin = "idle"
    BY <2>1 DEF Control, Phases
  <2> QED
    BY <1>1, <2>1, <2>2, DeadRate
<1>4. CASE Removal
  <2>1. /\ probe' = "removed" /\ UNCHANGED <<admin, volt, cur, rate, want>> /\ cap' = 0
        /\ admin = "idle"
    BY <1>4 DEF Removal, Quiet
  <2>2. rate = NoRate /\ clk' \in {clk, SuspendMhz}
    BY <1>4 DEF Removal, PowerOff
  <2> QED
    BY <1>1, <2>1, <2>2, DeadRate
<1> QED
  BY <1>2, <1>3, <1>4

\* Every step keeps what is known of rates.
LEMMA RateStep == Control /\ Rate /\ Next => Rate'
  BY NextSplits, EarlyRate, TableRate, LateRate, LastRate, ClientRate, WorkRate, AdminRate,
     MonitorRate, SleepRate DEF Probe

-----------------------------------------------------------------------------
(* The invariant of the specification. *)

\* It holds where the module is loaded.
LEMMA IInvInit == Init => IInv
<1> SUFFICES ASSUME Init PROVE IInv
  OBVIOUS
<1> USE DeviceAssumption DEF Init
<1>1. Control
  <2>1. client \in [Clients -> {"idle", "ioctl", "destroy", "close"}]
    OBVIOUS
  <2>2. Phases
    BY DEF Phases
  <2>3. pending \in BOOLEAN /\ delay \in BOOLEAN /\ cold \in BOOLEAN /\ strayed \in BOOLEAN
    OBVIOUS
  <2>4. cmd \in 0..MaxCmd /\ faults \in 0..MaxFaults
    OBVIOUS
  <2> QED
    BY <2>1, <2>2, <2>3, <2>4 DEF Control, Pcs
<1>2. Parts
  BY DEF Parts, Acquired, Buffers
<1>3. Power /\ Holder /\ Clocks /\ Change
  BY DEF Power, Holder, Clocks, Change, HasPolicy, NoRate
<1> QED
  BY <1>1, <1>2, <1>3 DEF IInv

\* Every step keeps what is acquired.
LEMMA PartsStep == Parts /\ Next => Parts'
  BY NextSplits, ProbeParts, ClientParts, OtherParts

\* Every step keeps it.
LEMMA IInvNext == IInv /\ [Next]_vars => IInv'
<1> SUFFICES ASSUME IInv, [Next]_vars PROVE IInv'
  OBVIOUS
<1>1. CASE Next
  BY <1>1, ControlStep, PartsStep, PowerStep, RateStep DEF IInv, Rate
<1>2. CASE UNCHANGED vars
  <2> USE <1>2 DEF vars
  <2>1. Control'
    BY DEF IInv, Control, Phases
  <2>2. Parts'
    BY DEF IInv, Parts, Acquired, Buffers
  <2>3. Power'
    BY DEF IInv, Power, Balance, Count, Busy, Destroying
  <2>4. Holder'
    BY DEF IInv, Holder
  <2>5. Clocks'
    BY DEF IInv, Clocks, HasPolicy, Points, opps, limit
  <2>6. Change'
    BY DEF IInv, Change, Need, Points, opps
  <2> QED
    BY <2>1, <2>2, <2>3, <2>4, <2>5, <2>6 DEF IInv
<1> QED
  BY <1>1, <1>2

\* What holds in every reachable state of the device.
THEOREM Invariant == Spec => []IInv
  BY IInvInit, IInvNext, PTL DEF Spec

\* Every variable keeps its type, and only the one named by rate.who, at the place
\* where it changes a rate, holds devfreq_lock (rknpu_drv.c, rknpu_devfreq.c).
THEOREM TypeCorrect == Spec => []TypeOK
<1>1. ASSUME IInv PROVE TypeOK
  <2>1. parts \subseteq Probed
    <3>1. Bare \subseteq Probed
      BY Stages, ProbedNames
    <3>2. {"pool"} \subseteq Probed
      BY ProbedNames
    <3>3. probe \in Pcs /\ Acquired
      BY <1>1 DEF IInv, Control, Parts
    <3> QED
      BY <3>1, <3>2, <3>3 DEF Acquired, Pcs
  <2>2. Control /\ Power /\ Holder /\ Clocks /\ Buffers
    BY <1>1 DEF IInv, Parts
  <2> QED
    BY <2>1, <2>2 DEF TypeOK, Control, Power, Holder, Clocks, Buffers
<1> QED
  BY <1>1, Invariant, PTL

\* power_refcount counts exactly its holders and has the device on, also after a
\* failure in any step of the probe, a creation or an import; a probe that fails and
\* a removal leave nothing running.
THEOREM ReferencesAreBalanced == Spec => []ReferencesBalanced
<1>1. ASSUME IInv PROVE ReferencesBalanced
  <2> USE <1>1 DEF IInv
  <2>1. probe = "bound" /\ ~strayed => Held /\ on = Bit(refs > 0)
    BY DEF Power, Balance, Held, Count
  <2>2. ASSUME probe \in {"failed", "removed"}
        PROVE  (~strayed => on = 0) /\ ~pending /\ mon = "off" /\ cap = 0 /\ rate = NoRate
    BY <2>2, NobodyHolds DEF Power, Control, Phases
  <2>3. /\ probe = "bound" => parts \in {Probed, Probed \ {"fake"}}
        /\ probe = "failed" => parts = {}
        /\ probe = "removed" => parts \subseteq {"pool"}
        /\ \A c \in Clients : mem[c] \in {{}, IF c \in Importers THEN Imported ELSE Created}
    BY DEF Parts, Acquired, Buffers
  <2> QED
    BY <2>1, <2>2, <2>3 DEF ReferencesBalanced
<1> QED
  BY <1>1, Invariant, PTL

-----------------------------------------------------------------------------
(* Voltage before frequency. *)

\* In a rising table a lower rate never needs more voltage.
LEMMA NeedRises ==
  ASSUME RisingTables, Control, Clocks, HasPolicy, NEW m \in Nat, NEW q \in Points, m <= q
  PROVE  Need(m) \in Nat /\ Need(q) \in Nat /\ Need(m) <= Need(q)
<1>1. Usable(vendor) /\ q \in Nat
  BY Served
<1>2. /\ Ceil(opps, m) \in DOMAIN opps /\ Need(m) \in Nat
      /\ Ceil(opps, q) \in DOMAIN opps /\ Need(q) \in Nat
      /\ opps[Ceil(opps, q)].mhz >= q
  BY <1>1, NeedOf
<1>3. /\ Table(opps) /\ DOMAIN opps = 1 .. Len(opps)
      /\ opps[Ceil(opps, q)].mhz \in Nat
  BY <1>1, <1>2, UsableTable, TableFacts DEF opps
<1>4. opps[Ceil(opps, q)].mhz >= m
  BY <1>1, <1>2, <1>3
<1>5. Ceil(opps, m) <= Ceil(opps, q)
  BY <1>2, <1>3, <1>4, CeilFirst
<1>6. \A i, j \in DOMAIN opps : i <= j => opps[i].mv <= opps[j].mv /\ opps[i].cold <= opps[j].cold
  <2>1. fuses \in Followed /\ ~Refused(fuses) /\ opps = Prepared(fuses).opps
    BY DEF Control, Clocks, HasPolicy, opps
  <2> QED
    BY <2>1 DEF RisingTables
<1>7. Need(m) <= Need(q)
  BY <1>2, <1>5, <1>6 DEF Need, Voltage
<1> QED
  BY <1>2, <1>7

\* The steps that move the regulator or end a rate change.
LEMMA VoltageMoves ==
  ASSUME IInv, Next
  PROVE  \/ volt' = volt /\ (rate # NoRate => rate' # NoRate)
         \/ probe = "none" /\ rate = NoRate
         \/ HasPolicy /\ \E who : Begins(who)
         \/ HasPolicy /\ rate # NoRate /\ \E who : RateEnd(who) \/ RateEndFails(who)
         \/ ProbeRateFails
<1> USE DEF rateVars, IInv
<1>1. CASE ProbeNames
  BY <1>1, NobodyHolds DEF ProbeNames
<1>2. CASE ProbePower \/ ProbeRefuses \/ ProbeTable \/ ProbeDevfreq \/ ProbeBinds \/ ProbeFails
           \/ Removal
  BY <1>2 DEF ProbePower, ProbeRefuses, ProbeTable, ProbeDevfreq, ProbeBinds, ProbeFails, Removal
<1>3. CASE ProbeRate \/ FreqTarget \/ MonitorTarget \/ MonitorApply
  <2>1. HasPolicy
    <3>1. probe \in {"table", "set", "bound"}
      BY <1>3 DEF ProbeRate, FreqTarget, MonitorTarget, MonitorApply, Control, Phases
    <3> QED
      BY <3>1 DEF HasPolicy
  <2>2. CASE RateBeginFails
    BY <2>2 DEF RateBeginFails
  <2>3. CASE ~RateBeginFails
    BY <1>3, <2>1, <2>3, RateBegins
  <2> QED
    BY <2>2, <2>3
<1>4. CASE ProbeRateEnd \/ FreqTargetEnd \/ MonitorTargetEnd \/ MonitorApplyEnd
  <2>1. \E who : RateEnd(who) \/ RateEndFails(who)
    BY <1>4 DEF ProbeRateEnd, FreqTargetEnd, MonitorTargetEnd, MonitorApplyEnd
  <2>2. probe \in {"rate", "set", "bound"}
    BY <1>4 DEF ProbeRateEnd, FreqTargetEnd, MonitorTargetEnd, MonitorApplyEnd, Control, Phases
  <2>3. rate # NoRate
    BY <1>4 DEF ProbeRateEnd, FreqTargetEnd, MonitorTargetEnd, MonitorApplyEnd, RateEnd,
                RateEndFails, NoRate
  <2> QED
    BY <2>1, <2>2, <2>3 DEF HasPolicy
<1>5. CASE Freq \/ FreqEnd \/ PowerOnWrite \/ PowerOffWrite \/ PowerOffWriteEnd \/ DelayWrite
  BY <1>5 DEF Freq, FreqEnd, PowerOnWrite, PowerOffWrite, PowerOffWriteEnd, DelayWrite
<1>6. CASE MonitorSample \/ MonitorQos \/ PowerOffWork \/ Suspend \/ ForceSuspend \/ Resume
  BY <1>6 DEF MonitorSample, MonitorQos, PowerOffWork, Suspend, ForceSuspend, Resume,
              SleepUnchanged
<1>7. CASE ForceResume
  <2>1. volt' = volt /\ rate' = IF rate = NoRate THEN rate ELSE [rate EXCEPT !.resumed = TRUE]
    BY <1>7 DEF ForceResume, SleepUnchanged
  <2>2. rate # NoRate => rate'.who = rate.who /\ rate.who # "none"
    BY <2>1 DEF Holder
  <2> QED
    BY <2>1, <2>2 DEF NoRate
<1>8. ASSUME NEW c \in Clients, Client(c) PROVE volt' = volt /\ rate' = rate
  BY <1>8 DEF Client, Ioctl, IoctlEnd, Free, FreeEnd, Create, DumbCreate, Import, ClientUnchanged
<1> QED
  BY <1>1, <1>2, <1>3, <1>4, <1>5, <1>6, <1>7, <1>8, NextSplits
  DEF Probe, Admin, Monitor, SystemSleep

\* What VoltageFirst says of one step.
Raises == rate # NoRate /\ rate' = NoRate /\ clk' > clk => volt >= Need(clk')
Lowers == volt' < volt /\ ~(rate # NoRate /\ rate.resumed) => volt' >= Need(clk)

\* The first step of a change: it lowers the voltage only to what a point above the
\* clock needs.
LEMMA BeginsSafely ==
  ASSUME RisingTables, IInv, HasPolicy, NEW who, Begins(who)
  PROVE  Raises /\ Lowers
<1>1. PICK p \in Points :
        /\ rate = NoRate
        /\ p < clk => clk' = p /\ volt' = volt
        /\ ~(p < clk) => clk' = clk /\ volt' = Need(p)
  BY DEF Begins
<1>2. p \in Nat /\ clk \in Nat /\ volt \in Nat
  BY Served DEF IInv, Clocks
<1>3. CASE p < clk
  BY <1>1, <1>2, <1>3 DEF Raises, Lowers
<1>4. CASE ~(p < clk)
  <2>1. Need(clk) \in Nat /\ Need(p) \in Nat /\ Need(clk) <= Need(p)
    BY <1>2, <1>4, NeedRises DEF IInv
  <2> QED
    BY <1>1, <1>2, <1>4, <2>1 DEF Raises, Lowers
<1> QED
  BY <1>3, <1>4

\* The second step: the clock goes up to the point whose voltage is there, or the
\* voltage goes down to that of a point that the clock does not exceed.
LEMMA EndsSafely ==
  ASSUME RisingTables, IInv, HasPolicy, NEW who, RateEnd(who) \/ RateEndFails(who), rate # NoRate
  PROVE  Raises /\ Lowers
<1>1. /\ rate.mhz \in Points /\ rate.mv = Need(rate.mhz) /\ rate.mv \in Nat
      /\ ~rate.down => volt = rate.mv
      /\ rate.down /\ ~rate.resumed => clk <= rate.mhz
  BY DEF IInv, Change, Holder
<1>2. clk \in Nat /\ volt \in Nat /\ rate.mhz \in Nat
  BY <1>1, Served DEF IInv, Clocks
<1>3. CASE RateEnd(who) /\ rate.down
  <2>1. clk' = clk /\ volt' = rate.mv
    BY <1>3 DEF RateEnd
  <2>2. ~rate.resumed => Need(clk) <= Need(rate.mhz)
    BY <1>1, <1>2, <1>3, NeedRises DEF IInv
  <2>3. Raises
    BY <1>2, <2>1 DEF Raises
  <2>4. ~rate.resumed => Need(clk) \in Nat
    BY <1>1, <1>2, <1>3, NeedRises DEF IInv
  <2>5. Lowers
    BY <1>1, <2>1, <2>2, <2>4 DEF Lowers
  <2> QED
    BY <2>3, <2>5
<1>4. CASE RateEnd(who) /\ ~rate.down
  <2>1. clk' = rate.mhz /\ volt' = volt
    BY <1>4 DEF RateEnd
  <2>2. volt = Need(clk')
    BY <1>1, <1>4, <2>1
  <2> QED
    BY <1>2, <2>1, <2>2 DEF Raises, Lowers
<1>5. CASE RateEndFails(who)
  BY <1>2, <1>5 DEF RateEndFails, Raises, Lowers
<1> QED
  BY <1>3, <1>4, <1>5

\* The probe's change fails between its steps: the power-off sets the suspended rate,
\* which no point is below.
LEMMA FailsSafely ==
  ASSUME RisingTables, IInv, ProbeRateFails
  PROVE  Raises /\ Lowers
<1>1. /\ probe = "rate" /\ clk' = SuspendMhz /\ volt' = volt /\ rate.who = "probe"
  BY DEF ProbeRateFails, IInv, Holder
<1>2. HasPolicy /\ rate # NoRate
  BY <1>1 DEF HasPolicy, NoRate
<1>3. /\ rate.mhz \in Points /\ rate.mv = Need(rate.mhz)
      /\ ~rate.down => volt = rate.mv
      /\ rate.down => SuspendMhz <= clk
      /\ rate.down \in BOOLEAN
  BY <1>1, <1>2 DEF IInv, Change, Holder
<1>4. SuspendMhz \in Nat /\ SuspendMhz <= rate.mhz /\ clk \in Nat /\ volt \in Nat /\ rate.mhz \in Nat
  BY <1>2, <1>3, Served, DeviceAssumption DEF IInv, Clocks
<1>5. Need(SuspendMhz) \in Nat /\ Need(rate.mhz) \in Nat /\ Need(SuspendMhz) <= Need(rate.mhz)
  BY <1>2, <1>3, <1>4, NeedRises DEF IInv
<1>6. Raises
  BY <1>1, <1>3, <1>4, <1>5 DEF Raises
<1>7. Lowers
  BY <1>1, <1>4 DEF Lowers
<1> QED
  BY <1>6, <1>7

\* Whatever gets and gives back power, samples the temperature or sleeps between the
\* two steps of a rate change, the clock goes up only after the voltage it needs, and
\* no voltage is lowered below that, unless the resume of the system has run into the
\* change.  Where a fuse correction gives a point a higher voltage than the points
\* above it, this is not so: the first step of a rise lowers the voltage.
THEOREM VoltagesFirst == RisingTables => (Spec => VoltageFirst)
<1> SUFFICES ASSUME RisingTables PROVE Spec => VoltageFirst
  OBVIOUS
<1>1. ASSUME IInv, Next PROVE Raises /\ Lowers
  <2>0. volt \in Nat
    BY <1>1 DEF IInv, Clocks
  <2>1. CASE volt' = volt /\ (rate # NoRate => rate' # NoRate)
    BY <2>0, <2>1 DEF Raises, Lowers
  <2>2. CASE probe = "none" /\ rate = NoRate
    <3>1. volt = 0 /\ volt' \in Nat
      BY <1>1, <2>2, IInvNext DEF IInv, Clocks
    <3> QED
      BY <2>2, <3>1 DEF Raises, Lowers
  <2>3. CASE HasPolicy /\ \E who : Begins(who)
    BY <1>1, <2>3, BeginsSafely
  <2>4. CASE HasPolicy /\ rate # NoRate /\ \E who : RateEnd(who) \/ RateEndFails(who)
    BY <1>1, <2>4, EndsSafely
  <2>5. CASE ProbeRateFails
    BY <1>1, <2>5, FailsSafely
  <2> QED
    BY <1>1, <2>1, <2>2, <2>3, <2>4, <2>5, VoltageMoves
<1>2. IInv /\ [Next]_vars => [Raises /\ Lowers]_vars
  BY <1>1
<1>3. [Raises /\ Lowers]_vars => [LET resumed == rate # NoRate /\ rate.resumed
     IN /\ rate # NoRate /\ rate' = NoRate /\ clk' > clk => volt >= Need(clk')
        /\ volt' < volt /\ ~resumed => volt' >= Need(clk)]_vars
  BY DEF Raises, Lowers
<1> QED
  BY <1>2, <1>3, Invariant, PTL DEF Spec, VoltageFirst

-----------------------------------------------------------------------------
(* The policy. *)

\* Whatever the device tree and whatever chip the driver is given: if it does not
\* refuse the chip, its operating points, their voltages in warm and in cold weather
\* and its limit are the BSP's, every request and every adjustment end at the BSP's
\* rate and voltage, and the driver is cold whenever the BSP is; a chip whose cells
\* can be read is driven with its own fuses or not at all (k11c_vendor_opp.c).
THEOREM PolicyAgrees == Spec => []PolicyIsBsp
<1>1. ASSUME IInv PROVE PolicyIsBsp
  <2>1. SUFFICES ASSUME probe = "none"
                 PROVE  /\ ~Refused(fuses) => TableIsBsp(fuses) /\ RatesAreBsp(fuses)
                        /\ fuses.readable => FusesExact(fuses)
                        /\ ColdBeforeBsp
    BY DEF PolicyIsBsp
  <2>2. fuses \in FuseSet
    BY <1>1, <2>1 DEF IInv, Control
  <2>3. fuses.readable => fuses \in Cells
    BY <2>2, ChipAssumption
  <2>4. ~Refused(fuses) => fuses.readable
    BY DEF Refused
  <2>5. ~Refused(fuses) => TableIsBsp(fuses) /\ RatesAreBsp(fuses)
    BY <2>3, <2>4, PolicyOfChip
  <2>6. fuses.readable => FusesExact(fuses)
    BY <2>3, FusesAreExact, DeviceTreeAssumption
  <2>7. ColdBeforeBsp
    BY ColdNeverMissed, DeviceTreeAssumption, ChipAssumption
  <2> QED
    BY <2>5, <2>6, <2>7
<1> QED
  BY <1>1, Invariant, PTL

=============================================================================
