----------------------------- MODULE NpuDevice -----------------------------
(***************************************************************************)
(* Power, voltage, frequency and memory of the NPU device: rknpu_drv.c,    *)
(* rknpu_devfreq.c, rknpu_debugger.c, rknpu_gem.c and k11c_vendor_opp.c,   *)
(* on top of the policy of VendorPolicy, the buffers of NpuMemory and the  *)
(* resources of NpuProbe.                                                  *)
(*                                                                         *)
(* Concurrent actors: clients in ioctls and closing buffers, one writer of *)
(* the debugfs files, the delayed power-off work, the thermal monitor,     *)
(* and system suspend.  Operations under power_lock are one step; a rate   *)
(* change under devfreq_lock is two, with anything that does not take the  *)
(* lock in between.                                                        *)
(*                                                                         *)
(* Assumed: clients come when the probe has ended; the OPP core takes a    *)
(* voltage it is given; a runtime suspend does not fail; a removal comes   *)
(* when nothing holds the device.                                          *)
(***************************************************************************)
EXTENDS VendorReference, NpuMemory, NpuProbe

CONSTANTS Clients,
          Importers, \* bound: the clients that import their buffer instead of creating it
          FuseSet,   \* the chips whose policy is compared
          Followed,  \* bound: the chips followed beyond the start of the probe
          Temps,     \* temperature samples
          BootMhz,   \* the assigned clock rate
          BootMv,    \* regulator-init-microvolt
          InitialMhz, SuspendMhz, \* rates the driver asks for
          FreqRequests, \* rates written to the debugfs file `freq'
          MaxCmd,    \* bound: outstanding writes of `on' to `power'
          MaxVotes,  \* bound: enable votes, which leak after an ignored failure
          MaxFaults  \* bound: failures of a clock, a regulator or a power-up

ASSUME DeviceAssumption ==
  /\ Followed \subseteq FuseSet /\ IsFiniteSet(Clients) /\ Importers \subseteq Clients
  /\ MaxCmd \in Nat /\ MaxVotes \in Nat /\ MaxFaults \in Nat
  /\ BootMhz \in Nat \ {0} /\ BootMv \in Nat \ {0}
  /\ InitialMhz \in Nat /\ SuspendMhz \in Nat /\ FreqRequests \subseteq Nat

\* The chips' fuses, and the rates the driver asks for without looking: no node lies
\* below the boot rate or the suspend rate, and no bin has only nodes above the initial
\* rate.
ASSUME ChipAssumption ==
  /\ \A f \in FuseSet : f.readable => f \in Cells
  /\ Temps \subseteq Int
  /\ \A i \in DOMAIN OppNodes : OppNodes[i].mhz >= BootMhz /\ OppNodes[i].mhz >= SuspendMhz
  /\ \A bin \in 0..2 : \E i \in DOMAIN OppNodes :
       bin \in OppNodes[i].bins /\ OppNodes[i].mhz <= InitialMhz

\* No chip has an operating point that needs more voltage than a higher one.
RisingTables ==
  \A f \in Followed : ~Refused(f) =>
    LET t == Prepared(f).opps
    IN \A i, j \in DOMAIN t : i <= j => t[i].mv <= t[j].mv /\ t[i].cold <= t[j].cold

\* The device tree has no such node, nor one that needs more than its maximum.  A fuse
\* correction (AddOtp) can make one, where it ends below the top rate.
RisingNodes ==
  /\ \A i, j \in DOMAIN OppNodes : i < j /\ OppNodes[i].bins \cap OppNodes[j].bins # {} =>
       /\ OppNodes[i].max <= OppNodes[j].max
       /\ \A sel \in 0..3 : OppNodes[i].mv[sel] <= OppNodes[j].mv[sel]
  /\ \A i \in DOMAIN OppNodes, sel \in 0..3 : OppNodes[i].mv[sel] <= OppNodes[i].max

CorrectsUpwards(f) ==
  f.add = 0 \/ \A i \in DOMAIN OppNodes : OppNodes[i].mhz >= f.min => OppNodes[i].mhz <= f.max

VARIABLES
  fuses,   \* the chip
  vendor,  \* npu->vendor: the operating points of the chip and cold_limit
  probe,   \* "none", "named", "on", "table", "rate", "applied", "set", "bound", "failed",
           \* "removed"
  parts,   \* the resources the probe has acquired
  refs,    \* power_refcount
  on,      \* enable votes on the regulator and the clocks
  pending, \* power_off_work is queued
  delay,   \* power_put_delay is not 0
  client,  \* where each client is
  mem,     \* resources of each client's buffer
  admin, cmd, \* the debugfs writer and cmdline_power_refcount
  sleep,   \* system sleep: "no", "got", "asleep", "put"
  clk, volt, \* the SCMI clock and the regulator
  cur,     \* current_freq
  want,    \* ondemand_freq
  cap,     \* the monitor's QoS limit, 0 when there is none
  cold,    \* v->cold, and the column of voltages in the OPP table
  mon,     \* the monitor: "off", "timer", "qos", "target", "apply", "dead"
  rate,    \* the holder of devfreq_lock and its rate change
  faults,  \* failures so far
  strayed  \* history: a failed rknpu_power_get was ignored

vars == <<fuses, vendor, probe, parts, refs, on, pending, delay, client, mem, admin, cmd, sleep,
          clk, volt, cur, want, cap, cold, mon, rate, faults, strayed>>
chipVars == <<fuses, vendor>>
boundVars == <<chipVars, parts>>
powerVars == <<refs, on, pending>>
adminVars == <<delay, admin, cmd>>
rateVars == <<clk, volt, cur, rate>>
policyVars == <<want, cap, cold, mon>>
userVars == <<client, mem>>

NoRate == [who |-> "none"]

NoVendor == [opps |-> <<>>, limit |-> 0]
opps == vendor.opps
limit == vendor.limit

Init == /\ fuses \in FuseSet /\ vendor = NoVendor /\ probe = "none" /\ parts = {}
        /\ refs = 0 /\ on = 0 /\ pending = FALSE /\ delay = FALSE
        /\ client = [c \in Clients |-> "idle"] /\ mem = [c \in Clients |-> {}]
        /\ admin = "idle" /\ cmd = 0 /\ sleep = "no"
        /\ clk = BootMhz /\ volt = 0 /\ cur = 0 /\ want = 0 /\ cap = 0
        /\ cold = TRUE /\ mon = "off" /\ rate = NoRate
        /\ faults = 0 /\ strayed = FALSE

Fault == faults < MaxFaults /\ faults' = faults + 1
NoFault == UNCHANGED faults

-----------------------------------------------------------------------------
(* Power.  k11c_vendor_resume and _suspend are the runtime callbacks. *)

\* Mutant: devfreq_lock is not taken.
PowerOnUnlocked == /\ on < MaxVotes /\ on' = on + 1
                   /\ clk' = IF on = 0 /\ cur # 0 THEN cur ELSE clk

\* rknpu_power_on; nothing is left of one that fails.
PowerOn == /\ rate = NoRate /\ on < MaxVotes /\ on' = on + 1
           /\ clk' = IF on = 0 /\ cur # 0 THEN cur ELSE clk

\* npu->vendor is set.
HasPolicy == probe \in {"table", "rate", "applied", "set", "bound"}

\* rknpu_power_off.  While the system sleeps runtime PM calls nothing.
PowerOff == /\ rate = NoRate /\ on' = on - 1
            /\ clk' = IF on = 1 /\ HasPolicy /\ sleep = "no" THEN SuspendMhz ELSE clk

\* rknpu_power_get, when it succeeds and when it fails.
Get == /\ refs' = refs + 1 /\ NoFault
       /\ IF refs = 0 THEN PowerOn ELSE UNCHANGED <<on, clk>>
GetFails == /\ refs = 0 /\ rate = NoRate /\ Fault /\ UNCHANGED <<refs, on, clk>>

\* A caller that does not look at the result.
GetIgnored == \/ Get /\ UNCHANGED strayed
              \/ GetFails /\ strayed' = TRUE

\* rknpu_power_put.
Put == IF refs <= 0 THEN UNCHANGED <<refs, on, clk>>
       ELSE /\ refs' = refs - 1
            /\ IF refs = 1 THEN PowerOff ELSE UNCHANGED <<on, clk>>

\* Mutant: a vote that the delayed work will give back is given back now, too.
PutDelayTwice == IF ~delay THEN Put /\ UNCHANGED pending
                 ELSE /\ pending' = (pending \/ refs = 1)
                      /\ refs' = (IF refs > 0 THEN refs - 1 ELSE 0)
                      /\ UNCHANGED <<on, clk>>

\* rknpu_power_put_delay: the last vote becomes the delayed work's.
PutDelay == IF ~delay THEN Put /\ UNCHANGED pending
            ELSE /\ pending' = (pending \/ refs = 1)
                 /\ refs' = (IF refs > 1 THEN refs - 1 ELSE refs)
                 /\ UNCHANGED <<on, clk>>

\* Mutant: the work leaves the last vote alone.
PowerOffWorkOthersOnly ==
  /\ pending /\ refs > 1 /\ pending' = FALSE /\ sleep = "no" /\ Put
  /\ UNCHANGED <<boundVars, probe, delay, userVars, admin, cmd, sleep, volt, cur, rate,
                 policyVars, faults, strayed>>

\* rknpu_power_off_delay_work, on a freezable workqueue.
PowerOffWork ==
  /\ pending /\ pending' = FALSE /\ sleep = "no" /\ Put
  /\ UNCHANGED <<boundVars, probe, delay, userVars, admin, cmd, sleep, volt, cur, rate,
                 policyVars, faults, strayed>>

-----------------------------------------------------------------------------
(* A rate change: k11c_vendor_set_rate, under devfreq_lock. *)

Need(mhz) == Voltage(opps[Ceil(opps, mhz)], cold)

\* Mutant: devfreq_lock is not taken.
RateBeginUnlocked(who, mhz) ==
  LET o == opps[Selected(opps, limit, cold, mhz)]
  IN /\ rate' = [who |-> who, mhz |-> o.mhz, mv |-> Voltage(o, cold), down |-> o.mhz < clk,
                 resumed |-> FALSE]
     /\ IF o.mhz < clk THEN clk' = o.mhz /\ UNCHANGED volt
        ELSE volt' = Voltage(o, cold) /\ UNCHANGED clk
     /\ UNCHANGED cur

\* The first step: a lower clock, or the voltage of the point selected.
RateBegin(who, mhz) ==
  LET o == opps[Selected(opps, limit, cold, mhz)]
  IN /\ rate = NoRate
     /\ rate' = [who |-> who, mhz |-> o.mhz, mv |-> Voltage(o, cold), down |-> o.mhz < clk,
                 resumed |-> FALSE]
     /\ IF o.mhz < clk THEN clk' = o.mhz /\ UNCHANGED volt
        ELSE volt' = Voltage(o, cold) /\ UNCHANGED clk
     /\ UNCHANGED cur

\* The second; the monitor keeps the saved request.
RateEnd(who) ==
  /\ rate.who = who /\ rate' = NoRate
  /\ IF rate.down THEN volt' = rate.mv /\ UNCHANGED clk
     ELSE clk' = rate.mhz /\ UNCHANGED volt
  /\ cur' = IF who = "monitor" THEN cur ELSE rate.mhz

\* Either step fails: what the other one did stays.
RateBeginFails == rate = NoRate /\ Fault /\ UNCHANGED rateVars
RateEndFails(who) == rate.who = who /\ rate' = NoRate /\ Fault /\ UNCHANGED <<clk, volt, cur>>

\* update_devfreq and npu_devfreq_target: the request, or the highest point below
\* a limit that is lower.
Target == IF cap # 0 /\ want > cap THEN opps[Floor(opps, cap)].mhz
          ELSE opps[IF Ceil(opps, want) # 0 THEN Ceil(opps, want) ELSE Floor(opps, want)].mhz

-----------------------------------------------------------------------------
(* rknpu_probe and rknpu_remove. *)

ProbeUnchanged == UNCHANGED <<fuses, refs, pending, userVars, admin, cmd, sleep, strayed>>

ProbeFailsAt(step) == probe' = "failed" /\ parts' = ProbeLeft(step)

\* The resources, the interrupt, the DRM device, runtime PM, and the voltage at
\* which the boot loader's clock may be enabled.
ProbeNames ==
  /\ probe = "none" /\ fuses \in Followed
  /\ \/ /\ probe' = "named" /\ volt' = BootMv
        /\ \/ parts' = FakeDevRegister(HeldBefore("power"), TRUE) /\ NoFault
           \/ parts' = FakeDevRegister(HeldBefore("power"), FALSE) /\ Fault
     \/ /\ \E step \in {"io", "irq", "drm_dev", "drm", "fence", "boot"} : ProbeFailsAt(step)
        /\ Fault /\ UNCHANGED volt
  /\ ProbeUnchanged /\ UNCHANGED <<vendor, on, delay, clk, cur, rate, policyVars>>

ProbePower ==
  /\ probe = "named"
  /\ \/ probe' = "on" /\ PowerOn /\ NoFault /\ UNCHANGED parts
     \/ ProbeFailsAt("power") /\ Fault /\ UNCHANGED <<on, clk>>
  /\ ProbeUnchanged /\ UNCHANGED <<vendor, delay, volt, cur, rate, policyVars>>

\* rknpu_devfreq_init: a chip the policy refuses is not driven at all.
ProbeRefuses ==
  /\ probe = "on" /\ Refused(fuses) /\ ProbeFailsAt("rate") /\ PowerOff
  /\ ProbeUnchanged /\ UNCHANGED <<vendor, delay, volt, cur, rate, policyVars, faults>>

ProbeTable ==
  /\ probe = "on" /\ ~Refused(fuses) /\ probe' = "table" /\ vendor' = Prepared(fuses)
  /\ \E temp \in Temps : cold' = Sampled(TRUE, temp)
  /\ want' = opps'[Floor(opps', InitialMhz)].mhz
  /\ ProbeUnchanged /\ UNCHANGED <<parts, on, delay, rateVars, cap, mon, faults>>

ProbeRate ==
  /\ probe = "table" /\ probe' = "rate" /\ RateBegin("probe", want) /\ NoFault
  /\ ProbeUnchanged /\ UNCHANGED <<vendor, parts, on, delay, policyVars>>

ProbeRateEnd ==
  /\ probe = "rate" /\ probe' = "applied" /\ RateEnd("probe") /\ NoFault
  /\ ProbeUnchanged /\ UNCHANGED <<vendor, parts, on, delay, policyVars>>

\* devfreq and the monitor start.
ProbeDevfreq ==
  /\ probe = "applied" /\ probe' = "set" /\ NoFault
  /\ parts' = parts \cup {"governor", "devfreq", "monitor"}
  /\ cap' = (IF cold THEN limit ELSE 0) /\ mon' = "timer"
  /\ ProbeUnchanged /\ UNCHANGED <<vendor, on, delay, rateVars, want, cold>>

ProbeBinds ==
  /\ probe = "set" /\ probe' = "bound" /\ parts' = parts \cup {"workqueue"}
  /\ PowerOff /\ delay' = TRUE /\ NoFault
  /\ ProbeUnchanged /\ UNCHANGED <<vendor, volt, cur, rate, policyVars>>

\* err_devfreq_remove: the table or the rate, devfreq or the monitor, the workqueue.
ProbeFails ==
  /\ Fault
  /\ \E step \in CASE probe = "table"   -> {"rate"}
                   [] probe = "applied" -> {"rate", "governor", "devfreq", "monitor"}
                   [] probe = "set"     -> {"workqueue"}
                   [] OTHER             -> {} : ProbeFailsAt(step)
  /\ mon \in {"off", "timer", "dead"} /\ mon' = "off" /\ cap' = 0 /\ PowerOff
  /\ ProbeUnchanged /\ UNCHANGED <<vendor, delay, volt, cur, rate, want, cold>>

ProbeRateFails ==
  /\ probe = "rate" /\ ProbeFailsAt("rate") /\ Fault
  /\ rate' = NoRate /\ on' = on - 1 /\ clk' = SuspendMhz
  /\ ProbeUnchanged /\ UNCHANGED <<vendor, delay, volt, cur, policyVars>>

Quiet == /\ probe = "bound" /\ sleep = "no" /\ admin = "idle"
         /\ \A c \in Clients : client[c] = "idle"

\* The delayed work is cancelled, its vote and those of the command line are
\* given back at once.
Removal ==
  /\ Quiet /\ \A c \in Clients : mem[c] = {}
  /\ mon \in {"timer", "dead"} /\ mon' = "off" /\ cap' = 0
  /\ probe' = "removed" /\ parts' = RemovalLeft(parts) /\ pending' = FALSE
  /\ IF refs > 0 THEN PowerOff ELSE rate = NoRate /\ UNCHANGED <<on, clk>>
  /\ UNCHANGED <<chipVars, refs, adminVars, userVars, sleep, volt, cur, rate, want, cold,
                 faults, strayed>>

Probe == \/ ProbeNames \/ ProbePower \/ ProbeRefuses \/ ProbeTable \/ ProbeRate
         \/ ProbeRateEnd \/ ProbeDevfreq \/ ProbeBinds \/ ProbeFails \/ ProbeRateFails

-----------------------------------------------------------------------------
(* Clients: RKNPU_IOCTL around every ioctl, and rknpu_gem_free_object. *)

Awake == probe = "bound" /\ sleep = "no"
Move(c, to) == client' = [client EXCEPT ![c] = to]
ClientUnchanged == UNCHANGED <<boundVars, probe, adminVars, sleep, volt, cur, rate, policyVars>>

Ioctl(c) ==
  /\ Awake /\ client[c] = "idle"
  /\ \/ Get /\ Move(c, "ioctl")
     \/ GetFails /\ UNCHANGED client
  /\ ClientUnchanged /\ UNCHANGED <<pending, mem, strayed>>

IoctlEnd(c) ==
  /\ client[c] = "ioctl" /\ Move(c, "idle") /\ PutDelay
  /\ ClientUnchanged /\ UNCHANGED <<mem, faults, strayed>>

\* rknpu_gem_create_ioctl; the last buffer of a client is gone.
Create(c) ==
  /\ client[c] = "ioctl" /\ mem[c] = {} /\ c \notin Importers
  /\ \/ NoFault /\ mem' = [mem EXCEPT ![c] = Created]
     \/ Fault /\ \E step \in Created : mem' = [mem EXCEPT ![c] = LeftAfter(step)]
  /\ ClientUnchanged /\ UNCHANGED <<powerVars, clk, client, strayed>>

\* rknpu_gem_dumb_create, which DRM calls: the same steps without power.
DumbCreate(c) ==
  /\ Awake /\ client[c] = "idle" /\ mem[c] = {} /\ c \notin Importers
  /\ \/ NoFault /\ mem' = [mem EXCEPT ![c] = Created]
     \/ Fault /\ \E step \in Created : mem' = [mem EXCEPT ![c] = LeftAfter(step)]
  /\ ClientUnchanged /\ UNCHANGED <<powerVars, clk, client, strayed>>

\* rknpu_gem_prime_import_sg_table, which DRM calls without power.  A handle that
\* cannot be made drops the object: Free at once.
Import(c) ==
  /\ Awake /\ client[c] = "idle" /\ mem[c] = {} /\ c \in Importers
  /\ \/ NoFault /\ mem' = [mem EXCEPT ![c] = Imported]
     \/ Fault /\ \E step \in Imported \ {"handle"} :
                 mem' = [mem EXCEPT ![c] = ImportLeft(step)]
  /\ ClientUnchanged /\ UNCHANGED <<powerVars, clk, client, strayed>>

\* The last reference is dropped, in a destroy ioctl or when the file is closed.
\* rknpu_gem_free_object goes on when it has no power.
Free(c) ==
  /\ Awake /\ mem[c] # {}
  /\ \/ client[c] = "ioctl" /\ Move(c, "destroy")
     \/ client[c] = "idle" /\ Move(c, "close")
  /\ GetIgnored
  /\ ClientUnchanged /\ UNCHANGED <<pending, mem>>

FreeEnd(c) ==
  /\ \/ client[c] = "destroy" /\ Move(c, "ioctl")
     \/ client[c] = "close" /\ Move(c, "idle")
  /\ mem' = [mem EXCEPT ![c] = AfterFree(@)] /\ PutDelay
  /\ ClientUnchanged /\ UNCHANGED <<faults, strayed>>

-----------------------------------------------------------------------------
(* The debugfs files; one writer. *)

AdminUnchanged == UNCHANGED <<boundVars, probe, userVars, sleep, cap, cold, mon>>

\* rknpu_freq_show and rknpu_freq_set: they go on when they have no power.
Freq ==
  /\ Awake /\ admin = "idle"
  /\ GetIgnored
  /\ \/ admin' = "show" /\ UNCHANGED want
     \/ \E f \in FreqRequests \ {clk'} : admin' = "set" /\ want' = f
  /\ AdminUnchanged /\ UNCHANGED <<pending, delay, cmd, volt, cur, rate>>

FreqTarget ==
  /\ admin = "set"
  /\ \/ admin' = "rate" /\ RateBegin("admin", Target) /\ NoFault
     \/ admin' = "show" /\ RateBeginFails
  /\ AdminUnchanged /\ UNCHANGED <<powerVars, delay, cmd, want, strayed>>

FreqTargetEnd ==
  /\ admin = "rate" /\ admin' = "show"
  /\ \/ RateEnd("admin") /\ NoFault
     \/ RateEndFails("admin")
  /\ AdminUnchanged /\ UNCHANGED <<powerVars, delay, cmd, want, strayed>>

FreqEnd ==
  /\ admin = "show" /\ admin' = "idle" /\ Put
  /\ AdminUnchanged /\ UNCHANGED <<pending, delay, cmd, volt, cur, rate, want, faults, strayed>>

\* rknpu_power_set: `on' counts itself whether or not it has power.
PowerOnWrite ==
  /\ Awake /\ admin = "idle" /\ cmd < MaxCmd /\ cmd' = cmd + 1
  /\ GetIgnored
  /\ AdminUnchanged /\ UNCHANGED <<pending, delay, admin, volt, cur, rate, want>>

\* `off' gives back all votes but one without power_lock, and puts that one.
PowerOffWrite ==
  /\ Awake /\ admin = "idle" /\ admin' = "off"
  /\ refs > 0 /\ cmd > 0 /\ refs' = refs - (cmd - 1) /\ cmd' = 0
  /\ AdminUnchanged /\ UNCHANGED <<on, pending, delay, rateVars, want, faults, strayed>>

PowerOffWriteEnd ==
  /\ admin = "off" /\ admin' = "idle" /\ Put
  /\ AdminUnchanged /\ UNCHANGED <<pending, delay, cmd, volt, cur, rate, want, faults, strayed>>

DelayWrite ==
  /\ Awake /\ admin = "idle" /\ delay' \in BOOLEAN
  /\ AdminUnchanged /\ UNCHANGED <<powerVars, admin, cmd, rateVars, want, faults, strayed>>

Admin == \/ Freq \/ FreqTarget \/ FreqTargetEnd \/ FreqEnd
         \/ PowerOnWrite \/ PowerOffWrite \/ PowerOffWriteEnd \/ DelayWrite

-----------------------------------------------------------------------------
(* monitor_work, on a workqueue that system sleep does not freeze. *)

MonitorUnchanged == UNCHANGED <<boundVars, probe, powerVars, adminVars, userVars, sleep, strayed>>

\* A sample that changes the state, and the table that goes with it.
MonitorSample ==
  /\ mon = "timer" /\ rate = NoRate
  /\ \E temp \in Temps : Sampled(cold, temp) # cold
  /\ cold' = ~cold /\ mon' = IF limit # 0 THEN "qos" ELSE "apply"
  /\ MonitorUnchanged /\ UNCHANGED <<rateVars, want, cap, faults>>

\* The QoS limit, whose notifier calls update_devfreq and ignores its error.
MonitorQos ==
  /\ mon = "qos" /\ mon' = "target" /\ cap' = (IF cold THEN limit ELSE 0)
  /\ MonitorUnchanged /\ UNCHANGED <<rateVars, want, cold, faults>>

MonitorTarget ==
  /\ mon = "target"
  /\ \/ RateBegin("qos", Target) /\ NoFault /\ UNCHANGED mon
     \/ RateBeginFails /\ mon' = "apply"
  /\ MonitorUnchanged /\ UNCHANGED <<want, cap, cold>>

MonitorTargetEnd ==
  /\ mon = "target" /\ mon' = "apply"
  /\ \/ RateEnd("qos") /\ NoFault
     \/ RateEndFails("qos")
  /\ MonitorUnchanged /\ UNCHANGED <<want, cap, cold>>

\* The live clock again, at the voltage of the new table; an error ends the
\* monitor for good.
MonitorApply ==
  /\ mon = "apply"
  /\ \/ RateBegin("monitor", clk) /\ NoFault /\ UNCHANGED mon
     \/ RateBeginFails /\ mon' = "dead"
  /\ MonitorUnchanged /\ UNCHANGED <<want, cap, cold>>

MonitorApplyEnd ==
  /\ mon = "apply"
  /\ \/ RateEnd("monitor") /\ NoFault /\ mon' = "timer"
     \/ RateEndFails("monitor") /\ mon' = "dead"
  /\ MonitorUnchanged /\ UNCHANGED <<want, cap, cold>>

-----------------------------------------------------------------------------
(* System sleep: rknpu_suspend and rknpu_resume, with the users frozen. *)

SleepUnchanged == UNCHANGED <<boundVars, probe, adminVars, userVars, volt, cur, policyVars,
                              strayed>>

Suspend == /\ Quiet
           /\ \/ Get /\ sleep' = "got"
              \/ GetFails /\ UNCHANGED sleep
           /\ SleepUnchanged /\ UNCHANGED <<pending, rate>>

\* pm_runtime_force_suspend, which does not take devfreq_lock.
ForceSuspend ==
  /\ sleep = "got"
  /\ \/ sleep' = "asleep" /\ clk' = SuspendMhz /\ NoFault /\ UNCHANGED <<refs, on>>
     \/ sleep' = "no" /\ Fault /\ Put
  /\ SleepUnchanged /\ UNCHANGED <<pending, rate>>

Resume == /\ sleep = "asleep" /\ sleep' = "put" /\ PutDelay
          /\ SleepUnchanged /\ UNCHANGED <<faults, rate>>

\* pm_runtime_force_resume, without devfreq_lock: a rate change in progress is
\* marked.  A device that lost its last vote is suspended again.
ForceResume == /\ sleep = "put" /\ sleep' = "no"
               /\ clk' = IF on > 0 THEN cur ELSE SuspendMhz
               /\ rate' = IF rate = NoRate THEN rate ELSE [rate EXCEPT !.resumed = TRUE]
               /\ SleepUnchanged /\ UNCHANGED <<powerVars, faults>>

-----------------------------------------------------------------------------
Client(c) == \/ Ioctl(c) \/ IoctlEnd(c) \/ Free(c) \/ FreeEnd(c)
             \/ Create(c) \/ DumbCreate(c) \/ Import(c)
Monitor == \/ MonitorSample \/ MonitorQos
           \/ MonitorTarget \/ MonitorTargetEnd \/ MonitorApply \/ MonitorApplyEnd
SystemSleep == Suspend \/ ForceSuspend \/ Resume \/ ForceResume

Next == \/ Probe \/ Removal \/ \E c \in Clients : Client(c)
        \/ Admin \/ Monitor \/ SystemSleep \/ PowerOffWork

Spec == Init /\ [][Next]_vars

\* A rate change that has begun ends, and the work on the power-off queue gets
\* power_lock and devfreq_lock, which are held for short sections only: mutexes
\* are handed over in order.  Nobody has to call the driver, and the system may
\* sleep for ever.
FairSpec == /\ Spec /\ SF_vars(PowerOffWork)
            /\ WF_vars(FreqTargetEnd) /\ WF_vars(MonitorTargetEnd) /\ WF_vars(MonitorApplyEnd)

-----------------------------------------------------------------------------
(* The policy against the BSP's, for one chip. *)

Rates == {OppNodes[i].mhz : i \in DOMAIN OppNodes} \cup {SuspendMhz, BootMhz, InitialMhz}

\* The operating points, their voltages in warm and in cold weather, and the
\* highest rate in cold weather.
TableIsBsp(f) ==
  LET p == Prepared(f) t == BspTable(f)
  IN /\ p.opps = [i \in DOMAIN t |->
                    [mhz |-> t[i].mhz, mv |-> t[i].mv, min |-> t[i].min, max |-> t[i].max,
                     cold |-> ColdMv(t)[i]]]
     /\ p.limit = LowLimit(t)

\* A request, and the monitor's own adjustment of a live clock that the limit
\* allows, end at the same rate and voltage.
RatesAreBsp(f) ==
  LET p == Prepared(f) t == BspTable(f)
  IN \A low \in BOOLEAN, mhz \in Rates :
       LET volts == BspVolts(t, low)
           bsp == BspTarget(t, LowLimit(t), low, mhz)
           port == Selected(p.opps, p.limit, low, t[bsp].mhz)
           kept == Selected(p.opps, p.limit, low, mhz)
       IN /\ port = bsp
          /\ (low /\ p.limit # 0 => mhz <= p.limit) /\ mhz <= t[Len(t)].mhz =>
               \A mv \in {BootMv} \cup {volts[i] : i \in DOMAIN t} :
                 CheckRateVolt(t, volts, mhz, mv) =
                   <<p.opps[kept].mhz, Voltage(p.opps[kept], low)>>

\* The port samples without the BSP's filter, so it may think it is cold when the
\* BSP does not, never the other way round.
ColdBeforeBsp ==
  \A t0, t1, t2 \in Temps :
    LET b0 == WideTempInit(t0)        p0 == Sampled(TRUE, t0)
        b1 == ThermalUpdate(b0, t1)   p1 == Sampled(p0, t1)
        b2 == ThermalUpdate(b1, t2)   p2 == Sampled(p1, t2)
    IN (b0.low => p0) /\ (b1.low => p1) /\ (b2.low => p2)

\* What the array of a chip holds: bits of other cells around the ones read here.
OtpBytes(f) ==
  [i \in 1..OtpSize |->
     CASE i = 8 -> f.spec + 96 [] i = 10 -> f.mbist + 160 [] i = 87 -> f.remark + 32
       [] i = 43 -> f.pvtm % 256 [] i = 44 -> f.pvtm \div 256
       [] i = 67 -> f.min % 256 [] i = 68 -> f.min \div 256
       [] i = 69 -> f.max % 256 [] i = 70 -> f.max \div 256
       [] i = 71 -> f.add [] OTHER -> i]

\* The driver works with what the array holds, as the BSP does, or with nothing: a
\* step, a word or a check that fails never turns into another fuse value.
FusesExact(f) ==
  \A fails \in {"none", "clocks", "reset", "ecc"}, bad \in {{}, {3}, {4}, {22}, {33}, {35}, {43}} :
    LET otp == [bytes |-> OtpBytes(f), bad |-> bad, fails |-> fails]
        read == ReadFuses(otp)
    IN read.readable => read = f /\ BspFuses(otp) = f

-----------------------------------------------------------------------------
Pcs == {"none", "named", "on", "table", "rate", "applied", "set", "bound", "failed",
        "removed"}

\* The values each variable takes, and who may hold devfreq_lock.
TypeOK ==
  /\ probe \in Pcs /\ fuses \in IF probe = "none" THEN FuseSet ELSE Followed
  /\ parts \subseteq Probed
  /\ refs \in Int /\ on \in Nat /\ pending \in BOOLEAN /\ delay \in BOOLEAN
  /\ client \in [Clients -> {"idle", "ioctl", "destroy", "close"}]
  /\ mem \in [Clients -> SUBSET (Created \cup Imported)]
  /\ admin \in {"idle", "show", "set", "rate", "off"} /\ cmd \in 0..MaxCmd
  /\ sleep \in {"no", "got", "asleep", "put"}
  /\ clk \in Nat /\ volt \in Nat /\ cur \in Nat /\ want \in Nat /\ cap \in Nat
  /\ cold \in BOOLEAN /\ mon \in {"off", "timer", "qos", "target", "apply", "dead"}
  /\ rate = NoRate \/ rate \in [who : {"probe", "qos", "monitor", "admin"},
                                 mhz : Nat, mv : Nat, down : BOOLEAN,
                                 resumed : BOOLEAN]
  /\ rate.who = "probe" => probe = "rate"
  /\ rate.who = "qos" => mon = "target"
  /\ rate.who = "monitor" => mon = "apply"
  /\ rate.who = "admin" <=> admin = "rate"
  /\ faults \in 0..MaxFaults /\ strayed \in BOOLEAN

\* The port of the policy is the BSP's for every chip it drives.  Evaluated where
\* a chip is first looked at.
PolicyIsBsp ==
  probe = "none" =>
    /\ ~Refused(fuses) => TableIsBsp(fuses) /\ RatesAreBsp(fuses)
    /\ fuses.readable => FusesExact(fuses)
    /\ ColdBeforeBsp

\* Who holds a vote: an ioctl, a free (in an ioctl or on its own), a debugfs file
\* in use, the command line, a system that goes to sleep, the delayed work.
\* Who goes from an ioctl into a free holds two.
Busy == {c \in Clients : client[c] # "idle"}
Destroying == {c \in Clients : client[c] = "destroy"}
Bit(b) == IF b THEN 1 ELSE 0
Held == refs = Cardinality(Busy) + Cardinality(Destroying) + cmd + Bit(admin # "idle")
                 + Bit(sleep \in {"got", "asleep"}) + Bit(pending)

\* power_refcount counts exactly the holders, and the device is on exactly when
\* there is one, unless a caller went on after a failed rknpu_power_get; a probe
\* that fails and a removal leave no power, no monitor and no work; whatever step
\* of the probe, of a creation or of an import fails, what it has acquired is given
\* back, and a removal gives everything back but the reserved memory pool.
ReferencesBalanced ==
  /\ probe = "bound" /\ ~strayed => Held /\ on = Bit(refs > 0)
  /\ probe \in {"failed", "removed"} =>
       (~strayed => on = 0) /\ ~pending /\ mon = "off" /\ cap = 0 /\ rate = NoRate
  /\ probe = "bound" => parts \in {Probed, Probed \ {"fake"}}
  /\ probe = "failed" => parts = {}
  /\ probe = "removed" => parts \subseteq {"pool"}
  /\ \A c \in Clients : mem[c] \in {{}, IF c \in Importers THEN Imported ELSE Created}

\* A rate change raises the clock only after the voltage it needs, and no voltage
\* is lowered below what the clock needs, whatever gets and gives back power and
\* samples the temperature in between.  A rate change that the resume of the
\* system has run into is left out: the resume does not take devfreq_lock.
VoltageFirst ==
  [][LET resumed == rate # NoRate /\ rate.resumed
     IN /\ rate # NoRate /\ rate' = NoRate /\ clk' > clk => volt >= Need(clk')
        /\ volt' < volt /\ ~resumed => volt' >= Need(clk)]_vars

\* k11c_vendor_opp.c:294 of every rise of the clock: `Up/equal: voltage before
\* frequency', also when runtime PM restores the saved rate and the monitor has
\* nothing left to adjust.
VoltageBeforeFrequency ==
  [][HasPolicy /\ mon = "timer" /\ clk' > clk => volt >= Need(clk')]_vars

\* When everyone has let go, the delayed work powers the device down, or someone
\* comes back.
Idle == Quiet /\ ~strayed /\ cmd = 0
PoweredDownWhenIdle == Idle ~> ~Idle \/ on = 0
=============================================================================
