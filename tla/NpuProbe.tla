------------------------------ MODULE NpuProbe ------------------------------
(***************************************************************************)
(* What rknpu_probe and rknpu_devfreq_init acquire, step by step, and what *)
(* their labels, rknpu_remove and the driver core give back.  Pure         *)
(* operators over sets of resources; votes on the power are counted by     *)
(* NpuDevice.  The K11C: no IOMMU, a reserved memory pool, one power       *)
(* domain, a DRM device.                                                   *)
(***************************************************************************)
EXTENDS Naturals, Sequences, SequencesExt

\* The reserved memory pool; clocks, regulators and registers; the interrupt; the
\* DRM device and its registration, the fake device; the fence context; runtime PM;
\* the boot voltage; the power; then devfreq_init: the policy, the table and the rate; the
\* governor, the devfreq device, the monitor; and the power-off workqueue.
ProbeOrder == <<"pool", "io", "irq", "drm_dev", "drm", "fake", "fence", "pm", "boot",
                "power", "rate", "governor", "devfreq", "monitor", "workqueue">>

\* Steps that leave nothing to give back, or whose vote is counted elsewhere.
Unheld == {"boot", "power", "rate"}

\* devm_ resources, which the driver core releases after a failed probe or a removal.
Managed == {"io", "irq", "fence"}

\* What a probe holds when it comes to the given step.
HeldBefore(step) ==
  {ProbeOrder[i] : i \in 1..(SelectInSeq(ProbeOrder, LAMBDA s : s = step) - 1)} \ Unheld

\* The labels, each falling through to the next one.
ErrReleaseIommu == {"pool"}
DrmRemove == {"fake", "drm", "drm_dev"}
ErrRemoveDrv == DrmRemove \cup ErrReleaseIommu
ErrDetachPm == {"pm"} \cup ErrRemoveDrv
DevfreqRemove(held) == IF "devfreq" \in held THEN {"monitor", "devfreq", "governor"} ELSE {}
ErrDevfreqRemove(held) == DevfreqRemove(held) \cup ErrDetachPm

\* rknpu_drm_probe frees a DRM device it cannot register.
DrmUndo(step) == IF step = "drm" THEN {"drm_dev"} ELSE {}

\* rknpu_devfreq_init gives its own governor back when there is no devfreq device.
DevfreqUndo(step) == IF step = "devfreq" THEN {"governor"} ELSE {}

\* What a probe leaves that fails at the given step.
ProbeLeft(step) ==
  LET held == HeldBefore(step)
  IN (held \ Managed) \
       CASE step \in {"io", "irq", "drm_dev", "drm"} -> DrmUndo(step) \cup ErrReleaseIommu
         [] step = "fence" -> ErrRemoveDrv
         [] step \in {"boot", "power"} -> ErrDetachPm
         [] OTHER -> DevfreqUndo(step) \cup ErrDevfreqRemove(held)

\* What a removal leaves: rknpu_remove gives back what an IOMMU needs, but not the
\* pool that is used without one.
RemovalLeft(held) ==
  (held \ Managed) \ ({"workqueue", "pm"} \cup DrmRemove \cup DevfreqRemove(held))

\* A probe that has ended: drm_fake_dev_register may have failed, and nobody looks.
Probed == ToSet(ProbeOrder) \ Unheld
FakeDevRegister(held, ok) == IF ok THEN held ELSE held \ {"fake"}
=============================================================================
