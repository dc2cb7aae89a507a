-------------------------- MODULE VendorReference --------------------------
(***************************************************************************)
(* The BSP kernel's policy for the same chips and the same device tree     *)
(* (rockchip_opp_select.c, rockchip_system_monitor.c, the BSP's            *)
(* rknpu_devfreq.c, rockchip-otp.c), which the port has to reproduce:      *)
(* VENDOR-POLICY.md.  The K11C path only: one supply, an SCMI clock, no    *)
(* board-irdrop, AVS, high-temperature or read-margin property, and no     *)
(* clock in the OPP node.  Fuse rates are at most 2147 MHz, so that the    *)
(* BSP's 32-bit products do not overflow.                                  *)
(***************************************************************************)
EXTENDS VendorPolicy

-----------------------------------------------------------------------------
(* rockchip-otp.c, and the reads of rockchip_opp_select.c. *)

\* The reset, the ECC engine and the clocks, before the first word.
BspOtpReady(otp) == otp.fails = "none"

\* rk3568_otp_read: all words that hold a byte of the cell have to be good.
BspOtpRead(otp, offset, n) ==
  [ok  |-> BspOtpReady(otp) /\ \A i \in 0..(n - 1) : (offset + i) \div 2 \notin otp.bad,
   val |-> [i \in 1..n |-> otp.bytes[offset + i]]]

\* rockchip_nvmem_cell_read_common into a variable that was zeroed.
BspCell(otp, offset, n) ==
  LET read == BspOtpRead(otp, offset, n)
  IN IF read.ok THEN read.val ELSE [i \in 1..n |-> 0]

\* The cells after NVMEM's bit extraction.
BspFuses(otp) ==
  LET info == BspCell(otp, 66, 6)
  IN [readable |-> BspOtpReady(otp),
      spec |-> BspCell(otp, 7, 1)[1] % 32, remark |-> BspCell(otp, 86, 1)[1] % 32,
      mbist |-> BspCell(otp, 9, 1)[1] % 16, pvtm |-> U16(BspCell(otp, 42, 2)),
      min |-> U16(info), max |-> U16(SubSeq(info, 3, 4)), add |-> info[5]]

-----------------------------------------------------------------------------
(* rockchip_init_opp_table: bin, selector, operating points. *)

\* rockchip_get_soc_info: the specification counts when there is no remark.
Marks(fuses) == IF fuses.remark = 0 THEN {fuses.spec} ELSE {fuses.remark}
BspBin(fuses) == CASE 13 \in Marks(fuses) -> 1 [] 10 \in Marks(fuses) -> 2 [] OTHER -> 0

\* rockchip_get_pvtm, for a fused value.
BspPvtm(fuses) == 10 * fuses.pvtm

\* rockchip_get_sel: the last row whose minimum is not above the value.
BspRow(value) == PvtmRows[SelectLastInSeq(PvtmRows, LAMBDA row : value >= row.from)].sel

\* rockchip_get_scale_volt_sel: the fused value is the only source of a selector.
BspSel(fuses) == BspRow(BspPvtm(fuses))

\* rockchip_init_opp_table: what the OPP core makes of bin and selector.
BspOpps(fuses) == OppCore(BspBin(fuses), BspSel(fuses))

\* rockchip_adjust_power_scale runs over the table three times.
OtpPass(t, fuses) ==
  [i \in DOMAIN t |->
     IF fuses.add # 0 /\ fuses.min <= t[i].mhz /\ t[i].mhz <= fuses.max
     THEN [t[i] EXCEPT !.mv = IF @ + fuses.add > t[i].max THEN t[i].max ELSE @ + fuses.add]
     ELSE t[i]]

MbistPass(t, fuses) ==
  IF fuses.mbist = 0 THEN t
  ELSE LET vmin == MbistCells[fuses.mbist]
       IN [i \in DOMAIN t |-> IF t[i].mv < vmin THEN [t[i] EXCEPT !.mv = vmin, !.min = vmin]
                              ELSE t[i]]

IrdropPass(t) ==
  [i \in DOMAIN t |->
     IF t[i].mv > MaxMv THEN [t[i] EXCEPT !.mv = MaxMv, !.min = MaxMv, !.max = MaxMv]
     ELSE IF t[i].max > MaxMv THEN [t[i] EXCEPT !.max = MaxMv] ELSE t[i]]

\* reach_max_volt and tmp_safe_rate of a loop in which the i-th operating point
\* needs mv[i]: the last rate that fits and does not come after one that needs
\* exactly the maximum.
SafeAfter(t, mv, n) ==
  LET fits == {i \in 1..n : mv[i] <= MaxMv /\ \A k \in 1..(i - 1) : mv[k] # MaxMv}
  IN IF fits = {} THEN 0 ELSE t[CHOOSE i \in fits : \A k \in fits : k <= i].mhz

\* safe_rate, low_limit: the value at the last operating point that is not the
\* last safe one, 0 if there is none.
LimitOf(t, mv) ==
  LET above == {n \in DOMAIN t : SafeAfter(t, mv, n) # t[n].mhz}
  IN IF above = {} THEN 0 ELSE SafeAfter(t, mv, CHOOSE n \in above : \A k \in above : k <= n)

\* The table after rockchip_adjust_opp_table has disabled what is above safe_rate.
BspTable(fuses) ==
  LET t == MbistPass(OtpPass(BspOpps(fuses), fuses), fuses)
      safe == LimitOf(t, [i \in DOMAIN t |-> t[i].mv])
  IN Kept(IrdropPass(t), safe)

-----------------------------------------------------------------------------
(* rockchip_system_monitor.c. *)

\* rockchip_init_temp_opp_table; the device tree gives one delta for all rates.
ColdMv(t) == [i \in DOMAIN t |-> IF t[i].mv + ColdDelta <= MaxMv THEN t[i].mv + ColdDelta
                                 ELSE MaxMv]
LowLimit(t) == LimitOf(t, [i \in DOMAIN t |-> t[i].mv + ColdDelta])

\* rockchip_adjust_low_temp_opp_volt: the column in force.
BspVolts(t, low) == IF low THEN ColdMv(t) ELSE [i \in DOMAIN t |-> t[i].mv]

\* rockchip_system_monitor_wide_temp_init; last_temp is INT_MAX.
WideTempInit(temp) ==
  [low |-> ~(temp # NoSample /\ temp > LowTemp + Hysteresis), last |-> NoSample]

\* rockchip_system_monitor_thermal_update drops a sample that fell by at most two
\* degrees; INT_MAX minus a temperature below zero is negative.
Dropped(last, temp) == IF last = NoSample THEN temp < 0
                       ELSE temp < last /\ last - temp <= 2000

\* rockchip_system_monitor_wide_temp_adjust.
WideTempAdjust(low, temp) ==
  IF temp < LowTemp THEN TRUE ELSE IF temp > LowTemp + Hysteresis THEN FALSE ELSE low

ThermalUpdate(m, temp) ==
  IF temp = NoSample \/ Dropped(m.last, temp) THEN m
  ELSE [last |-> temp, low |-> WideTempAdjust(m.low, temp)]

\* rockchip_monitor_check_rate_volt without failures, for a live clock and
\* voltage; `volt' is the table's column in force.
CheckRateVolt(t, volt, clk, mv) ==
  LET up == Ceil(t, clk)
      i == IF up # 0 THEN up ELSE Floor(t, clk)
  IN IF t[i].mhz = clk /\ volt[i] = mv THEN <<clk, mv>> ELSE <<t[i].mhz, volt[i]>>

\* The BSP's npu_devfreq_target under the QoS limit of low_temp_adjust: what
\* devfreq_recommended_opp finds for a request, capped.
BspTarget(t, limit, low, mhz) ==
  IF low /\ limit # 0 /\ mhz > limit THEN Floor(t, limit)
  ELSE IF Ceil(t, mhz) # 0 THEN Ceil(t, mhz) ELSE Floor(t, mhz)
=============================================================================
