---------------------------- MODULE VendorPolicy ----------------------------
(***************************************************************************)
(* The voltage policy that the NPU driver ports from the board's BSP       *)
(* kernel (k11c_vendor_opp.h and .c, k11c_rk3568_otp.c): which operating   *)
(* points a chip's fuses allow, at which voltage, what cold weather adds,  *)
(* and what a rate change asks of the clock and of the regulator.  Pure    *)
(* operators; NpuDevice moves, VendorReference is the BSP's side.          *)
(*                                                                         *)
(* Rates are in MHz, voltages in mV, temperatures in thousandths of a      *)
(* degree.  An operating point is a record [mhz, mv, min, max, cold], a    *)
(* table a sequence of them in ascending order.  `fuses' are the cells of  *)
(* one chip; a cell that cannot be read makes `readable' false.            *)
(***************************************************************************)
EXTENDS Integers, Sequences, FiniteSets, SequencesExt

CONSTANTS OppNodes,   \* device tree: [mhz, bins, mv (per selector), max]
          PvtmRows,   \* rockchip,pvtm-voltage-sel: [from, sel]
          MbistCells, \* mbist-vmin
          MaxMv, ColdDelta, LowTemp, Hysteresis, \* rockchip,max-volt ...
          OtpSize     \* bytes of the fuse array

\* The device tree: the nodes of a bin are in ascending order, every bin has one, and
\* the band of the cold state does not lie below zero.
ASSUME DeviceTreeAssumption ==
  /\ OppNodes \in Seq([mhz : Nat \ {0}, bins : SUBSET (0..2), mv : [0..3 -> Nat], max : Nat])
  /\ \A bin \in 0..2 : \E i \in DOMAIN OppNodes : bin \in OppNodes[i].bins
  /\ \A i, j \in DOMAIN OppNodes : i < j /\ OppNodes[i].bins \cap OppNodes[j].bins # {} =>
                                     OppNodes[i].mhz < OppNodes[j].mhz
  /\ PvtmRows \in Seq([from : Nat, sel : Nat]) /\ MbistCells \in Seq(Nat)
  /\ MaxMv \in Nat /\ ColdDelta \in Nat /\ OtpSize \in Nat /\ OtpSize >= 88
  /\ LowTemp \in Int /\ Hysteresis \in Nat /\ LowTemp + Hysteresis >= 0

NoSample == -1000000  \* THERMAL_TEMP_INVALID, or a read error

MinOf(a, b) == IF a < b THEN a ELSE b

-----------------------------------------------------------------------------
(* The selection: bin, selector, and the operating points they leave. *)

Bin(fuses) == LET value == IF fuses.remark # 0 THEN fuses.remark ELSE fuses.spec
              IN CASE value = 13 -> 1 [] value = 10 -> 2 [] OTHER -> 0

\* The last row whose lower bound is not above the value.
Sel(pvtm) == FoldLeft(LAMBDA selected, row : IF pvtm >= row.from THEN row.sel ELSE selected,
                      -1, PvtmRows)

\* k11c_vendor_configure: a cell that cannot be read, a blank PVTM, a selector
\* or a minimum that the device tree does not have end the probe.
Refused(fuses) == \/ ~fuses.readable \/ fuses.pvtm = 0
                  \/ Sel(10 * fuses.pvtm) \notin 0..3
                  \/ fuses.mbist > Len(MbistCells)

\* The entries of a list at the indices of a set, in their order.
Picked(list, indices) ==
  FoldLeft(LAMBDA picked, i : IF i \in indices THEN Append(picked, list[i]) ELSE picked,
           <<>>, [i \in DOMAIN list |-> i])

\* The nodes whose opp-supported-hw has the bin.
Allowed(bin) == Picked(OppNodes, {i \in DOMAIN OppNodes : bin \in OppNodes[i].bins})

\* dev_pm_opp_of_add_table, with the supported_hw and the prop_name of a chip.
OppCore(bin, sel) ==
  LET allowed == Allowed(bin)
  IN [i \in DOMAIN allowed |-> [mhz |-> allowed[i].mhz, mv |-> allowed[i].mv[sel],
                                min |-> allowed[i].mv[sel], max |-> allowed[i].max]]

-----------------------------------------------------------------------------
(* k11c_vendor_adjust. *)

AddOtp(o, fuses) ==
  IF fuses.add # 0 /\ o.mhz \in fuses.min..fuses.max
  THEN [o EXCEPT !.mv = MinOf(@ + fuses.add, o.max)] ELSE o

Mbist(fuses) == IF fuses.mbist = 0 THEN 0 ELSE MbistCells[fuses.mbist]

AtLeast(o, mv) == IF o.mv < mv THEN [o EXCEPT !.mv = mv, !.min = mv] ELSE o

AtMost(o, mv) == IF o.mv <= mv THEN [o EXCEPT !.max = MinOf(@, mv)]
                 ELSE [o EXCEPT !.mv = mv, !.min = mv, !.max = mv]

\* One turn of the loop; `safe' is the highest rate below the first one that
\* needs the maximum voltage, 0 when there is no such limit.
AdjustNext(acc, opp, fuses) ==
  LET o == AtLeast(AddOtp(opp, fuses), Mbist(fuses))
      last == IF o.mv <= MaxMv /\ ~acc.reached THEN o.mhz ELSE acc.last
  IN [opps    |-> Append(acc.opps, AtMost(o, MaxMv)),
      reached |-> acc.reached \/ o.mv = MaxMv,
      last    |-> last,
      safe    |-> IF last # o.mhz THEN last ELSE acc.safe]

Adjust(table, fuses) ==
  FoldLeft(LAMBDA acc, o : AdjustNext(acc, o, fuses),
           [opps |-> <<>>, reached |-> FALSE, last |-> 0, safe |-> 0], table)

\* dev_pm_opp_disable of every rate above the safe one, if there is one.
Kept(table, safe) ==
  Picked(table, {i \in DOMAIN table : safe = 0 \/ table[i].mhz <= safe})

-----------------------------------------------------------------------------
(* k11c_vendor_cold_table and k11c_vendor_prepare. *)

ColdNext(acc, o) ==
  LET cold == MinOf(o.mv + ColdDelta, MaxMv)
      last == IF o.mv + ColdDelta <= MaxMv /\ ~acc.reached THEN o.mhz ELSE acc.last
  IN [opps    |-> Append(acc.opps, [mhz |-> o.mhz, mv |-> o.mv, min |-> o.min,
                                    max |-> o.max, cold |-> cold]),
      reached |-> acc.reached \/ o.mv + ColdDelta = MaxMv,
      last    |-> last,
      limit   |-> IF last # 0 /\ last # o.mhz THEN last ELSE acc.limit]

ColdTable(table) ==
  FoldLeft(LAMBDA acc, o : ColdNext(acc, o),
           [opps |-> <<>>, reached |-> FALSE, last |-> 0, limit |-> 0], table)

\* The operating points that are kept, with their cold voltages, and cold_limit.
Prepared(fuses) ==
  LET adjusted == Adjust(OppCore(Bin(fuses), Sel(10 * fuses.pvtm)), fuses)
      cold == ColdTable(Kept(adjusted.opps, adjusted.safe))
  IN [opps |-> cold.opps, limit |-> cold.limit]

\* Mutant: the hysteresis is left out.
ColdStateNoHysteresis(previous, temp) == temp < LowTemp

ColdState(previous, temp) ==
  IF temp < LowTemp THEN TRUE ELSE IF temp > LowTemp + Hysteresis THEN FALSE ELSE previous

\* A sample, at probe or of the monitor.
Sampled(previous, temp) == IF temp = NoSample THEN previous ELSE ColdState(previous, temp)

-----------------------------------------------------------------------------
(* The operating points of a table, as the OPP core finds them. *)

Ceil(opps, mhz) == SelectInSeq(opps, LAMBDA o : o.mhz >= mhz)
Floor(opps, mhz) == SelectLastInSeq(opps, LAMBDA o : o.mhz <= mhz)

Voltage(o, cold) == IF cold THEN o.cold ELSE o.mv

\* What k11c_vendor_set_rate selects for a request; 0 if no point is so high.
Selected(opps, limit, cold, mhz) ==
  Ceil(opps, IF cold /\ limit # 0 /\ mhz > limit THEN limit ELSE mhz)

-----------------------------------------------------------------------------
(* k11c_otp_read: two-byte words, each with a check of its own.  `otp' is    *)
(* [bytes, bad, fails]: the contents, the words whose wait or check fails,   *)
(* and the step that fails before the first word, or "none".                 *)

OtpWords(offset, n) == (offset \div 2)..((offset + n + 1) \div 2 - 1)

\* rk3568_otp_read: the words go to a buffer, the cell starts in its first word.
Rk3568OtpRead(otp, offset, n) ==
  LET start == offset \div 2
      buf == [i \in 1..(2 * Cardinality(OtpWords(offset, n))) |->
                otp.bytes[2 * start + i]]
  IN IF otp.fails # "none" \/ OtpWords(offset, n) \cap otp.bad # {}
     THEN [ok |-> FALSE, val |-> <<>>]
     ELSE [ok |-> TRUE, val |-> SubSeq(buf, (offset % 2) + 1, (offset % 2) + n)]

OtpRead(otp, offset, n) ==
  IF n = 0 \/ offset >= OtpSize \/ n > OtpSize - offset
  THEN [ok |-> FALSE, val |-> <<>>]
  ELSE Rk3568OtpRead(otp, offset, n)

\* The fuses of a chip that can be read.
Cells == [readable : {TRUE}, spec : 0..31, remark : 0..31, pvtm : Nat, mbist : 0..15,
          min : Nat, max : Nat, add : Nat]

U16(bytes) == bytes[1] + 256 * bytes[2]

\* The cells that k11c_vendor_configure reads, after NVMEM's bit extraction; one
\* that fails makes the chip unreadable.
ReadFuses(otp) ==
  LET spec == OtpRead(otp, 7, 1)     mbist == OtpRead(otp, 9, 1)
      pvtm == OtpRead(otp, 42, 2)    info == OtpRead(otp, 66, 6)
      remark == OtpRead(otp, 86, 1)
  IN IF \A cell \in {spec, mbist, pvtm, info, remark} : cell.ok
     THEN [readable |-> TRUE, spec |-> spec.val[1] % 32, remark |-> remark.val[1] % 32,
           mbist |-> mbist.val[1] % 16, pvtm |-> U16(pvtm.val),
           min |-> U16(info.val), max |-> U16(SubSeq(info.val, 3, 4)), add |-> info.val[5]]
     ELSE [readable |-> FALSE]
=============================================================================
