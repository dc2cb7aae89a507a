------------------------- MODULE VendorPolicyProofs -------------------------
(***************************************************************************)
(* The port of the voltage policy against the BSP's, for values that no    *)
(* run can enumerate: every device tree, every fuse value, every rate,     *)
(* every temperature.                                                      *)
(*                                                                         *)
(* The port makes its table in loops that keep variables from turn to      *)
(* turn, the BSP in passes and with variables of another meaning.  Each    *)
(* loop (a FoldLeft) is first unrolled into its states p[0], p[1], ...,    *)
(* p[n]; that the state after k turns is what the BSP has after k          *)
(* operating points follows by induction on k.                             *)
(***************************************************************************)
EXTENDS NpuDevice, FiniteSetTheorems, WellFoundedInduction, TLAPS

-----------------------------------------------------------------------------
(* Operating points. *)

\* A table as the OPP core sees it.
Point == [mhz : Nat, mv : Nat, min : Nat, max : Nat, cold : Nat]
Table(t) == t \in Seq(Point)

\* The rates the driver asks for without looking, and those its limit allows, have
\* an operating point in the table of a chip.
Usable(v) ==
  /\ v.opps \in Seq([mhz : Nat, mv : Nat, min : Nat, max : Nat, cold : Nat])
  /\ v.limit = 0 \/ \E i \in DOMAIN v.opps : v.opps[i].mhz = v.limit
  /\ \E i \in DOMAIN v.opps : v.opps[i].mhz >= BootMhz
  /\ \E i \in DOMAIN v.opps : v.opps[i].mhz <= InitialMhz
  /\ \A i \in DOMAIN v.opps : v.opps[i].mhz >= SuspendMhz

\* The points of a table have rates and voltages.
LEMMA TableFacts ==
  ASSUME NEW t, Table(t)
  PROVE  /\ Len(t) \in Nat /\ DOMAIN t = 1 .. Len(t)
         /\ \A i \in DOMAIN t : t[i].mhz \in Nat /\ t[i].mv \in Nat /\ t[i].cold \in Nat
<1>1. Len(t) \in Nat /\ DOMAIN t = 1 .. Len(t) /\ \A i \in DOMAIN t : t[i] \in Point
  BY DEF Table
<1>2. \A p \in Point : p.mhz \in Nat /\ p.mv \in Nat /\ p.cold \in Nat
  BY DEF Point
<1> QED
  BY <1>1, <1>2

\* A set of indices has a least and a greatest member.
LEMMA LeastIndex ==
  ASSUME NEW n \in Nat, NEW S, S \subseteq 1..n, S # {}
  PROVE  /\ Min(S) \in S /\ \A i \in S : Min(S) <= i
         /\ Max(S) \in S /\ \A i \in S : Max(S) >= i
<1>1. ASSUME NEW T, T \subseteq Nat, T # {} PROVE \E x \in T : \A y \in T : x <= y
  <2>1. PICK x \in T : \A y \in T : ~(<<y, x>> \in OpToRel(<, Nat))
    BY <1>1, NatLessThanWellFounded, WFMin
  <2>2. \A y \in T : ~(y < x)
    BY <1>1, <2>1 DEF OpToRel
  <2> QED
    BY <1>1, <2>2
<1>2. \E x \in S : \A y \in S : x <= y
  BY <1>1, S \subseteq Nat
<1>3. \E x \in S : \A y \in S : x >= y
  <2>1. PICK x \in {n - i : i \in S} : \A y \in {n - i : i \in S} : x <= y
    BY <1>1, {n - i : i \in S} \subseteq Nat, {n - i : i \in S} # {}
  <2>2. PICK i \in S : x = n - i
    BY <2>1
  <2>3. \A j \in S : n - i <= n - j
    BY <2>1, <2>2
  <2> QED
    BY <2>3
<1>4. Min(S) \in S /\ \A i \in S : Min(S) <= i
  BY <1>2 DEF Min
<1>5. Max(S) \in S /\ \A i \in S : Max(S) >= i
  BY <1>3 DEF Max
<1> QED
  BY <1>4, <1>5

\* find_freq_ceil: the first point that is high enough, or none.
LEMMA CeilFirst ==
  ASSUME NEW t, Table(t), NEW mhz \in Nat
  PROVE  /\ Ceil(t, mhz) \in 0 .. Len(t)
         /\ Ceil(t, mhz) # 0 => t[Ceil(t, mhz)].mhz >= mhz
         /\ \A i \in DOMAIN t : t[i].mhz >= mhz => Ceil(t, mhz) # 0 /\ Ceil(t, mhz) <= i
<1> DEFINE I == {i \in 1 .. Len(t) : t[i].mhz >= mhz}
<1>1. Ceil(t, mhz) = IF I # {} THEN Min(I) ELSE 0
  BY DEF Ceil, SelectInSeq
<1>2. CASE I = {}
  BY <1>1, <1>2, TableFacts
<1>3. CASE I # {}
  <2>1. Min(I) \in I /\ \A i \in I : Min(I) <= i
    BY <1>3, LeastIndex, TableFacts
  <2>2. Ceil(t, mhz) \in I /\ \A i \in I : Ceil(t, mhz) <= i
    BY <1>1, <1>3, <2>1
  <2>3. /\ Len(t) \in Nat /\ DOMAIN t = 1 .. Len(t)
        /\ Ceil(t, mhz) \in 1 .. Len(t)
        /\ t[Ceil(t, mhz)].mhz >= mhz
    BY <2>2, TableFacts
  <2>4. \A i \in DOMAIN t : t[i].mhz >= mhz => Ceil(t, mhz) <= i
    BY <2>2, <2>3
  <2> QED
    BY <2>3, <2>4
<1> QED
  BY <1>2, <1>3

\* The same for a rate that some point can serve.
LEMMA CeilFound ==
  ASSUME NEW t, Table(t), NEW mhz \in Nat, NEW i \in DOMAIN t, t[i].mhz >= mhz
  PROVE  /\ Ceil(t, mhz) \in DOMAIN t /\ t[Ceil(t, mhz)].mhz >= mhz /\ Ceil(t, mhz) <= i
         /\ \A j \in DOMAIN t : t[j].mhz >= mhz => Ceil(t, mhz) <= j
<1>1. /\ Ceil(t, mhz) \in 0 .. Len(t) /\ Ceil(t, mhz) # 0
      /\ \A j \in DOMAIN t : t[j].mhz >= mhz => Ceil(t, mhz) <= j
  BY CeilFirst
<1>2. t[Ceil(t, mhz)].mhz >= mhz
  BY <1>1, CeilFirst
<1> QED
  BY <1>1, <1>2, TableFacts

\* find_freq_floor: a point that is not too high, if there is one.
LEMMA FloorFound ==
  ASSUME NEW t, Table(t), NEW mhz \in Nat, \E i \in DOMAIN t : t[i].mhz <= mhz
  PROVE  Floor(t, mhz) \in DOMAIN t /\ t[Floor(t, mhz)].mhz <= mhz
<1> DEFINE I == {i \in 1 .. Len(t) : t[i].mhz <= mhz}
<1>1. I # {}
  BY TableFacts
<1>2. Floor(t, mhz) = Max(I)
  BY <1>1 DEF Floor, SelectLastInSeq
<1>3. Max(I) \in I
  BY <1>1, LeastIndex, TableFacts
<1>4. Floor(t, mhz) \in I
  BY <1>2, <1>3
<1> HIDE DEF I
<1> QED
  BY <1>4, TableFacts DEF I

\* Tables with the same rates find the same points.
LEMMA SameRates ==
  ASSUME NEW s, NEW t, Len(s) = Len(t), \A i \in 1 .. Len(t) : s[i].mhz = t[i].mhz, NEW mhz
  PROVE  Ceil(s, mhz) = Ceil(t, mhz) /\ Floor(s, mhz) = Floor(t, mhz)
<1>1. /\ {i \in 1 .. Len(s) : s[i].mhz >= mhz} = {i \in 1 .. Len(t) : t[i].mhz >= mhz}
      /\ {i \in 1 .. Len(s) : s[i].mhz <= mhz} = {i \in 1 .. Len(t) : t[i].mhz <= mhz}
  OBVIOUS
<1> QED
  BY <1>1 DEF Ceil, Floor, SelectInSeq, SelectLastInSeq

\* A table whose rates are in ascending order, as the OPP core keeps them.
Ascending(t) == \A i, j \in DOMAIN t : i < j => t[i].mhz < t[j].mhz

\* In such a table the rate of a point finds the point.
LEMMA PointFound ==
  ASSUME NEW t, Table(t), Ascending(t), NEW i \in DOMAIN t
  PROVE  Ceil(t, t[i].mhz) = i
<1>1. t[i].mhz \in Nat /\ t[i].mhz >= t[i].mhz
  BY TableFacts
<1>2. /\ Ceil(t, t[i].mhz) \in DOMAIN t /\ Ceil(t, t[i].mhz) <= i
      /\ t[Ceil(t, t[i].mhz)].mhz >= t[i].mhz
  BY <1>1, CeilFound
<1>3. ~(Ceil(t, t[i].mhz) < i)
  BY <1>1, <1>2, TableFacts DEF Ascending
<1> QED
  BY <1>2, <1>3, TableFacts

-----------------------------------------------------------------------------
(* Cold weather: the port's state against the BSP's. *)

\* The port is cold whenever the BSP is, and the BSP is warm after a sample above
\* its band.
Colder(b, port) ==
  /\ b.low => port
  /\ b.last # NoSample /\ b.last > LowTemp + Hysteresis => ~b.low

\* Where the band does not lie below zero, one more sample keeps the port at least
\* as cold: the BSP drops a sample that fell a little (thermal_update), which the
\* port takes, but such a sample follows a higher one.
LEMMA SampleKeepsColder ==
  ASSUME LowTemp \in Int, Hysteresis \in Nat, LowTemp + Hysteresis >= 0,
         NEW b \in [low : BOOLEAN, last : Int], NEW port \in BOOLEAN, Colder(b, port),
         NEW temp \in Int
  PROVE  /\ ThermalUpdate(b, temp) \in [low : BOOLEAN, last : Int]
         /\ Sampled(port, temp) \in BOOLEAN
         /\ Colder(ThermalUpdate(b, temp), Sampled(port, temp))
<1>1. NoSample \in Int
  BY SMT DEF NoSample
<1>2. Sampled(port, temp) \in BOOLEAN
  BY DEF Sampled, ColdState
<1>3. CASE temp = NoSample
  <2>1. ThermalUpdate(b, temp) = b /\ Sampled(port, temp) = port
    BY <1>3 DEF ThermalUpdate, Sampled
  <2> QED
    BY <2>1
<1>4. CASE temp # NoSample /\ Dropped(b.last, temp)
  <2>1. ThermalUpdate(b, temp) = b
    BY <1>4 DEF ThermalUpdate
  <2>2. b.low => Sampled(port, temp)
    <3>1. SUFFICES ASSUME b.low PROVE Sampled(port, temp)
      OBVIOUS
    <3>2. port /\ (b.last = NoSample \/ ~(b.last > LowTemp + Hysteresis))
      BY <3>1 DEF Colder
    <3>3. ~(temp > LowTemp + Hysteresis)
      BY <1>1, <1>4, <3>2 DEF Dropped
    <3> QED
      BY <1>4, <3>2, <3>3 DEF Sampled, ColdState
  <2> QED
    BY <1>2, <2>1, <2>2 DEF Colder
<1>5. CASE temp # NoSample /\ ~Dropped(b.last, temp)
  <2>1. ThermalUpdate(b, temp) = [last |-> temp, low |-> WideTempAdjust(b.low, temp)]
    BY <1>5 DEF ThermalUpdate
  <2>2. WideTempAdjust(b.low, temp) \in BOOLEAN
    BY DEF WideTempAdjust
  <2>3. WideTempAdjust(b.low, temp) => Sampled(port, temp)
    BY <1>5 DEF WideTempAdjust, Sampled, ColdState, Colder
  <2>4. temp > LowTemp + Hysteresis => ~WideTempAdjust(b.low, temp)
    BY DEF WideTempAdjust
  <2>5. /\ ThermalUpdate(b, temp).last = temp
        /\ ThermalUpdate(b, temp).low = WideTempAdjust(b.low, temp)
    BY <2>1
  <2> QED
    BY <1>2, <2>1, <2>2, <2>3, <2>4, <2>5 DEF Colder
<1> QED
  BY <1>3, <1>4, <1>5

\* The port never thinks it is warm when the BSP thinks it is cold, at any
\* temperatures whatever (k11c_vendor_prepare, k11c_vendor_monitor).
THEOREM ColdNeverMissed ==
  ASSUME LowTemp \in Int, Hysteresis \in Nat, LowTemp + Hysteresis >= 0, Temps \subseteq Int
  PROVE  ColdBeforeBsp
<1> SUFFICES ASSUME NEW t0 \in Temps, NEW t1 \in Temps, NEW t2 \in Temps
             PROVE  LET b0 == WideTempInit(t0)        p0 == Sampled(TRUE, t0)
                        b1 == ThermalUpdate(b0, t1)   p1 == Sampled(p0, t1)
                        b2 == ThermalUpdate(b1, t2)   p2 == Sampled(p1, t2)
                    IN (b0.low => p0) /\ (b1.low => p1) /\ (b2.low => p2)
  BY DEF ColdBeforeBsp
<1> DEFINE b0 == WideTempInit(t0)        p0 == Sampled(TRUE, t0)
           b1 == ThermalUpdate(b0, t1)   p1 == Sampled(p0, t1)
           b2 == ThermalUpdate(b1, t2)   p2 == Sampled(p1, t2)
<1>1. b0 \in [low : BOOLEAN, last : Int] /\ p0 \in BOOLEAN /\ Colder(b0, p0)
  <2>1. NoSample \in Int
    BY SMT DEF NoSample
  <2> QED
    BY <2>1 DEF WideTempInit, Sampled, ColdState, Colder
<1> HIDE DEF b0, p0
<1>2. b1 \in [low : BOOLEAN, last : Int] /\ p1 \in BOOLEAN /\ Colder(b1, p1)
  BY <1>1, t1 \in Int, SampleKeepsColder
<1> HIDE DEF b1, p1
<1>3. Colder(b2, p2)
  BY <1>2, t2 \in Int, SampleKeepsColder
<1> QED
  BY <1>1, <1>2, <1>3 DEF Colder, b0, b1, p0, p1

-----------------------------------------------------------------------------
(* Rates: where the tables agree, every request ends at the BSP's rate and *)
(* voltage.                                                                *)

\* The point that the BSP's devfreq asks for, and the limit it respects.
LEMMA BspPoint ==
  ASSUME NEW t, Table(t), Ascending(t), \E i \in DOMAIN t : TRUE,
         NEW limit0 \in Nat, limit0 = 0 \/ \E i \in DOMAIN t : t[i].mhz = limit0,
         NEW low \in BOOLEAN, NEW mhz \in Nat
  PROVE  /\ BspTarget(t, limit0, low, mhz) \in DOMAIN t
         /\ low /\ limit0 # 0 => t[BspTarget(t, limit0, low, mhz)].mhz <= limit0
<1> DEFINE k == BspTarget(t, limit0, low, mhz)
<1>0. /\ Len(t) \in Nat /\ DOMAIN t = 1 .. Len(t)
      /\ \A i \in DOMAIN t : t[i].mhz \in Nat
  BY TableFacts
<1>1. CASE low /\ limit0 # 0 /\ mhz > limit0
  <2>1. \E i \in DOMAIN t : t[i].mhz <= limit0
    BY <1>0, <1>1
  <2>2. k = Floor(t, limit0)
    BY <1>1 DEF BspTarget
  <2> QED
    BY <2>1, <2>2, FloorFound
<1>2. CASE ~(low /\ limit0 # 0 /\ mhz > limit0) /\ Ceil(t, mhz) # 0
  <2>1. k = Ceil(t, mhz)
    BY <1>2 DEF BspTarget
  <2>2. k \in DOMAIN t
    BY <1>0, <1>2, <2>1, CeilFirst
  <2>3. ASSUME low, limit0 # 0 PROVE t[k].mhz <= limit0
    <3>1. PICK i \in DOMAIN t : t[i].mhz = limit0
      BY <2>3
    <3>2. t[i].mhz >= mhz
      BY <1>2, <2>3, <3>1
    <3>3. k <= i
      BY <2>1, <3>2, CeilFirst
    <3>4. k = i \/ t[k].mhz < t[i].mhz
      BY <1>0, <2>2, <3>3 DEF Ascending
    <3> QED
      BY <1>0, <2>2, <3>1, <3>4
  <2> QED
    BY <2>2, <2>3
<1>3. CASE ~(low /\ limit0 # 0 /\ mhz > limit0) /\ Ceil(t, mhz) = 0
  <2>1. \A i \in DOMAIN t : t[i].mhz < mhz
    <3>1. \A i \in DOMAIN t : ~(t[i].mhz >= mhz)
      BY <1>3, CeilFirst
    <3> QED
      BY <1>0, <3>1
  <2>2. k = Floor(t, mhz)
    BY <1>3 DEF BspTarget
  <2>3. k \in DOMAIN t
    BY <1>0, <2>1, <2>2, FloorFound
  <2>4. ~(low /\ limit0 # 0)
    BY <1>0, <1>3, <2>1
  <2> QED
    BY <2>3, <2>4
<1> QED
  BY <1>1, <1>2, <1>3

\* For any table that the port and the BSP share, in ascending order and with its
\* limit among its points, and any rate: a request ends at the BSP's point, and so
\* does the monitor's adjustment of a live clock, at the BSP's voltage
\* (k11c_vendor_set_rate).  That the tables are the same is TableIsBsp.
THEOREM RatesAgree ==
  ASSUME NEW f, Usable(Prepared(f)), Ascending(Prepared(f).opps), TableIsBsp(f), Rates \subseteq Nat
  PROVE  RatesAreBsp(f)
<1> DEFINE o == Prepared(f).opps
           lim == Prepared(f).limit
           t == BspTable(f)
<1>1. /\ o = [i \in DOMAIN t |-> [mhz |-> t[i].mhz, mv |-> t[i].mv, min |-> t[i].min,
                                  max |-> t[i].max, cold |-> ColdMv(t)[i]]]
      /\ lim = LowLimit(t)
  BY DEF TableIsBsp
<1>2. /\ Table(o) /\ Len(o) \in Nat /\ DOMAIN o = 1 .. Len(o)
      /\ \A i \in DOMAIN o : o[i].mhz \in Nat
      /\ lim = 0 \/ \E i \in DOMAIN o : o[i].mhz = lim
      /\ \E i \in DOMAIN o : TRUE
  BY TableFacts DEF Usable, Table, Point
<1>3. DOMAIN t = DOMAIN o /\ Len(t) = Len(o)
  BY <1>1, <1>2
<1>4. /\ \A i \in DOMAIN o : t[i].mhz = o[i].mhz /\ t[i].mv = o[i].mv /\ ColdMv(t)[i] = o[i].cold
      /\ lim \in Nat
  <2>1. lim \in Nat
    BY <1>2
  <2>2. ASSUME NEW i \in DOMAIN o
        PROVE  t[i].mhz = o[i].mhz /\ t[i].mv = o[i].mv /\ ColdMv(t)[i] = o[i].cold
    <3> HIDE DEF o, t
    <3>1. o[i] = [mhz |-> t[i].mhz, mv |-> t[i].mv, min |-> t[i].min,
                  max |-> t[i].max, cold |-> ColdMv(t)[i]]
      BY <1>1, <1>3
    <3> QED
      BY <3>1
  <2> HIDE DEF o, t, lim
  <2> QED
    BY <2>1, <2>2
<1>5. \A m : Ceil(t, m) = Ceil(o, m) /\ Floor(t, m) = Floor(o, m)
  <2>1. \A i \in 1 .. Len(o) : t[i].mhz = o[i].mhz
    BY <1>2, <1>4
  <2> HIDE DEF o, t
  <2> QED
    BY <1>3, <2>1, SameRates
<1>6. Ascending(o)
  OBVIOUS
<1>7. \A low : \A m : BspTarget(t, lim, low, m) = BspTarget(o, lim, low, m)
  BY <1>5 DEF BspTarget
<1> HIDE DEF o, t, lim
<1> SUFFICES ASSUME NEW low \in BOOLEAN, NEW mhz \in Rates
             PROVE  LET volts == BspVolts(t, low)
                        bsp == BspTarget(t, lim, low, mhz)
                        port == Selected(o, lim, low, t[bsp].mhz)
                        kept == Selected(o, lim, low, mhz)
                    IN /\ port = bsp
                       /\ (low /\ lim # 0 => mhz <= lim) /\ mhz <= t[Len(t)].mhz =>
                            \A mv \in {BootMv} \cup {volts[i] : i \in DOMAIN t} :
                              CheckRateVolt(t, volts, mhz, mv) =
                                <<o[kept].mhz, Voltage(o[kept], low)>>
  BY <1>1 DEF RatesAreBsp, o, t, lim
<1> DEFINE bsp == BspTarget(t, lim, low, mhz)
           kept == Selected(o, lim, low, mhz)
           volts == BspVolts(t, low)
<1>8. mhz \in Nat
  OBVIOUS
<1>9. Selected(o, lim, low, t[bsp].mhz) = bsp
  <2>1. bsp \in DOMAIN o /\ (low /\ lim # 0 => o[bsp].mhz <= lim)
    <3>1. bsp = BspTarget(o, lim, low, mhz)
      BY <1>7
    <3>2. lim \in Nat /\ (lim = 0 \/ \E j \in DOMAIN o : o[j].mhz = lim)
      BY <1>2, <1>4
    <3> QED
      BY <1>2, <1>6, <1>8, <3>1, <3>2, BspPoint
  <2> HIDE DEF bsp
  <2>2. t[bsp].mhz = o[bsp].mhz /\ o[bsp].mhz \in Nat
    BY <1>2, <1>4, <2>1
  <2>3. ~(low /\ lim # 0 /\ o[bsp].mhz > lim)
    BY <1>4, <2>1, <2>2
  <2>4. Ceil(o, o[bsp].mhz) = bsp
    BY <1>2, <1>6, <2>1, PointFound
  <2> QED
    BY <2>2, <2>3, <2>4 DEF Selected
<1>10. ASSUME low /\ lim # 0 => mhz <= lim, mhz <= t[Len(t)].mhz, NEW mv
       PROVE  CheckRateVolt(t, volts, mhz, mv) = <<o[kept].mhz, Voltage(o[kept], low)>>
  <2>1. kept = Ceil(o, mhz)
    <3>1. ~(low /\ lim # 0 /\ mhz > lim)
      BY <1>4, <1>8, <1>10
    <3> QED
      BY <3>1 DEF Selected
  <2>2. kept # 0 /\ kept \in DOMAIN o
    <3>1. Len(o) \in DOMAIN o /\ o[Len(o)].mhz >= mhz
      BY <1>2, <1>3, <1>4, <1>8, <1>10
    <3> QED
      BY <1>2, <1>8, <2>1, <3>1, CeilFound
  <2>3. Ceil(t, mhz) = kept
    BY <1>5, <2>1
  <2> HIDE DEF kept
  <2>4. t[kept].mhz = o[kept].mhz /\ volts[kept] = Voltage(o[kept], low)
    BY <1>3, <1>4, <2>2 DEF BspVolts, Voltage
  <2> HIDE DEF volts
  <2>5. CheckRateVolt(t, volts, mhz, mv) = <<t[kept].mhz, volts[kept]>>
    BY <2>2, <2>3 DEF CheckRateVolt
  <2> QED
    BY <2>4, <2>5
<1> QED
  BY <1>9, <1>10

-----------------------------------------------------------------------------
(* The fuses. *)

\* What is left of a cell's words: exactly its bytes, in its place in the first word.
LEMMA WordsOfCell ==
  ASSUME NEW offset \in Nat, NEW n \in Nat \ {0}
  PROVE  /\ \A i \in 0 .. (n - 1) : (offset + i) \div 2 \in OtpWords(offset, n)
         /\ Cardinality(OtpWords(offset, n)) \in Nat
         /\ (offset % 2) + n <= 2 * Cardinality(OtpWords(offset, n))
         /\ offset % 2 \in 0 .. 1 /\ offset \div 2 \in Nat
         /\ offset = 2 * (offset \div 2) + (offset % 2)
<1> DEFINE start == offset \div 2
           r == offset % 2
           end == (offset + n + 1) \div 2
<1>1. start \in Nat /\ r \in 0 .. 1 /\ offset = 2 * start + r
  OBVIOUS
<1>2. end \in Nat /\ 2 * end >= offset + n /\ 2 * end <= offset + n + 1
  OBVIOUS
<1>3. OtpWords(offset, n) = start .. (end - 1)
  BY DEF OtpWords
<1>4. ASSUME NEW i \in 0 .. (n - 1) PROVE (offset + i) \div 2 \in start .. (end - 1)
  <2> DEFINE w == (offset + i) \div 2
  <2>1. w \in Nat /\ 2 * w >= offset + i - 1 /\ 2 * w <= offset + i
    OBVIOUS
  <2> HIDE DEF start, end, r, w
  <2>2. start <= w /\ w <= end - 1
    BY <1>1, <1>2, <2>1
  <2> QED
    BY <1>1, <1>2, <2>1, <2>2 DEF w
<1> HIDE DEF start, end, r
<1>5. start <= end - 1
  BY <1>1, <1>2
<1>6. Cardinality(OtpWords(offset, n)) = end - start
  BY <1>1, <1>2, <1>3, <1>5, FS_Interval
<1>7. r + n <= 2 * (end - start) /\ end - start \in Nat
  BY <1>1, <1>2, <1>5
<1> QED
  BY <1>1, <1>3, <1>4, <1>6, <1>7 DEF start, r

\* The bytes of a cell.
CellOf(otp, offset, n) == [i \in 1 .. n |-> otp.bytes[offset + i]]

\* A cell that the port reads has the bytes that the BSP reads, at every offset and
\* of every length (k11c_otp_read, rk3568_otp_read).
LEMMA CellIsBsp ==
  ASSUME NEW otp, NEW offset \in Nat, NEW n \in Nat, OtpRead(otp, offset, n).ok
  PROVE  /\ BspOtpRead(otp, offset, n).ok
         /\ n # 0
         /\ OtpRead(otp, offset, n).val = CellOf(otp, offset, n)
         /\ BspOtpRead(otp, offset, n).val = CellOf(otp, offset, n)
<1> DEFINE start == offset \div 2
           r == offset % 2
           len == 2 * Cardinality(OtpWords(offset, n))
           buf == [i \in 1 .. len |-> otp.bytes[2 * start + i]]
<1>1. n # 0 /\ Rk3568OtpRead(otp, offset, n).ok
      /\ OtpRead(otp, offset, n) = Rk3568OtpRead(otp, offset, n)
  BY DEF OtpRead
<1>2. /\ otp.fails = "none" /\ OtpWords(offset, n) \cap otp.bad = {}
      /\ OtpRead(otp, offset, n).val = SubSeq(buf, r + 1, r + n)
  BY <1>1 DEF Rk3568OtpRead
<1>3. /\ \A i \in 0 .. (n - 1) : (offset + i) \div 2 \in OtpWords(offset, n)
      /\ len \in Nat /\ r + n <= len /\ r \in 0 .. 1 /\ start \in Nat /\ offset = 2 * start + r
  <2>1. n \in Nat \ {0}
    BY <1>1
  <2>2. /\ \A i \in 0 .. (n - 1) : (offset + i) \div 2 \in OtpWords(offset, n)
        /\ Cardinality(OtpWords(offset, n)) \in Nat
        /\ r + n <= len /\ r \in 0 .. 1 /\ start \in Nat /\ offset = 2 * start + r
    BY <2>1, WordsOfCell
  <2> HIDE DEF r, start
  <2> QED
    BY <2>2
<1>4. BspOtpRead(otp, offset, n).ok
  BY <1>2, <1>3 DEF BspOtpRead, BspOtpReady
<1>5. SubSeq(buf, r + 1, r + n) = [i \in 1 .. n |-> otp.bytes[offset + i]]
  <2> HIDE DEF len, r, start
  <2>1. SubSeq(buf, r + 1, r + n) = [i \in 1 .. n |-> buf[r + i]]
    BY <1>1, <1>3
  <2>2. ASSUME NEW i \in 1 .. n PROVE buf[r + i] = otp.bytes[offset + i]
    <3>1. r + i \in 1 .. len /\ 2 * start + (r + i) = offset + i
      BY <1>3
    <3> QED
      BY <3>1
  <2> QED
    BY <2>1, <2>2
<1>6. BspOtpRead(otp, offset, n).val = [i \in 1 .. n |-> otp.bytes[offset + i]]
  BY DEF BspOtpRead
<1> QED
  BY <1>1, <1>2, <1>4, <1>5, <1>6 DEF CellOf

\* What stands in the array where the cells are read.
LEMMA CellBytes ==
  ASSUME OtpSize \in Nat, OtpSize >= 88, NEW f \in Cells
  PROVE  LET b == OtpBytes(f)
         IN /\ b[8] % 32 = f.spec /\ b[87] % 32 = f.remark /\ b[10] % 16 = f.mbist
            /\ b[43] + 256 * b[44] = f.pvtm /\ b[67] + 256 * b[68] = f.min
            /\ b[69] + 256 * b[70] = f.max /\ b[71] = f.add
<1> DEFINE b == OtpBytes(f)
<1>1. /\ f.spec \in 0 .. 31 /\ f.remark \in 0 .. 31 /\ f.pvtm \in Nat /\ f.mbist \in 0 .. 15
      /\ f.min \in Nat /\ f.max \in Nat
  BY DEF Cells
<1>2. \A i \in {8, 10, 43, 44, 67, 68, 69, 70, 71, 87} : i \in 1 .. OtpSize
  OBVIOUS
<1>3. /\ b[8] = f.spec + 96 /\ b[10] = f.mbist + 160 /\ b[87] = f.remark + 32
      /\ b[43] = f.pvtm % 256 /\ b[44] = f.pvtm \div 256
      /\ b[67] = f.min % 256 /\ b[68] = f.min \div 256
      /\ b[69] = f.max % 256 /\ b[70] = f.max \div 256 /\ b[71] = f.add
  BY <1>2, SMT DEF OtpBytes
<1> HIDE DEF b
<1>4. b[8] % 32 = f.spec /\ b[87] % 32 = f.remark /\ b[10] % 16 = f.mbist
  BY <1>1, <1>3, SMT
<1>5. \A w \in Nat : (w % 256) + 256 * (w \div 256) = w
  BY SMT
<1>6. /\ b[43] + 256 * b[44] = f.pvtm /\ b[67] + 256 * b[68] = f.min
      /\ b[69] + 256 * b[70] = f.max
  BY <1>1, <1>3, <1>5
<1> QED
  BY <1>3, <1>4, <1>6 DEF b

\* Whatever cells a chip has and whatever step or word of the array fails, the driver
\* works with the chip's fuses, as the BSP does, or with none (k11c_rk3568_otp.c).
THEOREM FusesAreExact ==
  ASSUME OtpSize \in Nat, OtpSize >= 88, NEW f \in Cells
  PROVE  FusesExact(f)
<1> SUFFICES ASSUME NEW fails, NEW bad,
                    ReadFuses([bytes |-> OtpBytes(f), bad |-> bad, fails |-> fails]).readable
             PROVE  LET otp == [bytes |-> OtpBytes(f), bad |-> bad, fails |-> fails]
                    IN ReadFuses(otp) = f /\ BspFuses(otp) = f
  BY DEF FusesExact
<1> DEFINE otp == [bytes |-> OtpBytes(f), bad |-> bad, fails |-> fails]
           b == OtpBytes(f)
           Ok(offset, n) == OtpRead(otp, offset, n).ok
<1>1. Ok(7, 1) /\ Ok(9, 1) /\ Ok(42, 2) /\ Ok(66, 6) /\ Ok(86, 1)
  BY DEF ReadFuses
<1>2. otp.bytes = b
  OBVIOUS
<1> HIDE DEF otp, b
<1> DEFINE Cell(offset, n) == [i \in 1 .. n |-> b[offset + i]]
<1>3. ASSUME NEW offset \in Nat, NEW n \in Nat, Ok(offset, n)
      PROVE  OtpRead(otp, offset, n).val = Cell(offset, n) /\ BspCell(otp, offset, n) = Cell(offset, n)
  <2>1. /\ BspOtpRead(otp, offset, n).ok
        /\ OtpRead(otp, offset, n).val = CellOf(otp, offset, n)
        /\ BspOtpRead(otp, offset, n).val = CellOf(otp, offset, n)
    BY <1>3, CellIsBsp
  <2>2. BspCell(otp, offset, n) = BspOtpRead(otp, offset, n).val
    BY <2>1 DEF BspCell
  <2> QED
    BY <1>2, <2>1, <2>2 DEF CellOf
<1>4. /\ Cell(7, 1)[1] = b[8] /\ Cell(9, 1)[1] = b[10] /\ Cell(86, 1)[1] = b[87]
      /\ U16(Cell(42, 2)) = b[43] + 256 * b[44]
  BY DEF U16
<1> DEFINE info == Cell(66, 6)
<1>5. /\ OtpRead(otp, 7, 1).val = Cell(7, 1) /\ BspCell(otp, 7, 1) = Cell(7, 1)
      /\ OtpRead(otp, 9, 1).val = Cell(9, 1) /\ BspCell(otp, 9, 1) = Cell(9, 1)
      /\ OtpRead(otp, 86, 1).val = Cell(86, 1) /\ BspCell(otp, 86, 1) = Cell(86, 1)
      /\ OtpRead(otp, 42, 2).val = Cell(42, 2) /\ BspCell(otp, 42, 2) = Cell(42, 2)
      /\ OtpRead(otp, 66, 6).val = info /\ BspCell(otp, 66, 6) = info
  <2> HIDE DEF Cell, Ok
  <2> QED
    BY <1>1, <1>3
<1>6. /\ U16(info) = b[67] + 256 * b[68] /\ info[5] = b[71]
      /\ U16(SubSeq(info, 3, 4)) = b[69] + 256 * b[70]
  BY DEF U16
<1>7. BspOtpReady(otp)
  BY <1>1, CellIsBsp DEF BspOtpRead
<1> HIDE DEF Cell, info
<1>8. /\ b[8] % 32 = f.spec /\ b[87] % 32 = f.remark /\ b[10] % 16 = f.mbist
      /\ b[43] + 256 * b[44] = f.pvtm /\ b[67] + 256 * b[68] = f.min
      /\ b[69] + 256 * b[70] = f.max /\ b[71] = f.add
  BY CellBytes DEF b
<1>9. f = [readable |-> TRUE, spec |-> f.spec, remark |-> f.remark, mbist |-> f.mbist,
           pvtm |-> f.pvtm, min |-> f.min, max |-> f.max, add |-> f.add]
  BY DEF Cells
<1>10. BspFuses(otp) = f
  BY <1>3, <1>4, <1>5, <1>6, <1>7, <1>8, <1>9 DEF BspFuses
<1>11. ReadFuses(otp) = f
  BY <1>1, <1>3, <1>4, <1>5, <1>6, <1>8, <1>9 DEF ReadFuses
<1> QED
  BY <1>10, <1>11 DEF otp

-----------------------------------------------------------------------------
(* Loops over a table.  FoldLeft recurs over sets of indices, so it is      *)
(* unfolded in two steps: the recursion has a solution, and along 1..k the  *)
(* solution is the state of the loop after k turns.                         *)

\* Induction over the turns of a loop.
LEMMA Turns ==
  ASSUME NEW n \in Nat, NEW P, 0 \in P, \A k \in 1 .. n : k - 1 \in P => k \in P
  PROVE  0 .. n \subseteq P
<1> DEFINE T == {k \in 1 .. n : k \notin P}
<1>1. SUFFICES ASSUME T # {} PROVE FALSE
  OBVIOUS
<1>2. Min(T) \in T /\ \A k \in T : Min(T) <= k
  BY <1>1, T \subseteq 1 .. n, LeastIndex
<1> DEFINE m == Min(T)
<1> HIDE DEF m
<1>3. m \in 1 .. n /\ m \notin P /\ \A k \in T : m <= k
  BY <1>2 DEF m
<1>4. m - 1 \in P
  BY <1>3
<1> QED
  BY <1>3, <1>4

\* The greatest index of a set that has the last one, and of an interval.
LEMMA LastIndex ==
  ASSUME NEW k \in Nat \ {0}
  PROVE  /\ \A s \in SUBSET (1 .. k) : k \in s => Max(s) = k /\ s \ {k} \in SUBSET (1 .. (k - 1))
         /\ Max(1 .. k) = k /\ (1 .. k) \ {k} = 1 .. (k - 1)
<1>1. ASSUME NEW s \in SUBSET (1 .. k), k \in s
      PROVE  Max(s) = k /\ s \ {k} \in SUBSET (1 .. (k - 1))
  <2>1. Max(s) \in s /\ \A i \in s : Max(s) >= i
    BY <1>1, LeastIndex
  <2> DEFINE m == Max(s)
  <2> HIDE DEF m
  <2>2. m \in 1 .. k /\ m >= k
    BY <1>1, <2>1 DEF m
  <2>3. m = k
    BY <2>2
  <2>4. \A i \in s \ {k} : i \in 1 .. (k - 1)
    OBVIOUS
  <2> QED
    BY <2>3, <2>4 DEF m
<1>2. 1 .. k \in SUBSET (1 .. k) /\ k \in 1 .. k
  OBVIOUS
<1>3. (1 .. k) \ {k} = 1 .. (k - 1)
  OBVIOUS
<1> QED
  BY <1>1, <1>2, <1>3

\* The recursion of a fold whose turns map a set of states to itself.
FoldOf(it, S, base, G) ==
  \A s \in SUBSET S : it[s] = IF s = {} THEN base ELSE G[Max(s)][it[s \ {Max(s)}]]

\* Such a recursion has a solution: one turn more extends it.
LEMMA FoldExists ==
  ASSUME NEW A, NEW n \in Nat, NEW base \in A, NEW G \in [1 .. n -> [A -> A]]
  PROVE  \E it \in [SUBSET (1 .. n) -> A] : FoldOf(it, 1 .. n, base, G)
<1> DEFINE Ok(k) == \E it \in [SUBSET (1 .. k) -> A] : FoldOf(it, 1 .. k, base, G)
           P == {k \in 0 .. n : Ok(k)}
<1>1. Ok(0)
  <2>1. [s \in SUBSET (1 .. 0) |-> base] \in [SUBSET (1 .. 0) -> A]
    OBVIOUS
  <2>2. 1 .. 0 = {}
    OBVIOUS
  <2>3. FoldOf([s \in SUBSET (1 .. 0) |-> base], 1 .. 0, base, G)
    BY <2>2 DEF FoldOf
  <2> QED
    BY <2>1, <2>3
<1>2. ASSUME NEW k \in 1 .. n, Ok(k - 1) PROVE Ok(k)
  <2>1. PICK old \in [SUBSET (1 .. (k - 1)) -> A] : FoldOf(old, 1 .. (k - 1), base, G)
    BY <1>2
  <2> DEFINE it == [s \in SUBSET (1 .. k) |-> IF k \in s THEN G[k][old[s \ {k}]] ELSE old[s]]
  <2>2. ASSUME NEW s \in SUBSET (1 .. k), k \notin s
        PROVE  s \in SUBSET (1 .. (k - 1)) /\ it[s] = old[s]
    <3>1. \A i \in s : i \in 1 .. (k - 1)
      BY <2>2
    <3> QED
      BY <2>2, <3>1
  <2>3. ASSUME NEW s \in SUBSET (1 .. k), k \in s
        PROVE  /\ s \ {k} \in SUBSET (1 .. (k - 1)) /\ it[s \ {k}] = old[s \ {k}]
               /\ Max(s) = k /\ it[s] = G[k][old[s \ {k}]]
    <3>1. Max(s) = k /\ s \ {k} \in SUBSET (1 .. (k - 1))
      BY <2>3, LastIndex
    <3>2. s \ {k} \in SUBSET (1 .. k) /\ k \notin s \ {k}
      OBVIOUS
    <3> QED
      BY <2>2, <2>3, <3>1, <3>2
  <2>4. \A s \in SUBSET (1 .. k) : it[s] \in A
    <3>1. ASSUME NEW s \in SUBSET (1 .. k) PROVE it[s] \in A
      <4>1. CASE k \in s
        <5>1. old[s \ {k}] \in A /\ G[k] \in [A -> A]
          BY <2>3, <4>1
        <5> QED
          BY <2>3, <4>1, <5>1
      <4>2. CASE k \notin s
        BY <2>2, <4>2
      <4> QED
        BY <4>1, <4>2
    <3> QED
      BY <3>1
  <2>5. it \in [SUBSET (1 .. k) -> A]
    BY <2>4
  <2>6. ASSUME NEW s \in SUBSET (1 .. k)
        PROVE  it[s] = IF s = {} THEN base ELSE G[Max(s)][it[s \ {Max(s)}]]
    <3>1. CASE k \in s
      BY <2>3, <3>1
    <3>2. CASE k \notin s /\ s = {}
      BY <2>1, <2>2, <3>2 DEF FoldOf
    <3>3. CASE k \notin s /\ s # {}
      <4>1. Max(s) \in s
        BY <3>3, k \in Nat, LeastIndex
      <4>2. it[s \ {Max(s)}] = old[s \ {Max(s)}]
        BY <2>2, <3>3
      <4>3. s \in SUBSET (1 .. (k - 1)) /\ it[s] = old[s]
        BY <2>2, <3>3
      <4> QED
        BY <2>1, <3>3, <4>2, <4>3 DEF FoldOf
    <3> QED
      BY <3>1, <3>2, <3>3
  <2>7. FoldOf(it, 1 .. k, base, G)
    BY <2>6 DEF FoldOf
  <2> QED
    BY <2>5, <2>7
<1> HIDE DEF Ok
<1>3. 0 \in P /\ \A k \in 1 .. n : k - 1 \in P => k \in P
  BY <1>1, <1>2
<1> HIDE DEF P
<1>4. 0 .. n \subseteq P
  BY <1>3, Turns
<1>5. Ok(n)
  BY <1>4, n \in 0 .. n DEF P
<1> QED
  BY <1>5 DEF Ok

\* Operating points before the cold voltage, and the state of k11c_vendor_adjust.
Raw == [mhz : Nat \ {0}, mv : Nat, min : Nat, max : Nat]
AdjustState == [opps : Seq(Raw), reached : BOOLEAN, last : Nat, safe : Nat]
AdjustStart == [opps |-> <<>>, reached |-> FALSE, last |-> 0, safe |-> 0]

\* What an operating point needs after the correction and the minimum, before the
\* maximum.
Corrected(o, f) == AtLeast(AddOtp(o, f), Mbist(f))

\* t has the corrected operating points of a table, mv their voltages.
Corrects(t, mv, table, f) ==
  \A i \in DOMAIN table : t[i] = Corrected(table[i], f) /\ mv[i] = t[i].mv

\* The corrections leave an operating point one, at its rate.
LEMMA CorrectedType ==
  ASSUME NEW f \in Cells, Mbist(f) \in Nat, MaxMv \in Nat, NEW o \in Raw
  PROVE  /\ Corrected(o, f) \in Raw /\ Corrected(o, f).mhz = o.mhz
         /\ AtMost(Corrected(o, f), MaxMv) \in Raw /\ AtMost(Corrected(o, f), MaxMv).mhz = o.mhz
<1>1. f.add \in Nat /\ f.min \in Nat /\ f.max \in Nat
  BY DEF Cells
<1> DEFINE a == AddOtp(o, f)
<1>2. a \in Raw /\ a.mhz = o.mhz
  BY <1>1 DEF AddOtp, MinOf, Raw
<1> HIDE DEF a
<1> DEFINE b == AtLeast(a, Mbist(f))
<1>3. b \in Raw /\ b.mhz = o.mhz
  BY <1>2 DEF AtLeast, Raw
<1> HIDE DEF b
<1>4. AtMost(b, MaxMv) \in Raw /\ AtMost(b, MaxMv).mhz = o.mhz
  BY <1>3 DEF AtMost, MinOf, Raw
<1> QED
  BY <1>3, <1>4 DEF Corrected, a, b

\* A turn of k11c_vendor_adjust leaves a state of the loop.
LEMMA AdjustNextType ==
  ASSUME NEW f \in Cells, Mbist(f) \in Nat, MaxMv \in Nat, NEW o \in Raw, NEW acc \in AdjustState
  PROVE  AdjustNext(acc, o, f) \in AdjustState
<1> DEFINE c == Corrected(o, f)
           last == IF c.mv <= MaxMv /\ ~acc.reached THEN c.mhz ELSE acc.last
<1>1. c \in Raw /\ AtMost(c, MaxMv) \in Raw
  BY CorrectedType
<1> HIDE DEF c
<1>2. /\ acc.opps \in Seq(Raw) /\ acc.reached \in BOOLEAN /\ acc.last \in Nat /\ acc.safe \in Nat
      /\ c.mhz \in Nat
  BY <1>1 DEF AdjustState, Raw
<1>3. Append(acc.opps, AtMost(c, MaxMv)) \in Seq(Raw)
  BY <1>1, <1>2
<1>4. last \in Nat /\ (acc.reached \/ c.mv = MaxMv) \in BOOLEAN
  BY <1>2
<1> HIDE DEF last
<1>5. (IF last # c.mhz THEN last ELSE acc.safe) \in Nat
  BY <1>2, <1>4
<1>6. AdjustNext(acc, o, f) = [opps |-> Append(acc.opps, AtMost(c, MaxMv)),
                               reached |-> acc.reached \/ c.mv = MaxMv,
                               last |-> last, safe |-> IF last # c.mhz THEN last ELSE acc.safe]
  BY DEF AdjustNext, Corrected, c, last
<1> QED
  BY <1>3, <1>4, <1>5, <1>6 DEF AdjustState

\* k11c_vendor_adjust, turn by turn.
LEMMA AdjustTurns ==
  ASSUME NEW f \in Cells, Mbist(f) \in Nat, MaxMv \in Nat, NEW table \in Seq(Raw)
  PROVE  \E p \in [0 .. Len(table) -> AdjustState] :
           /\ p[0] = AdjustStart
           /\ \A k \in 1 .. Len(table) : p[k] = AdjustNext(p[k - 1], table[k], f)
           /\ Adjust(table, f) = p[Len(table)]
<1> DEFINE n == Len(table)
           G == [i \in 1 .. n |-> [acc \in AdjustState |-> AdjustNext(acc, table[i], f)]]
           Eq(it) == it = [s \in SUBSET (DOMAIN table) |->
                             IF s = {} THEN AdjustStart
                             ELSE AdjustNext(it[s \ {Max(s)}], table[Max(s)], f)]
           Sol == CHOOSE it : Eq(it)
<1>1. n \in Nat /\ DOMAIN table = 1 .. n /\ \A i \in 1 .. n : table[i] \in Raw
  OBVIOUS
<1>2. AdjustStart \in AdjustState
  BY DEF AdjustStart, AdjustState
<1>3. Adjust(table, f) = Sol[DOMAIN table]
  BY DEF Adjust, FoldLeft, MapThenFoldSet, AdjustStart
<1> HIDE DEF n
<1>4. G \in [1 .. n -> [AdjustState -> AdjustState]]
  BY <1>1, AdjustNextType
<1> HIDE DEF G
<1>5. PICK it \in [SUBSET (1 .. n) -> AdjustState] : FoldOf(it, 1 .. n, AdjustStart, G)
  BY <1>1, <1>2, <1>4, FoldExists
<1>6. ASSUME NEW s \in SUBSET (1 .. n), s # {}
      PROVE  it[s] = AdjustNext(it[s \ {Max(s)}], table[Max(s)], f)
  <2>1. Max(s) \in 1 .. n
    BY <1>1, <1>6, LeastIndex
  <2>2. it[s \ {Max(s)}] \in AdjustState
    OBVIOUS
  <2> QED
    BY <1>5, <1>6, <2>1, <2>2 DEF FoldOf, G
<1>7. it[{}] = AdjustStart
  BY <1>5 DEF FoldOf
<1>8. it = [s \in SUBSET (1 .. n) |-> it[s]]
  OBVIOUS
<1>9. Eq(it)
  BY <1>1, <1>6, <1>7, <1>8
<1> HIDE DEF Eq
<1>10. Eq(Sol)
  BY <1>9
<1> HIDE DEF Sol
<1>11. /\ Sol[{}] = AdjustStart
       /\ \A s \in SUBSET (1 .. n) : s # {} =>
            Sol[s] = AdjustNext(Sol[s \ {Max(s)}], table[Max(s)], f)
  BY <1>1, <1>10 DEF Eq
<1> DEFINE p == [k \in 0 .. n |-> Sol[1 .. k]]
<1>12. p[0] = AdjustStart
  BY <1>1, <1>11, 1 .. 0 = {}
<1>13. ASSUME NEW k \in 1 .. n PROVE p[k] = AdjustNext(p[k - 1], table[k], f)
  <2>1. k \in 0 .. n /\ k - 1 \in 0 .. n /\ k \in Nat \ {0}
    BY <1>1
  <2>a. 1 .. k \in SUBSET (1 .. n) /\ k \in 1 .. k
    BY <1>1, <2>1
  <2>2. Max(1 .. k) = k /\ (1 .. k) \ {k} = 1 .. (k - 1)
    BY <2>1, LastIndex
  <2>3. Sol[1 .. k] = AdjustNext(Sol[1 .. (k - 1)], table[k], f)
    BY <1>11, <2>a, <2>2
  <2> QED
    BY <2>1, <2>3
<1>14. Adjust(table, f) = p[n]
  BY <1>1, <1>3, n \in 0 .. n
<1>15. p \in [0 .. n -> AdjustState]
  <2> DEFINE P == {k \in 0 .. n : p[k] \in AdjustState}
  <2>1. 0 \in P
    BY <1>1, <1>2, <1>12
  <2>2. ASSUME NEW k \in 1 .. n, k - 1 \in P PROVE k \in P
    <3> HIDE DEF p
    <3>1. p[k - 1] \in AdjustState
      BY <2>2
    <3>2. p[k] \in AdjustState
      BY <1>1, <1>13, <3>1, AdjustNextType
    <3> QED
      BY <1>1, <3>2
  <2>3. 0 .. n \subseteq P
    <3> HIDE DEF P, p
    <3> QED
      BY <1>1, <2>1, <2>2, Turns
  <2> QED
    BY <2>3
<1> HIDE DEF p
<1> QED
  BY <1>12, <1>13, <1>14, <1>15 DEF n

-----------------------------------------------------------------------------
(* The BSP's loop variables, one turn at a time. *)

\* The greatest member of a set of indices.
Topmost(S) == CHOOSE i \in S : \A k \in S : k <= i

\* A set of indices has one, and it is the last index where the set has that.
LEMMA LastMember ==
  ASSUME NEW n \in Nat, NEW S \in SUBSET (1 .. n), S # {}
  PROVE  /\ Topmost(S) \in S /\ \A k \in S : k <= Topmost(S)
         /\ n \in S => Topmost(S) = n
<1>1. Max(S) \in S /\ \A i \in S : Max(S) >= i
  BY LeastIndex
<1>2. \E i \in S : \A k \in S : k <= i
  BY <1>1
<1>3. Topmost(S) \in S /\ \A k \in S : k <= Topmost(S)
  BY <1>2 DEF Topmost
<1> DEFINE m == Topmost(S)
<1> HIDE DEF m
<1>4. m \in 1 .. n /\ (n \in S => n <= m)
  BY <1>3 DEF m
<1>5. n \in S => m = n
  BY <1>4
<1> QED
  BY <1>3, <1>5 DEF m

\* tmp_safe_rate after a turn.
LEMMA SafeAfterTurn ==
  ASSUME NEW t, NEW mv, NEW k \in Nat \ {0}
  PROVE  /\ SafeAfter(t, mv, 0) = 0
         /\ SafeAfter(t, mv, k) =
              IF mv[k] <= MaxMv /\ ~\E i \in 1 .. (k - 1) : mv[i] = MaxMv THEN t[k].mhz
              ELSE SafeAfter(t, mv, k - 1)
<1> DEFINE Fits(n) == {i \in 1 .. n : mv[i] <= MaxMv /\ \A j \in 1 .. (i - 1) : mv[j] # MaxMv}
<1>1. \A n : SafeAfter(t, mv, n) = IF Fits(n) = {} THEN 0 ELSE t[Topmost(Fits(n))].mhz
  BY DEF SafeAfter, Topmost
<1>2. Fits(0) = {}
  OBVIOUS
<1>3. CASE mv[k] <= MaxMv /\ ~\E i \in 1 .. (k - 1) : mv[i] = MaxMv
  <2>1. k \in Fits(k) /\ Fits(k) \in SUBSET (1 .. k)
    BY <1>3
  <2> HIDE DEF Fits
  <2>2. Topmost(Fits(k)) = k
    BY <2>1, LastMember
  <2> QED
    BY <1>1, <1>2, <1>3, <2>1, <2>2
<1>4. CASE ~(mv[k] <= MaxMv /\ ~\E i \in 1 .. (k - 1) : mv[i] = MaxMv)
  <2>1. Fits(k) = Fits(k - 1)
    <3>1. \A i \in 1 .. k : i # k => i \in 1 .. (k - 1)
      OBVIOUS
    <3>2. \A i \in 1 .. (k - 1) : i \in 1 .. k /\ i # k
      OBVIOUS
    <3> QED
      BY <1>4, <3>1, <3>2
  <2> HIDE DEF Fits
  <2> QED
    BY <1>1, <1>2, <1>4, <2>1
<1> QED
  BY <1>3, <1>4

\* safe_rate and low_limit after k turns.
LimitAfter(t, mv, k) ==
  LET above == {n \in 1 .. k : SafeAfter(t, mv, n) # t[n].mhz}
  IN IF above = {} THEN 0 ELSE SafeAfter(t, mv, Topmost(above))

\* The limit after a turn is the safe rate, but where the turn was itself safe.
LEMMA LimitAfterTurn ==
  ASSUME NEW t, NEW mv, NEW k \in Nat \ {0}
  PROVE  /\ LimitAfter(t, mv, 0) = 0
         /\ LimitAfter(t, mv, k) =
              IF SafeAfter(t, mv, k) # t[k].mhz THEN SafeAfter(t, mv, k)
              ELSE LimitAfter(t, mv, k - 1)
<1> DEFINE Above(m) == {n \in 1 .. m : SafeAfter(t, mv, n) # t[n].mhz}
<1>1. \A m : LimitAfter(t, mv, m) = IF Above(m) = {} THEN 0 ELSE SafeAfter(t, mv, Topmost(Above(m)))
  BY DEF LimitAfter
<1>2. Above(0) = {}
  OBVIOUS
<1>3. CASE SafeAfter(t, mv, k) # t[k].mhz
  <2>1. k \in Above(k) /\ Above(k) \in SUBSET (1 .. k)
    BY <1>3
  <2> HIDE DEF Above
  <2>2. Topmost(Above(k)) = k
    BY <2>1, LastMember
  <2> QED
    BY <1>1, <1>2, <1>3, <2>1, <2>2
<1>4. CASE SafeAfter(t, mv, k) = t[k].mhz
  <2>1. Above(k) = Above(k - 1)
    <3>1. \A i \in 1 .. k : i # k => i \in 1 .. (k - 1)
      OBVIOUS
    <3>2. \A i \in 1 .. (k - 1) : i \in 1 .. k /\ i # k
      OBVIOUS
    <3> QED
      BY <1>4, <3>1, <3>2
  <2> HIDE DEF Above
  <2> QED
    BY <1>1, <1>2, <1>4, <2>1
<1> QED
  BY <1>3, <1>4

\* The BSP's limit is the one after the last turn.
LEMMA LimitIsLast ==
  ASSUME NEW t, NEW mv, DOMAIN t = 1 .. Len(t)
  PROVE  LimitOf(t, mv) = LimitAfter(t, mv, Len(t))
BY DEF LimitOf, LimitAfter, Topmost

\* A list with one more entry.
LEMMA Appended ==
  ASSUME NEW S, NEW list \in Seq(S), NEW e \in S
  PROVE  /\ Append(list, e) \in Seq(S) /\ Len(Append(list, e)) = Len(list) + 1
         /\ Append(list, e)[Len(list) + 1] = e
         /\ \A i \in 1 .. Len(list) : Append(list, e)[i] = list[i]
OBVIOUS

\* After k turns k11c_vendor_adjust has the BSP's voltages and the BSP's variables.
LEMMA AdjustAfter ==
  ASSUME NEW f \in Cells, Mbist(f) \in Nat, MaxMv \in Nat, NEW table \in Seq(Raw),
         NEW t, NEW mv, Corrects(t, mv, table, f)
  PROVE  Adjust(table, f).opps = [i \in DOMAIN table |-> AtMost(t[i], MaxMv)]
         /\ Adjust(table, f).safe = LimitAfter(t, mv, Len(table))
         /\ Adjust(table, f) \in AdjustState
<1> DEFINE n == Len(table)
<1>0. \A k \in Nat \ {0} :
        /\ SafeAfter(t, mv, k) =
             IF mv[k] <= MaxMv /\ ~\E i \in 1 .. (k - 1) : mv[i] = MaxMv THEN t[k].mhz
             ELSE SafeAfter(t, mv, k - 1)
        /\ LimitAfter(t, mv, k) =
              IF SafeAfter(t, mv, k) # t[k].mhz THEN SafeAfter(t, mv, k)
              ELSE LimitAfter(t, mv, k - 1)
  BY SafeAfterTurn, LimitAfterTurn
<1>1. n \in Nat /\ DOMAIN table = 1 .. n /\ \A i \in 1 .. n : table[i] \in Raw
  OBVIOUS
<1>2. PICK p \in [0 .. n -> AdjustState] :
           /\ p[0] = AdjustStart
           /\ \A k \in 1 .. n : p[k] = AdjustNext(p[k - 1], table[k], f)
           /\ Adjust(table, f) = p[n]
  BY AdjustTurns
<1> HIDE DEF n
<1>3. ASSUME NEW i \in 1 .. n
      PROVE  t[i] = Corrected(table[i], f) /\ mv[i] = t[i].mv /\ AtMost(t[i], MaxMv) \in Raw
  BY <1>1, CorrectedType DEF Corrects
<1> DEFINE Done(k) == /\ Len(p[k].opps) = k
                      /\ \A i \in 1 .. k : p[k].opps[i] = AtMost(t[i], MaxMv)
                      /\ p[k].reached <=> \E i \in 1 .. k : mv[i] = MaxMv
                      /\ p[k].last = SafeAfter(t, mv, k)
                      /\ p[k].safe = LimitAfter(t, mv, k)
           P == {k \in 0 .. n : Done(k)}
<1>4. Done(0)
  <2>1. SafeAfter(t, mv, 0) = 0 /\ LimitAfter(t, mv, 0) = 0
    BY SafeAfterTurn, LimitAfterTurn, 1 \in Nat \ {0}
  <2> QED
    BY <1>2, <2>1 DEF AdjustStart
<1>5. ASSUME NEW k \in 1 .. n, Done(k - 1) PROVE Done(k)
  <2> DEFINE c == Corrected(table[k], f)
             acc == p[k - 1]
             last == IF c.mv <= MaxMv /\ ~acc.reached THEN c.mhz ELSE acc.last
  <2>1. c = t[k] /\ c.mv = mv[k] /\ k \in Nat \ {0} /\ k - 1 \in 0 .. n /\ k - 1 \in Nat
        /\ AtMost(c, MaxMv) \in Raw
    BY <1>1, <1>3
  <2>2. p[k] = [opps |-> Append(acc.opps, AtMost(c, MaxMv)),
                reached |-> acc.reached \/ c.mv = MaxMv,
                last |-> last, safe |-> IF last # c.mhz THEN last ELSE acc.safe]
    BY <1>2 DEF AdjustNext, Corrected
  <2>3. acc \in AdjustState /\ acc.opps \in Seq(Raw) /\ acc.reached \in BOOLEAN
    BY <1>2, <2>1 DEF AdjustState
  <2> HIDE DEF c, acc
  <2>4. last = SafeAfter(t, mv, k)
    <3>1. acc.reached <=> \E i \in 1 .. (k - 1) : mv[i] = MaxMv
      BY <1>5 DEF acc
    <3>2. acc.last = SafeAfter(t, mv, k - 1)
      BY <1>5 DEF acc
    <3>3. SafeAfter(t, mv, k) =
            IF mv[k] <= MaxMv /\ ~\E i \in 1 .. (k - 1) : mv[i] = MaxMv THEN t[k].mhz
            ELSE SafeAfter(t, mv, k - 1)
      BY <1>0, <2>1
    <3> QED
      BY <2>1, <3>1, <3>2, <3>3
  <2> HIDE DEF last
  <2>5. p[k].safe = LimitAfter(t, mv, k) /\ p[k].last = SafeAfter(t, mv, k)
    BY <1>5, <2>1, <2>2, <2>4, LimitAfterTurn DEF acc
  <2>6. p[k].reached <=> \E i \in 1 .. k : mv[i] = MaxMv
    <3>1. \A i \in 1 .. k : i = k \/ i \in 1 .. (k - 1)
      BY <2>1
    <3>2. k \in 1 .. k /\ \A i \in 1 .. (k - 1) : i \in 1 .. k
      BY <2>1
    <3>3. p[k].reached = (acc.reached \/ c.mv = MaxMv)
      BY <2>2
    <3> QED
      BY <1>5, <2>1, <3>1, <3>2, <3>3 DEF acc
  <2>7. Len(p[k].opps) = k /\ \A i \in 1 .. k : p[k].opps[i] = AtMost(t[i], MaxMv)
    <3>1. p[k].opps = Append(acc.opps, AtMost(c, MaxMv)) /\ Len(acc.opps) = k - 1
      BY <1>5, <2>2 DEF acc
    <3>2. /\ Len(p[k].opps) = k /\ p[k].opps[k] = AtMost(c, MaxMv)
          /\ \A i \in 1 .. (k - 1) : p[k].opps[i] = acc.opps[i]
      BY <2>1, <2>3, <3>1, Appended
    <3>3. \A i \in 1 .. k : i = k \/ i \in 1 .. (k - 1)
      BY <2>1
    <3> QED
      BY <1>5, <2>1, <3>2, <3>3 DEF acc
  <2> QED
    BY <2>5, <2>6, <2>7
<1> HIDE DEF Done
<1>6. Done(n)
  <2>1. 0 \in P /\ \A k \in 1 .. n : k - 1 \in P => k \in P
    BY <1>1, <1>4, <1>5
  <2> HIDE DEF P
  <2>2. 0 .. n \subseteq P
    BY <1>1, <2>1, Turns
  <2> QED
    BY <1>1, <2>2, n \in 0 .. n DEF P
<1>7. p[n] \in AdjustState /\ p[n].opps \in Seq(Raw)
  BY <1>1, <1>2, n \in 0 .. n DEF AdjustState
<1>8. p[n].opps = [i \in DOMAIN table |-> AtMost(t[i], MaxMv)]
  <2>1. p[n].opps = [i \in 1 .. n |-> p[n].opps[i]]
    BY <1>1, <1>6, <1>7 DEF Done
  <2>2. \A i \in 1 .. n : p[n].opps[i] = AtMost(t[i], MaxMv)
    BY <1>6 DEF Done
  <2> QED
    BY <1>1, <2>1, <2>2
<1> QED
  BY <1>2, <1>6, <1>7, <1>8 DEF Done, n

-----------------------------------------------------------------------------
(* Cold weather: k11c_vendor_cold_table. *)

ColdTableState == [opps : Seq(Point), reached : BOOLEAN, last : Nat, limit : Nat]
ColdStart == [opps |-> <<>>, reached |-> FALSE, last |-> 0, limit |-> 0]

\* An operating point with its cold voltage.
WithCold(o) == [mhz |-> o.mhz, mv |-> o.mv, min |-> o.min, max |-> o.max,
                cold |-> MinOf(o.mv + ColdDelta, MaxMv)]

\* It is an operating point of a table.
LEMMA WithColdType ==
  ASSUME MaxMv \in Nat, ColdDelta \in Nat, NEW o \in Raw
  PROVE  WithCold(o) \in Point
BY DEF WithCold, MinOf, Raw, Point

\* A turn of k11c_vendor_cold_table leaves a state of the loop.
LEMMA ColdNextType ==
  ASSUME MaxMv \in Nat, ColdDelta \in Nat, NEW o \in Raw, NEW acc \in ColdTableState
  PROVE  ColdNext(acc, o) \in ColdTableState
<1> DEFINE last == IF o.mv + ColdDelta <= MaxMv /\ ~acc.reached THEN o.mhz ELSE acc.last
           lim == IF last # 0 /\ last # o.mhz THEN last ELSE acc.limit
           reached == acc.reached \/ o.mv + ColdDelta = MaxMv
<1>1. /\ acc.opps \in Seq(Point) /\ acc.reached \in BOOLEAN /\ acc.last \in Nat
      /\ acc.limit \in Nat /\ o.mhz \in Nat /\ o.mv \in Nat
  BY DEF ColdTableState, Raw
<1>2. Append(acc.opps, WithCold(o)) \in Seq(Point)
  BY <1>1, WithColdType
<1>3. last \in Nat /\ lim \in Nat /\ reached \in BOOLEAN
  BY <1>1
<1>4. ColdNext(acc, o) = [opps |-> Append(acc.opps, WithCold(o)), reached |-> reached,
                          last |-> last, limit |-> lim]
  BY DEF ColdNext, WithCold
<1> HIDE DEF last, lim, reached
<1> QED
  BY <1>2, <1>3, <1>4 DEF ColdTableState

\* k11c_vendor_cold_table, turn by turn.
LEMMA ColdTurns ==
  ASSUME MaxMv \in Nat, ColdDelta \in Nat, NEW table \in Seq(Raw)
  PROVE  \E p \in [0 .. Len(table) -> ColdTableState] :
           /\ p[0] = ColdStart
           /\ \A k \in 1 .. Len(table) : p[k] = ColdNext(p[k - 1], table[k])
           /\ ColdTable(table) = p[Len(table)]
<1> DEFINE n == Len(table)
           G == [i \in 1 .. n |-> [acc \in ColdTableState |-> ColdNext(acc, table[i])]]
           Eq(it) == it = [s \in SUBSET (DOMAIN table) |->
                             IF s = {} THEN ColdStart
                             ELSE ColdNext(it[s \ {Max(s)}], table[Max(s)])]
           Sol == CHOOSE it : Eq(it)
<1>1. n \in Nat /\ DOMAIN table = 1 .. n /\ \A i \in 1 .. n : table[i] \in Raw
  OBVIOUS
<1>2. ColdStart \in ColdTableState
  BY DEF ColdStart, ColdTableState
<1>3. ColdTable(table) = Sol[DOMAIN table]
  BY DEF ColdTable, FoldLeft, MapThenFoldSet, ColdStart
<1> HIDE DEF n
<1>4. G \in [1 .. n -> [ColdTableState -> ColdTableState]]
  BY <1>1, ColdNextType
<1> HIDE DEF G
<1>5. PICK it \in [SUBSET (1 .. n) -> ColdTableState] : FoldOf(it, 1 .. n, ColdStart, G)
  BY <1>1, <1>2, <1>4, FoldExists
<1>6. ASSUME NEW s \in SUBSET (1 .. n), s # {}
      PROVE  it[s] = ColdNext(it[s \ {Max(s)}], table[Max(s)])
  <2>1. Max(s) \in 1 .. n
    BY <1>1, <1>6, LeastIndex
  <2>2. it[s \ {Max(s)}] \in ColdTableState
    OBVIOUS
  <2> QED
    BY <1>5, <1>6, <2>1, <2>2 DEF FoldOf, G
<1>7. it[{}] = ColdStart
  BY <1>5 DEF FoldOf
<1>8. it = [s \in SUBSET (1 .. n) |-> it[s]]
  OBVIOUS
<1>9. Eq(it)
  BY <1>1, <1>6, <1>7, <1>8
<1> HIDE DEF Eq
<1>10. Eq(Sol)
  BY <1>9
<1> HIDE DEF Sol
<1>11. /\ Sol[{}] = ColdStart
       /\ \A s \in SUBSET (1 .. n) : s # {} =>
            Sol[s] = ColdNext(Sol[s \ {Max(s)}], table[Max(s)])
  BY <1>1, <1>10 DEF Eq
<1> DEFINE p == [k \in 0 .. n |-> Sol[1 .. k]]
<1>12. p[0] = ColdStart
  BY <1>1, <1>11, 1 .. 0 = {}
<1>13. ASSUME NEW k \in 1 .. n PROVE p[k] = ColdNext(p[k - 1], table[k])
  <2>1. k \in 0 .. n /\ k - 1 \in 0 .. n /\ k \in Nat \ {0}
    BY <1>1
  <2>a. 1 .. k \in SUBSET (1 .. n) /\ k \in 1 .. k
    BY <1>1, <2>1
  <2>2. Max(1 .. k) = k /\ (1 .. k) \ {k} = 1 .. (k - 1)
    BY <2>1, LastIndex
  <2>3. Sol[1 .. k] = ColdNext(Sol[1 .. (k - 1)], table[k])
    BY <1>11, <2>a, <2>2
  <2> QED
    BY <2>1, <2>3
<1>14. ColdTable(table) = p[n]
  BY <1>1, <1>3, n \in 0 .. n
<1>15. p \in [0 .. n -> ColdTableState]
  <2> DEFINE P == {k \in 0 .. n : p[k] \in ColdTableState}
  <2>1. 0 \in P
    BY <1>1, <1>2, <1>12
  <2>2. ASSUME NEW k \in 1 .. n, k - 1 \in P PROVE k \in P
    <3> HIDE DEF p
    <3>1. p[k - 1] \in ColdTableState
      BY <2>2
    <3>2. p[k] \in ColdTableState
      BY <1>1, <1>13, <3>1, ColdNextType
    <3> QED
      BY <1>1, <3>2
  <2>3. 0 .. n \subseteq P
    <3> HIDE DEF P, p
    <3> QED
      BY <1>1, <2>1, <2>2, Turns
  <2> QED
    BY <2>3
<1> HIDE DEF p
<1> QED
  BY <1>12, <1>13, <1>14, <1>15 DEF n

\* After k turns it has the BSP's cold voltages and the BSP's variables: a rate of 0
\* is no limit on either side.
LEMMA ColdAfter ==
  ASSUME MaxMv \in Nat, ColdDelta \in Nat, NEW table \in Seq(Raw),
         NEW mv, \A i \in DOMAIN table : mv[i] = table[i].mv + ColdDelta
  PROVE  ColdTable(table).opps = [i \in DOMAIN table |-> WithCold(table[i])]
         /\ ColdTable(table).limit = LimitAfter(table, mv, Len(table))
         /\ ColdTable(table) \in ColdTableState
<1> DEFINE n == Len(table)
<1>0. \A k \in Nat \ {0} :
        /\ SafeAfter(table, mv, k) =
             IF mv[k] <= MaxMv /\ ~\E i \in 1 .. (k - 1) : mv[i] = MaxMv THEN table[k].mhz
             ELSE SafeAfter(table, mv, k - 1)
        /\ LimitAfter(table, mv, k) =
              IF SafeAfter(table, mv, k) # table[k].mhz THEN SafeAfter(table, mv, k)
              ELSE LimitAfter(table, mv, k - 1)
  BY SafeAfterTurn, LimitAfterTurn
<1>1. n \in Nat /\ DOMAIN table = 1 .. n /\ \A i \in 1 .. n : table[i] \in Raw
  OBVIOUS
<1>2. PICK p \in [0 .. n -> ColdTableState] :
           /\ p[0] = ColdStart
           /\ \A k \in 1 .. n : p[k] = ColdNext(p[k - 1], table[k])
           /\ ColdTable(table) = p[n]
  BY ColdTurns
<1> HIDE DEF n
<1>3. ASSUME NEW i \in 1 .. n
      PROVE  mv[i] = table[i].mv + ColdDelta /\ WithCold(table[i]) \in Point
  BY <1>1, WithColdType
<1> DEFINE Done(k) == /\ Len(p[k].opps) = k
                      /\ \A i \in 1 .. k : p[k].opps[i] = WithCold(table[i])
                      /\ p[k].reached <=> \E i \in 1 .. k : mv[i] = MaxMv
                      /\ p[k].last = SafeAfter(table, mv, k)
                      /\ p[k].limit = LimitAfter(table, mv, k)
                      /\ p[k].last = 0 => p[k].limit = 0
           P == {k \in 0 .. n : Done(k)}
<1>4. Done(0)
  <2>1. SafeAfter(table, mv, 0) = 0 /\ LimitAfter(table, mv, 0) = 0
    BY SafeAfterTurn, LimitAfterTurn, 1 \in Nat \ {0}
  <2> QED
    BY <1>2, <2>1 DEF ColdStart
<1>5. ASSUME NEW k \in 1 .. n, Done(k - 1) PROVE Done(k)
  <2> DEFINE c == table[k]
             acc == p[k - 1]
             last == IF c.mv + ColdDelta <= MaxMv /\ ~acc.reached THEN c.mhz ELSE acc.last
  <2>1. c \in Raw /\ c.mv + ColdDelta = mv[k] /\ k \in Nat \ {0} /\ k - 1 \in 0 .. n /\ k - 1 \in Nat
        /\ WithCold(c) \in Point /\ c = table[k] /\ c.mhz # 0
    BY <1>1, <1>3 DEF Raw
  <2>2. p[k] = [opps |-> Append(acc.opps, WithCold(c)),
                reached |-> acc.reached \/ c.mv + ColdDelta = MaxMv,
                last |-> last, limit |-> IF last # 0 /\ last # c.mhz THEN last ELSE acc.limit]
    BY <1>2 DEF ColdNext, WithCold
  <2>3. acc \in ColdTableState /\ acc.opps \in Seq(Point) /\ acc.reached \in BOOLEAN
    BY <1>2, <2>1 DEF ColdTableState
  <2> HIDE DEF c, acc
  <2>4. last = SafeAfter(table, mv, k)
    <3>1. acc.reached <=> \E i \in 1 .. (k - 1) : mv[i] = MaxMv
      BY <1>5 DEF acc
    <3>2. acc.last = SafeAfter(table, mv, k - 1)
      BY <1>5 DEF acc
    <3>3. SafeAfter(table, mv, k) =
            IF mv[k] <= MaxMv /\ ~\E i \in 1 .. (k - 1) : mv[i] = MaxMv THEN table[k].mhz
            ELSE SafeAfter(table, mv, k - 1)
      BY <1>0, <2>1
    <3> QED
      BY <2>1, <3>1, <3>2, <3>3
  <2> HIDE DEF last
  <2>5. /\ p[k].limit = LimitAfter(table, mv, k) /\ p[k].last = SafeAfter(table, mv, k)
        /\ p[k].last = 0 => p[k].limit = 0
    <3>1. acc.limit = LimitAfter(table, mv, k - 1) /\ (acc.last = 0 => acc.limit = 0)
      BY <1>5 DEF acc
    <3>2. last = 0 => acc.last = 0
      BY <2>1 DEF last
    <3>3. /\ p[k].last = last
          /\ p[k].limit = IF last # 0 /\ last # c.mhz THEN last ELSE acc.limit
      BY <2>2
    <3>4. LimitAfter(table, mv, k) =
            IF last # c.mhz THEN last ELSE LimitAfter(table, mv, k - 1)
      BY <1>0, <2>1, <2>4
    <3> QED
      BY <2>1, <2>4, <3>1, <3>2, <3>3, <3>4
  <2>6. p[k].reached <=> \E i \in 1 .. k : mv[i] = MaxMv
    <3>1. \A i \in 1 .. k : i = k \/ i \in 1 .. (k - 1)
      BY <2>1
    <3>2. k \in 1 .. k /\ \A i \in 1 .. (k - 1) : i \in 1 .. k
      BY <2>1
    <3>3. p[k].reached = (acc.reached \/ c.mv + ColdDelta = MaxMv)
      BY <2>2
    <3> QED
      BY <1>5, <2>1, <3>1, <3>2, <3>3 DEF acc
  <2>7. Len(p[k].opps) = k /\ \A i \in 1 .. k : p[k].opps[i] = WithCold(table[i])
    <3>1. p[k].opps = Append(acc.opps, WithCold(c)) /\ Len(acc.opps) = k - 1
      BY <1>5, <2>2 DEF acc
    <3>2. /\ Len(p[k].opps) = k /\ p[k].opps[k] = WithCold(c)
          /\ \A i \in 1 .. (k - 1) : p[k].opps[i] = acc.opps[i]
      BY <2>1, <2>3, <3>1, Appended
    <3>3. \A i \in 1 .. k : i = k \/ i \in 1 .. (k - 1)
      BY <2>1
    <3> QED
      BY <1>5, <2>1, <3>2, <3>3 DEF acc
  <2> QED
    BY <2>5, <2>6, <2>7
<1> HIDE DEF Done
<1>6. Done(n)
  <2>1. 0 \in P /\ \A k \in 1 .. n : k - 1 \in P => k \in P
    BY <1>1, <1>4, <1>5
  <2> HIDE DEF P
  <2>2. 0 .. n \subseteq P
    BY <1>1, <2>1, Turns
  <2> QED
    BY <1>1, <2>2, n \in 0 .. n DEF P
<1>7. p[n] \in ColdTableState /\ p[n].opps \in Seq(Point)
  BY <1>1, <1>2, n \in 0 .. n DEF ColdTableState
<1>8. p[n].opps = [i \in DOMAIN table |-> WithCold(table[i])]
  <2>1. p[n].opps = [i \in 1 .. n |-> p[n].opps[i]]
    BY <1>1, <1>6, <1>7 DEF Done
  <2>2. \A i \in 1 .. n : p[n].opps[i] = WithCold(table[i])
    BY <1>6 DEF Done
  <2> QED
    BY <1>1, <2>1, <2>2
<1> QED
  BY <1>2, <1>6, <1>7, <1>8 DEF Done, n

-----------------------------------------------------------------------------
(* What is picked from a list. *)

\* The list grows by the entries that are picked, one turn at a time.
LEMMA PickedTurns ==
  ASSUME NEW S, NEW list \in Seq(S), NEW indices
  PROVE  \E p \in [0 .. Len(list) -> Seq(S)] :
           /\ p[0] = <<>>
           /\ \A k \in 1 .. Len(list) :
                p[k] = IF k \in indices THEN Append(p[k - 1], list[k]) ELSE p[k - 1]
           /\ Picked(list, indices) = p[Len(list)]
<1> DEFINE n == Len(list)
           ids == [i \in DOMAIN list |-> i]
           Turn(acc, i) == IF i \in indices THEN Append(acc, list[i]) ELSE acc
           G == [i \in 1 .. n |-> [acc \in Seq(S) |-> Turn(acc, i)]]
           Eq(it) == it = [s \in SUBSET (DOMAIN ids) |->
                             IF s = {} THEN <<>>
                             ELSE Turn(it[s \ {Max(s)}], ids[Max(s)])]
           Sol == CHOOSE it : Eq(it)
<1>1. n \in Nat /\ DOMAIN list = 1 .. n /\ \A i \in 1 .. n : list[i] \in S
  OBVIOUS
<1>2. <<>> \in Seq(S)
  OBVIOUS
<1>3. Picked(list, indices) = Sol[DOMAIN ids]
  BY DEF Picked, FoldLeft, MapThenFoldSet
<1>a. DOMAIN ids = 1 .. n /\ \A i \in 1 .. n : ids[i] = i
  OBVIOUS
<1> HIDE DEF n, ids
<1>b. \A acc \in Seq(S), i \in 1 .. n : Turn(acc, i) \in Seq(S)
  BY <1>1
<1> HIDE DEF Turn
<1>4. G \in [1 .. n -> [Seq(S) -> Seq(S)]]
  BY <1>b
<1> HIDE DEF G
<1>5. PICK it \in [SUBSET (1 .. n) -> Seq(S)] : FoldOf(it, 1 .. n, <<>>, G)
  BY <1>1, <1>2, <1>4, FoldExists
<1>6. ASSUME NEW s \in SUBSET (1 .. n), s # {}
      PROVE  it[s] = Turn(it[s \ {Max(s)}], ids[Max(s)])
  <2>1. Max(s) \in 1 .. n
    BY <1>1, <1>6, LeastIndex
  <2>2. it[s \ {Max(s)}] \in Seq(S)
    OBVIOUS
  <2> QED
    BY <1>5, <1>6, <1>a, <2>1, <2>2 DEF FoldOf, G
<1>7. it[{}] = <<>>
  BY <1>5 DEF FoldOf
<1>8. it = [s \in SUBSET (1 .. n) |-> it[s]]
  OBVIOUS
<1>9. Eq(it)
  BY <1>6, <1>7, <1>8, <1>a
<1> HIDE DEF Eq
<1>10. Eq(Sol)
  BY <1>9
<1> HIDE DEF Sol
<1>11. /\ Sol[{}] = <<>>
       /\ \A s \in SUBSET (1 .. n) : s # {} => Sol[s] = Turn(Sol[s \ {Max(s)}], ids[Max(s)])
  BY <1>10, <1>a DEF Eq
<1> DEFINE p == [k \in 0 .. n |-> Sol[1 .. k]]
<1>12. p[0] = <<>>
  BY <1>1, <1>11, 1 .. 0 = {}
<1>13. ASSUME NEW k \in 1 .. n PROVE p[k] = Turn(p[k - 1], k)
  <2>1. k \in 0 .. n /\ k - 1 \in 0 .. n /\ k \in Nat \ {0}
    BY <1>1
  <2>2. 1 .. k \in SUBSET (1 .. n) /\ k \in 1 .. k
    BY <1>1, <2>1
  <2>3. Max(1 .. k) = k /\ (1 .. k) \ {k} = 1 .. (k - 1)
    BY <2>1, LastIndex
  <2>4. 1 .. k # {} /\ ids[k] = k
    BY <1>a, <2>2
  <2>5. Sol[1 .. k] = Turn(Sol[(1 .. k) \ {Max(1 .. k)}], ids[Max(1 .. k)])
    BY <1>11, <2>2, <2>4
  <2>6. Sol[1 .. k] = Turn(Sol[1 .. (k - 1)], k)
    BY <2>3, <2>4, <2>5
  <2> QED
    BY <2>1, <2>6
<1>14. Picked(list, indices) = p[n]
  BY <1>1, <1>3, <1>a, n \in 0 .. n
<1> HIDE DEF p
<1>15. \A k \in 0 .. n : p[k] \in Seq(S)
  <2> DEFINE P == {k \in 0 .. n : p[k] \in Seq(S)}
  <2>1. 0 \in P
    <3>1. p[0] \in Seq(S)
      BY <1>2, <1>12, Zenon
    <3> QED
      BY <1>1, <3>1
  <2>2. ASSUME NEW k \in 1 .. n, k - 1 \in P PROVE k \in P
    <3>1. p[k] \in Seq(S)
      BY <1>13, <1>b, <2>2
    <3> QED
      BY <1>1, <3>1
  <2>3. 0 .. n \subseteq P
    <3> HIDE DEF P
    <3> QED
      BY <1>1, <2>1, <2>2, Turns
  <2> QED
    BY <2>3
<1>16. p \in [0 .. n -> Seq(S)]
  BY <1>15 DEF p
<1> QED
  BY <1>12, <1>13, <1>14, <1>16 DEF n, Turn

\* Entries of the list, all that the indices name, in the order of the list.
LEMMA PickedEntries ==
  ASSUME NEW S, NEW list \in Seq(S), NEW indices \in SUBSET (DOMAIN list)
  PROVE  /\ Picked(list, indices) \in Seq(S)
         /\ \A j \in DOMAIN Picked(list, indices) :
              \E i \in indices : Picked(list, indices)[j] = list[i]
         /\ \A i \in indices :
              \E j \in DOMAIN Picked(list, indices) : Picked(list, indices)[j] = list[i]
         /\ \A j, l \in DOMAIN Picked(list, indices) : j < l =>
              \E i, m \in indices : /\ i < m
                                    /\ Picked(list, indices)[j] = list[i]
                                    /\ Picked(list, indices)[l] = list[m]
<1> DEFINE n == Len(list)
<1>1. n \in Nat /\ DOMAIN list = 1 .. n /\ \A i \in 1 .. n : list[i] \in S
  OBVIOUS
<1>2. PICK p \in [0 .. n -> Seq(S)] :
           /\ p[0] = <<>>
           /\ \A k \in 1 .. n : p[k] = IF k \in indices THEN Append(p[k - 1], list[k]) ELSE p[k - 1]
           /\ Picked(list, indices) = p[n]
  BY PickedTurns
<1> HIDE DEF n
<1> DEFINE From(k, q) == \A j \in 1 .. Len(q) : \E i \in indices : i <= k /\ q[j] = list[i]
           All(k, q) == \A i \in indices : i <= k => \E j \in 1 .. Len(q) : q[j] = list[i]
           Ordered(q) == \A j, l \in 1 .. Len(q) : j < l =>
                           \E i, m \in indices : i < m /\ q[j] = list[i] /\ q[l] = list[m]
           Done(k) == From(k, p[k]) /\ All(k, p[k]) /\ Ordered(p[k])
           P == {k \in 0 .. n : Done(k)}
<1>3. Done(0)
  <2>1. Len(p[0]) = 0 /\ \A i \in indices : ~(i <= 0)
    BY <1>1, <1>2
  <2> QED
    BY <2>1
<1>4. ASSUME NEW k \in 1 .. n, Done(k - 1) PROVE Done(k)
  <2>1. PICK r : r = p[k - 1]
    OBVIOUS
  <2>2. PICK q : q = p[k]
    OBVIOUS
  <2>3. r \in Seq(S) /\ Len(r) \in Nat /\ k \in Nat /\ list[k] \in S
    BY <1>1, <1>2, <2>1
  <2>4. \A i \in indices : i \in Nat /\ (i <= k => i = k \/ i <= k - 1) /\ (i <= k - 1 => i < k /\ i <= k)
    BY <1>1, <2>3
  <2>5. q = IF k \in indices THEN Append(r, list[k]) ELSE r
    BY <1>2, <2>1, <2>2
  <2>6. From(k - 1, r) /\ All(k - 1, r) /\ Ordered(r)
    BY <1>4, <2>1
  <2>7. CASE k \in indices
    <3>1. /\ Len(q) = Len(r) + 1 /\ q[Len(r) + 1] = list[k]
          /\ \A j \in 1 .. Len(r) : q[j] = r[j]
      BY <2>3, <2>5, <2>7, Appended
    <3>2. \A j \in 1 .. Len(q) : j = Len(r) + 1 \/ j \in 1 .. Len(r)
      BY <2>3, <3>1
    <3>3. Len(r) + 1 \in 1 .. Len(q) /\ \A j \in 1 .. Len(r) : j \in 1 .. Len(q)
      BY <2>3, <3>1
    <3>4. From(k, q)
      <4>1. ASSUME NEW j \in 1 .. Len(q) PROVE \E i \in indices : i <= k /\ q[j] = list[i]
        <5>1. CASE j = Len(r) + 1
          BY <2>3, <2>7, <3>1, <5>1
        <5>2. CASE j \in 1 .. Len(r)
          <6>1. PICK i \in indices : i <= k - 1 /\ r[j] = list[i]
            BY <2>6, <5>2
          <6> QED
            BY <2>4, <3>1, <5>2, <6>1
        <5> QED
          BY <3>2, <5>1, <5>2
      <4> QED
        BY <4>1
    <3>5. All(k, q)
      <4>1. ASSUME NEW i \in indices, i <= k PROVE \E j \in 1 .. Len(q) : q[j] = list[i]
        <5>1. CASE i = k
          BY <3>1, <3>3, <5>1
        <5>2. CASE i <= k - 1
          <6>1. PICK j \in 1 .. Len(r) : r[j] = list[i]
            BY <2>6, <5>2
          <6> QED
            BY <3>1, <3>3, <6>1
        <5> QED
          BY <2>4, <4>1, <5>1, <5>2
      <4> QED
        BY <4>1
    <3>6. Ordered(q)
      <4>1. ASSUME NEW j \in 1 .. Len(q), NEW l \in 1 .. Len(q), j < l
            PROVE  \E i, m \in indices : i < m /\ q[j] = list[i] /\ q[l] = list[m]
        <5>1. j \in 1 .. Len(r)
          BY <2>3, <3>1, <4>1
        <5>2. CASE l \in 1 .. Len(r)
          <6>1. PICK i \in indices, m \in indices : i < m /\ r[j] = list[i] /\ r[l] = list[m]
            BY <2>6, <4>1, <5>1, <5>2
          <6> QED
            BY <3>1, <5>1, <5>2, <6>1
        <5>3. CASE l = Len(r) + 1
          <6>1. PICK i \in indices : i <= k - 1 /\ r[j] = list[i]
            BY <2>6, <5>1
          <6> QED
            BY <2>4, <2>7, <3>1, <5>1, <5>3, <6>1
        <5> QED
          BY <3>2, <5>2, <5>3
      <4> QED
        BY <4>1
    <3> HIDE DEF From, All, Ordered
    <3> QED
      BY <2>2, <3>4, <3>5, <3>6
  <2>8. CASE k \notin indices
    <3>1. q = r
      BY <2>5, <2>8
    <3>2. \A i \in indices : i <= k <=> i <= k - 1
      BY <2>4, <2>8
    <3>3. From(k, r) /\ All(k, r)
      BY <2>6, <3>2
    <3> HIDE DEF From, All, Ordered
    <3> QED
      BY <2>2, <2>6, <3>1, <3>3
  <2> QED
    BY <2>7, <2>8
<1> HIDE DEF Done
<1>5. Done(n)
  <2>1. 0 \in P /\ \A k \in 1 .. n : k - 1 \in P => k \in P
    BY <1>1, <1>3, <1>4
  <2> HIDE DEF P
  <2>2. 0 .. n \subseteq P
    BY <1>1, <2>1, Turns
  <2> QED
    BY <1>1, <2>2, n \in 0 .. n DEF P
<1> DEFINE q == Picked(list, indices)
<1>6. q = p[n]
  BY <1>2
<1> HIDE DEF q
<1>7. q \in Seq(S)
  BY <1>1, <1>2, <1>6, n \in 0 .. n
<1>8. DOMAIN q = 1 .. Len(q) /\ \A i \in indices : i <= n
  BY <1>1, <1>7
<1>9. From(n, q) /\ All(n, q) /\ Ordered(q)
  <2> HIDE DEF From, All, Ordered
  <2> QED
    BY <1>5, <1>6 DEF Done
<1>10. ASSUME NEW j \in DOMAIN q PROVE \E i \in indices : q[j] = list[i]
  BY <1>8, <1>9
<1>11. ASSUME NEW i \in indices PROVE \E j \in DOMAIN q : q[j] = list[i]
  BY <1>8, <1>9
<1>12. ASSUME NEW j \in DOMAIN q, NEW l \in DOMAIN q, j < l
       PROVE  \E i, m \in indices : i < m /\ q[j] = list[i] /\ q[l] = list[m]
  BY <1>8, <1>9, <1>12
<1> HIDE DEF From, All, Ordered
<1> QED
  BY <1>7, <1>10, <1>11, <1>12 DEF q

-----------------------------------------------------------------------------
(* The selector. *)

Row == [from : Nat, sel : Nat]

\* The rows of rockchip,pvtm-voltage-sel, turn by turn (k11c_vendor_sel).
LEMMA SelTurns ==
  ASSUME PvtmRows \in Seq(Row), NEW v \in Nat
  PROVE  \E p \in [0 .. Len(PvtmRows) -> Int] :
           /\ p[0] = -1
           /\ \A k \in 1 .. Len(PvtmRows) :
                p[k] = IF v >= PvtmRows[k].from THEN PvtmRows[k].sel ELSE p[k - 1]
           /\ Sel(v) = p[Len(PvtmRows)]
<1> DEFINE n == Len(PvtmRows)
           Turn(acc, i) == IF v >= PvtmRows[i].from THEN PvtmRows[i].sel ELSE acc
           G == [i \in 1 .. n |-> [acc \in Int |-> Turn(acc, i)]]
           Eq(it) == it = [s \in SUBSET (DOMAIN PvtmRows) |->
                             IF s = {} THEN -1 ELSE Turn(it[s \ {Max(s)}], Max(s))]
           Sol == CHOOSE it : Eq(it)
<1>1. n \in Nat /\ DOMAIN PvtmRows = 1 .. n /\ \A i \in 1 .. n : PvtmRows[i].sel \in Nat
  <2>1. n \in Nat /\ DOMAIN PvtmRows = 1 .. n /\ \A i \in 1 .. n : PvtmRows[i] \in Row
    OBVIOUS
  <2>2. \A row \in Row : row.sel \in Nat
    BY DEF Row
  <2> QED
    BY <2>1, <2>2
<1>2. -1 \in Int
  OBVIOUS
<1>3. Sel(v) = Sol[DOMAIN PvtmRows]
  BY DEF Sel, FoldLeft, MapThenFoldSet
<1> HIDE DEF n
<1>b. \A acc \in Int, i \in 1 .. n : Turn(acc, i) \in Int
  BY <1>1
<1> HIDE DEF Turn
<1>4. G \in [1 .. n -> [Int -> Int]]
  BY <1>b
<1> HIDE DEF G
<1>5. PICK it \in [SUBSET (1 .. n) -> Int] : FoldOf(it, 1 .. n, -1, G)
  BY <1>1, <1>2, <1>4, FoldExists
<1>6. ASSUME NEW s \in SUBSET (1 .. n), s # {}
      PROVE  it[s] = Turn(it[s \ {Max(s)}], Max(s))
  <2>1. Max(s) \in 1 .. n
    BY <1>1, <1>6, LeastIndex
  <2>2. it[s \ {Max(s)}] \in Int
    OBVIOUS
  <2> QED
    BY <1>5, <1>6, <2>1, <2>2 DEF FoldOf, G
<1>7. it[{}] = -1
  BY <1>5 DEF FoldOf
<1>8. it = [s \in SUBSET (1 .. n) |-> it[s]]
  OBVIOUS
<1>9. Eq(it)
  BY <1>1, <1>6, <1>7, <1>8
<1> HIDE DEF Eq
<1>10. Eq(Sol)
  BY <1>9
<1> HIDE DEF Sol
<1>11. /\ Sol[{}] = -1
       /\ \A s \in SUBSET (1 .. n) : s # {} => Sol[s] = Turn(Sol[s \ {Max(s)}], Max(s))
  BY <1>1, <1>10 DEF Eq
<1> DEFINE p == [k \in 0 .. n |-> Sol[1 .. k]]
<1>12. p[0] = -1
  BY <1>1, <1>11, 1 .. 0 = {}
<1>13. ASSUME NEW k \in 1 .. n PROVE p[k] = Turn(p[k - 1], k)
  <2>1. k \in 0 .. n /\ k - 1 \in 0 .. n /\ k \in Nat \ {0}
    BY <1>1
  <2>2. 1 .. k \in SUBSET (1 .. n) /\ k \in 1 .. k
    BY <1>1, <2>1
  <2>3. Max(1 .. k) = k /\ (1 .. k) \ {k} = 1 .. (k - 1)
    BY <2>1, LastIndex
  <2>4. Sol[1 .. k] = Turn(Sol[1 .. (k - 1)], k)
    BY <1>11, <2>2, <2>3
  <2> QED
    BY <2>1, <2>4
<1>14. Sel(v) = p[n]
  BY <1>1, <1>3, n \in 0 .. n
<1> HIDE DEF p
<1>15. \A k \in 0 .. n : p[k] \in Int
  <2> DEFINE P == {k \in 0 .. n : p[k] \in Int}
  <2>1. 0 \in P
    BY <1>1, <1>2, <1>12
  <2>2. ASSUME NEW k \in 1 .. n, k - 1 \in P PROVE k \in P
    <3>1. p[k] \in Int
      BY <1>13, <1>b, <2>2
    <3> QED
      BY <1>1, <3>1
  <2>3. 0 .. n \subseteq P
    <3> HIDE DEF P
    <3> QED
      BY <1>1, <2>1, <2>2, Turns
  <2> QED
    BY <2>3
<1>16. p \in [0 .. n -> Int]
  BY <1>15 DEF p
<1> QED
  BY <1>12, <1>13, <1>14, <1>16 DEF n, Turn

\* A selector that the port finds is the BSP's.
LEMMA SelIsBsp ==
  ASSUME PvtmRows \in Seq(Row), NEW v \in Nat, Sel(v) # -1
  PROVE  Sel(v) = BspRow(v)
<1> DEFINE n == Len(PvtmRows)
           S(k) == {i \in 1 .. k : v >= PvtmRows[i].from}
<1>1. n \in Nat
  OBVIOUS
<1>2. PICK p \in [0 .. n -> Int] :
           /\ p[0] = -1
           /\ \A k \in 1 .. n : p[k] = IF v >= PvtmRows[k].from THEN PvtmRows[k].sel ELSE p[k - 1]
           /\ Sel(v) = p[n]
  BY SelTurns
<1>3. BspRow(v) = IF S(n) = {} THEN PvtmRows[0].sel ELSE PvtmRows[Max(S(n))].sel
  BY DEF BspRow, SelectLastInSeq
<1> HIDE DEF n
<1> DEFINE Done(k) == p[k] = IF S(k) = {} THEN -1 ELSE PvtmRows[Max(S(k))].sel
           P == {k \in 0 .. n : Done(k)}
<1>4. Done(0)
  <2>1. S(0) = {}
    OBVIOUS
  <2> QED
    BY <1>2, <2>1
<1>5. ASSUME NEW k \in 1 .. n, Done(k - 1) PROVE Done(k)
  <2>1. CASE v >= PvtmRows[k].from
    <3>1. k \in Nat \ {0} /\ S(k) \in SUBSET (1 .. k) /\ k \in S(k)
      BY <1>1, <2>1
    <3>2. Max(S(k)) = k
      BY <3>1, LastIndex
    <3>3. S(k) # {} /\ p[k] = PvtmRows[k].sel
      BY <1>2, <2>1, <3>1
    <3> HIDE DEF S
    <3> QED
      BY <3>2, <3>3
  <2>2. CASE ~(v >= PvtmRows[k].from)
    <3>1. S(k) = S(k - 1)
      <4>1. \A i \in 1 .. k : i # k => i \in 1 .. (k - 1)
        BY <1>1
      <4>2. \A i \in 1 .. (k - 1) : i \in 1 .. k /\ i # k
        BY <1>1
      <4> QED
        BY <2>2, <4>1, <4>2
    <3>2. p[k] = p[k - 1]
      BY <1>2, <2>2
    <3> HIDE DEF S
    <3> QED
      BY <1>5, <3>1, <3>2
  <2> QED
    BY <2>1, <2>2
<1> HIDE DEF Done
<1>6. Done(n)
  <2>1. 0 \in P /\ \A k \in 1 .. n : k - 1 \in P => k \in P
    BY <1>1, <1>4, <1>5
  <2> HIDE DEF P
  <2>2. 0 .. n \subseteq P
    BY <1>1, <2>1, Turns
  <2> QED
    BY <1>1, <2>2, n \in 0 .. n DEF P
<1> HIDE DEF S
<1> QED
  BY <1>2, <1>3, <1>6 DEF Done

-----------------------------------------------------------------------------
(* The tables of the device tree. *)

\* A table of a bin, before the fuses correct it, or after.
RawTable(t) == /\ t \in Seq(Raw) /\ Ascending(t) /\ t # <<>>
               /\ \A i \in DOMAIN t : t[i].mhz >= BootMhz /\ t[i].mhz >= SuspendMhz
               /\ \E i \in DOMAIN t : t[i].mhz <= InitialMhz

Node == [mhz : Nat \ {0}, bins : SUBSET (0 .. 2), mv : [0 .. 3 -> Nat], max : Nat]

\* What the OPP core makes of a bin and a selector (dev_pm_opp_of_add_table).
LEMMA CoreTable ==
  ASSUME NEW bin \in 0 .. 2, NEW sel \in 0 .. 3
  PROVE  RawTable(OppCore(bin, sel))
<1> DEFINE I == {i \in DOMAIN OppNodes : bin \in OppNodes[i].bins}
           a == Allowed(bin)
           t == OppCore(bin, sel)
<1>1. OppNodes \in Seq(Node) /\ I \in SUBSET (DOMAIN OppNodes)
  BY DeviceTreeAssumption DEF Node
<1>2. a = Picked(OppNodes, I)
  BY DEF Allowed
<1> HIDE DEF a, I
<1>3. /\ a \in Seq(Node)
      /\ \A j \in DOMAIN a : \E i \in I : a[j] = OppNodes[i]
      /\ \A i \in I : \E j \in DOMAIN a : a[j] = OppNodes[i]
      /\ \A j, l \in DOMAIN a : j < l => \E i, m \in I : i < m /\ a[j] = OppNodes[i] /\ a[l] = OppNodes[m]
  BY <1>1, <1>2, PickedEntries
<1> USE DEF I
<1>4. t = [i \in DOMAIN a |-> [mhz |-> a[i].mhz, mv |-> a[i].mv[sel],
                               min |-> a[i].mv[sel], max |-> a[i].max]]
  BY DEF OppCore, a
<1>5. DOMAIN a = 1 .. Len(a) /\ Len(a) \in Nat /\ \A i \in DOMAIN a : a[i] \in Node
  BY <1>3
<1>6. \A n \in Node : n.mhz \in Nat \ {0} /\ n.mv[sel] \in Nat /\ n.max \in Nat
  BY DEF Node
<1>7. DOMAIN t = DOMAIN a /\ \A i \in DOMAIN a : t[i].mhz = a[i].mhz
  BY <1>4
<1>8. t \in Seq(Raw)
  <2>1. \A i \in 1 .. Len(a) : t[i] \in Raw
    BY <1>4, <1>5, <1>6 DEF Raw
  <2>2. t = [i \in 1 .. Len(a) |-> t[i]]
    BY <1>4, <1>5
  <2> HIDE DEF t
  <2> QED
    BY <1>5, <2>1, <2>2
<1> HIDE DEF t
<1>9. Ascending(t)
  <2>1. ASSUME NEW j \in DOMAIN a, NEW l \in DOMAIN a, j < l PROVE a[j].mhz < a[l].mhz
    <3>1. PICK i \in I, m \in I : i < m /\ a[j] = OppNodes[i] /\ a[l] = OppNodes[m]
      BY <1>3, <2>1
    <3>2. i \in DOMAIN OppNodes /\ m \in DOMAIN OppNodes /\ OppNodes[i].bins \cap OppNodes[m].bins # {}
      BY <3>1
    <3>3. OppNodes[i].mhz < OppNodes[m].mhz
      BY <3>1, <3>2, DeviceTreeAssumption
    <3> QED
      BY <3>1, <3>3
  <2> QED
    BY <1>7, <2>1 DEF Ascending
<1>10. \A i \in DOMAIN t : t[i].mhz >= BootMhz /\ t[i].mhz >= SuspendMhz
  <2>1. ASSUME NEW j \in DOMAIN a PROVE a[j].mhz >= BootMhz /\ a[j].mhz >= SuspendMhz
    <3>1. PICK i \in I : a[j] = OppNodes[i]
      BY <1>3
    <3> QED
      BY <3>1, ChipAssumption
  <2> QED
    BY <1>7, <2>1
<1>11. \E i \in DOMAIN t : t[i].mhz <= InitialMhz
  <2>1. PICK i \in I : OppNodes[i].mhz <= InitialMhz
    BY ChipAssumption
  <2>2. PICK j \in DOMAIN a : a[j] = OppNodes[i]
    BY <1>3
  <2> QED
    BY <1>7, <2>1, <2>2
<1>12. t # <<>>
  BY <1>11
<1> QED
  BY <1>8, <1>9, <1>10, <1>11, <1>12 DEF RawTable, t

\* What is left of such a table under a limit that is one of its rates.
LEMMA KeptTable ==
  ASSUME NEW t, RawTable(t), NEW safe \in Nat, safe = 0 \/ \E i \in DOMAIN t : t[i].mhz = safe
  PROVE  RawTable(Kept(t, safe))
<1> DEFINE I == {i \in DOMAIN t : safe = 0 \/ t[i].mhz <= safe}
           a == Kept(t, safe)
<1>1. t \in Seq(Raw) /\ I \in SUBSET (DOMAIN t)
  BY DEF RawTable
<1>2. a = Picked(t, I)
  BY DEF Kept
<1> HIDE DEF a, I
<1>3. /\ a \in Seq(Raw)
      /\ \A j \in DOMAIN a : \E i \in I : a[j] = t[i]
      /\ \A i \in I : \E j \in DOMAIN a : a[j] = t[i]
      /\ \A j, l \in DOMAIN a : j < l => \E i, m \in I : i < m /\ a[j] = t[i] /\ a[l] = t[m]
  BY <1>1, <1>2, PickedEntries
<1> USE DEF I
<1>4. Ascending(a)
  <2>1. ASSUME NEW j \in DOMAIN a, NEW l \in DOMAIN a, j < l PROVE a[j].mhz < a[l].mhz
    <3>1. PICK i \in I, m \in I : i < m /\ a[j] = t[i] /\ a[l] = t[m]
      BY <1>3, <2>1
    <3>2. t[i].mhz < t[m].mhz
      BY <3>1 DEF RawTable, Ascending
    <3> QED
      BY <3>1, <3>2
  <2> QED
    BY <2>1 DEF Ascending
<1>5. \A j \in DOMAIN a : a[j].mhz >= BootMhz /\ a[j].mhz >= SuspendMhz
  <2>1. ASSUME NEW j \in DOMAIN a PROVE a[j].mhz >= BootMhz /\ a[j].mhz >= SuspendMhz
    <3>1. PICK i \in I : a[j] = t[i]
      BY <1>3
    <3>2. t[i].mhz >= BootMhz /\ t[i].mhz >= SuspendMhz
      BY DEF RawTable
    <3> QED
      BY <3>1, <3>2
  <2> QED
    BY <2>1
<1>6. \E i \in I : t[i].mhz <= InitialMhz
  <2>0. \A i \in DOMAIN t : t[i].mhz \in Nat
    <3>1. \A i \in DOMAIN t : t[i] \in Raw
      BY <1>1
    <3> QED
      BY <3>1 DEF Raw
  <2>1. PICK i \in DOMAIN t : t[i].mhz <= InitialMhz
    BY DEF RawTable
  <2>2. CASE safe = 0
    BY <2>1, <2>2
  <2>3. CASE safe # 0
    <3>1. PICK e \in DOMAIN t : t[e].mhz = safe
      BY <2>3
    <3>2. InitialMhz \in Nat
      BY DeviceAssumption
    <3>3. e \in I /\ (t[i].mhz <= safe => i \in I)
      BY <2>0, <3>1
    <3> QED
      BY <2>0, <2>1, <3>1, <3>2, <3>3
  <2> QED
    BY <2>2, <2>3
<1>7. \E j \in DOMAIN a : a[j].mhz <= InitialMhz
  BY <1>3, <1>6
<1>8. a # <<>>
  BY <1>7
<1> QED
  BY <1>3, <1>4, <1>5, <1>7, <1>8 DEF RawTable, a

-----------------------------------------------------------------------------
(* The port's table against the BSP's. *)

\* A limit that the BSP's loop sets is one of the table's rates.
LEMMA LimitIsRate ==
  ASSUME NEW t, NEW mv, NEW n \in Nat
  PROVE  LimitAfter(t, mv, n) = 0 \/ \E i \in 1 .. n : t[i].mhz = LimitAfter(t, mv, n)
<1> DEFINE Fits(k) == {i \in 1 .. k : mv[i] <= MaxMv /\ \A j \in 1 .. (i - 1) : mv[j] # MaxMv}
           Above == {k \in 1 .. n : SafeAfter(t, mv, k) # t[k].mhz}
           m == Topmost(Above)
<1>1. CASE Above = {}
  BY <1>1 DEF LimitAfter
<1>2. CASE Above # {}
  <2>1. LimitAfter(t, mv, n) = SafeAfter(t, mv, m)
    BY <1>2 DEF LimitAfter
  <2>2. m \in 1 .. n
    <3>1. Above \in SUBSET (1 .. n)
      OBVIOUS
    <3> HIDE DEF Above
    <3> QED
      BY <1>2, <3>1, LastMember
  <2> HIDE DEF m
  <2>3. SafeAfter(t, mv, m) = IF Fits(m) = {} THEN 0 ELSE t[Topmost(Fits(m))].mhz
    BY DEF SafeAfter, Topmost
  <2>4. CASE Fits(m) = {}
    BY <2>1, <2>3, <2>4
  <2>5. CASE Fits(m) # {}
    <3>1. Fits(m) \in SUBSET (1 .. m) /\ m \in Nat
      BY <2>2
    <3> HIDE DEF Fits
    <3>2. Topmost(Fits(m)) \in 1 .. m
      BY <2>5, <3>1, LastMember
    <3>3. Topmost(Fits(m)) \in 1 .. n
      BY <2>2, <3>2
    <3> QED
      BY <2>1, <2>3, <2>5, <3>3
  <2> QED
    BY <2>4, <2>5
<1> QED
  BY <1>1, <1>2

\* The BSP's first two passes over one operating point (rockchip_adjust_power_scale).
LEMMA PassesCorrect ==
  ASSUME NEW f \in Cells, Mbist(f) \in Nat, NEW table \in Seq(Raw)
  PROVE  LET t == MbistPass(OtpPass(table, f), f)
         IN DOMAIN t = DOMAIN table /\ \A i \in DOMAIN table : t[i] = Corrected(table[i], f)
<1> DEFINE u == OtpPass(table, f)
           t == MbistPass(u, f)
<1>1. f.add \in Nat /\ f.min \in Nat /\ f.max \in Nat
  BY DEF Cells
<1>2. \A i \in DOMAIN table : table[i] \in Raw
  OBVIOUS
<1>3. DOMAIN u = DOMAIN table
  BY DEF OtpPass
<1>4. ASSUME NEW i \in DOMAIN table PROVE u[i] = AddOtp(table[i], f) /\ u[i] \in Raw
  <2>1. ASSUME NEW o \in Raw
        PROVE  /\ AddOtp(o, f) \in Raw
               /\ AddOtp(o, f) = IF f.add # 0 /\ f.min <= o.mhz /\ o.mhz <= f.max
                                 THEN [o EXCEPT !.mv = IF @ + f.add > o.max THEN o.max
                                                       ELSE @ + f.add]
                                 ELSE o
    <3>1. o.mhz \in Nat /\ o.mv \in Nat /\ o.max \in Nat
      BY DEF Raw
    <3>2. (o.mhz \in f.min .. f.max) <=> (f.min <= o.mhz /\ o.mhz <= f.max)
      BY <1>1, <3>1
    <3>3. MinOf(o.mv + f.add, o.max) = IF o.mv + f.add > o.max THEN o.max ELSE o.mv + f.add
      BY <1>1, <3>1 DEF MinOf
    <3>4. AddOtp(o, f) = IF f.add # 0 /\ o.mhz \in f.min .. f.max
                         THEN [o EXCEPT !.mv = MinOf(o.mv + f.add, o.max)] ELSE o
      BY DEF AddOtp
    <3>5. MinOf(o.mv + f.add, o.max) \in Nat
      BY <1>1, <3>1 DEF MinOf
    <3>6. AddOtp(o, f) \in Raw
      BY <3>4, <3>5 DEF Raw
    <3>7. [o EXCEPT !.mv = IF @ + f.add > o.max THEN o.max ELSE @ + f.add]
            = [o EXCEPT !.mv = MinOf(o.mv + f.add, o.max)]
      BY <3>3
    <3> QED
      BY <3>2, <3>4, <3>6, <3>7
  <2>2. u[i] = IF f.add # 0 /\ f.min <= table[i].mhz /\ table[i].mhz <= f.max
               THEN [table[i] EXCEPT !.mv = IF @ + f.add > table[i].max THEN table[i].max
                                            ELSE @ + f.add]
               ELSE table[i]
    BY DEF OtpPass
  <2> QED
    BY <1>2, <2>1, <2>2
<1> HIDE DEF u
<1>5. CASE f.mbist = 0
  <2>1. t = u /\ Mbist(f) = 0
    BY <1>5 DEF MbistPass, Mbist
  <2>2. ASSUME NEW i \in DOMAIN table PROVE t[i] = Corrected(table[i], f)
    <3>1. u[i] \in Raw /\ u[i] = AddOtp(table[i], f)
      BY <1>4
    <3>2. ~(u[i].mv < 0)
      BY <3>1 DEF Raw
    <3>3. AtLeast(u[i], 0) = u[i]
      BY <3>2 DEF AtLeast
    <3> QED
      BY <2>1, <3>1, <3>3 DEF Corrected
  <2>3. DOMAIN t = DOMAIN table
    BY <1>3, <2>1
  <2> HIDE DEF t
  <2> QED
    BY <2>2, <2>3 DEF t, u
<1>6. CASE f.mbist # 0
  <2>1. /\ Mbist(f) = MbistCells[f.mbist]
        /\ t = [i \in DOMAIN u |-> IF u[i].mv < Mbist(f) THEN [u[i] EXCEPT !.mv = Mbist(f), !.min = Mbist(f)]
                                   ELSE u[i]]
    BY <1>6 DEF MbistPass, Mbist
  <2> HIDE DEF t
  <2>2. ASSUME NEW i \in DOMAIN table PROVE t[i] = Corrected(table[i], f)
    <3>1. t[i] = AtLeast(u[i], Mbist(f))
      BY <1>3, <2>1 DEF AtLeast
    <3> QED
      BY <1>4, <3>1 DEF Corrected
  <2>3. DOMAIN t = DOMAIN table
    BY <1>3, <2>1
  <2> QED
    BY <2>2, <2>3 DEF t, u
<1> QED
  BY <1>5, <1>6 DEF u

\* The third pass over one operating point.
LEMMA IrdropIsAtMost ==
  ASSUME MaxMv \in Nat, NEW o \in Raw
  PROVE  AtMost(o, MaxMv) =
           IF o.mv > MaxMv THEN [o EXCEPT !.mv = MaxMv, !.min = MaxMv, !.max = MaxMv]
           ELSE IF o.max > MaxMv THEN [o EXCEPT !.max = MaxMv] ELSE o
<1>1. o.mv \in Nat /\ o.max \in Nat
  BY DEF Raw
<1>2. CASE o.mv > MaxMv
  BY <1>1, <1>2 DEF AtMost
<1>3. CASE o.mv <= MaxMv /\ o.max > MaxMv
  <2>1. MinOf(o.max, MaxMv) = MaxMv
    BY <1>1, <1>3 DEF MinOf
  <2> QED
    BY <1>1, <1>3, <2>1 DEF AtMost
<1>4. CASE o.mv <= MaxMv /\ ~(o.max > MaxMv)
  <2>1. MinOf(o.max, MaxMv) = o.max
    BY <1>1, <1>4 DEF MinOf
  <2>2. [o EXCEPT !.max = o.max] = o
    BY DEF Raw
  <2> QED
    BY <1>1, <1>4, <2>1, <2>2 DEF AtMost
<1> QED
  BY <1>1, <1>2, <1>3, <1>4

\* k11c_vendor_adjust does in one loop what the BSP does in three passes, and finds
\* its safe_rate.
LEMMA AdjustIsBsp ==
  ASSUME NEW f \in Cells, Mbist(f) \in Nat, MaxMv \in Nat, NEW core, RawTable(core)
  PROVE  LET a == Adjust(core, f)
             t == MbistPass(OtpPass(core, f), f)
         IN /\ a.opps = IrdropPass(t)
            /\ a.safe = LimitOf(t, [i \in DOMAIN t |-> t[i].mv])
            /\ RawTable(a.opps)
            /\ a.safe \in Nat /\ (a.safe = 0 \/ \E i \in DOMAIN a.opps : a.opps[i].mhz = a.safe)
<1> DEFINE a == Adjust(core, f)
           t == MbistPass(OtpPass(core, f), f)
           mv == [i \in DOMAIN t |-> t[i].mv]
           n == Len(core)
<1>1. core \in Seq(Raw) /\ n \in Nat /\ DOMAIN core = 1 .. n /\ \A i \in 1 .. n : core[i] \in Raw
  BY DEF RawTable
<1>2. DOMAIN t = DOMAIN core /\ \A i \in DOMAIN core : t[i] = Corrected(core[i], f)
  BY <1>1, PassesCorrect
<1>3. \A o : IrdropPass(o) = [i \in DOMAIN o |->
         IF o[i].mv > MaxMv THEN [o[i] EXCEPT !.mv = MaxMv, !.min = MaxMv, !.max = MaxMv]
         ELSE IF o[i].max > MaxMv THEN [o[i] EXCEPT !.max = MaxMv] ELSE o[i]]
  BY DEF IrdropPass
<1> HIDE DEF t, n
<1>4. \A i \in DOMAIN core : mv[i] = t[i].mv
  BY <1>2
<1> HIDE DEF mv
<1>5. /\ a.opps = [i \in DOMAIN core |-> AtMost(t[i], MaxMv)]
      /\ a.safe = LimitAfter(t, mv, n)
      /\ a \in AdjustState
  <2>1. \A i \in DOMAIN core : t[i] = Corrected(core[i], f) /\ mv[i] = t[i].mv
    BY <1>2, <1>4
  <2>2. core \in Seq(Raw) /\ n = Len(core)
    BY <1>1 DEF n
  <2>3. Corrects(t, mv, core, f)
    BY <2>1 DEF Corrects
  <2> QED
    BY <2>2, <2>3, AdjustAfter
<1> HIDE DEF a
<1>6. \A i \in 1 .. n : /\ t[i] \in Raw /\ t[i].mhz = core[i].mhz
                        /\ AtMost(t[i], MaxMv) \in Raw /\ AtMost(t[i], MaxMv).mhz = core[i].mhz
  BY <1>1, <1>2, CorrectedType
<1>7. DOMAIN t = 1 .. Len(t) /\ Len(t) = n
  BY <1>1, <1>2
<1>8. a.safe = LimitOf(t, mv)
  BY <1>5, <1>7, LimitIsLast
<1>9. a.opps = IrdropPass(t)
  <2>1. \A i \in DOMAIN core : AtMost(t[i], MaxMv) =
          IF t[i].mv > MaxMv THEN [t[i] EXCEPT !.mv = MaxMv, !.min = MaxMv, !.max = MaxMv]
          ELSE IF t[i].max > MaxMv THEN [t[i] EXCEPT !.max = MaxMv] ELSE t[i]
    BY <1>1, <1>6, IrdropIsAtMost
  <2> QED
    BY <1>2, <1>3, <1>5, <2>1
<1>10. /\ a.opps \in Seq(Raw) /\ DOMAIN a.opps = 1 .. n
       /\ \A i \in 1 .. n : a.opps[i].mhz = core[i].mhz
  BY <1>1, <1>5, <1>6
<1>11. RawTable(a.opps)
  <2>1. Ascending(a.opps)
    BY <1>1, <1>10 DEF RawTable, Ascending
  <2>2. a.opps # <<>>
    <3>1. \E i \in DOMAIN core : TRUE
      BY DEF RawTable
    <3> QED
      BY <1>1, <1>10, <3>1
  <2> QED
    BY <1>1, <1>10, <2>1, <2>2 DEF RawTable
<1>12. a.safe \in Nat
  BY <1>5 DEF AdjustState
<1>13. a.safe = 0 \/ \E i \in DOMAIN a.opps : a.opps[i].mhz = a.safe
  <2>1. a.safe = 0 \/ \E i \in 1 .. n : t[i].mhz = a.safe
    BY <1>1, <1>5, LimitIsRate
  <2> QED
    BY <1>6, <1>10, <2>1
<1> QED
  BY <1>8, <1>9, <1>11, <1>12, <1>13 DEF a, t, mv

\* k11c_vendor_cold_table against rockchip_init_temp_opp_table and the limit of
\* rockchip_system_monitor.
LEMMA ColdIsBsp ==
  ASSUME MaxMv \in Nat, ColdDelta \in Nat, NEW t, RawTable(t)
  PROVE  LET c == ColdTable(t)
         IN /\ c.opps = [i \in DOMAIN t |->
                           [mhz |-> t[i].mhz, mv |-> t[i].mv, min |-> t[i].min, max |-> t[i].max,
                            cold |-> ColdMv(t)[i]]]
            /\ c.limit = LowLimit(t)
            /\ c.opps \in Seq(Point) /\ Ascending(c.opps)
            /\ c.limit = 0 \/ \E i \in DOMAIN c.opps : c.opps[i].mhz = c.limit
            /\ Len(c.opps) = Len(t) /\ \A i \in DOMAIN t : c.opps[i].mhz = t[i].mhz
<1> DEFINE c == ColdTable(t)
           mv == [i \in DOMAIN t |-> t[i].mv + ColdDelta]
           n == Len(t)
<1>1. t \in Seq(Raw) /\ n \in Nat /\ DOMAIN t = 1 .. n /\ \A i \in 1 .. n : t[i] \in Raw
  BY DEF RawTable
<1>2. \A i \in DOMAIN t : mv[i] = t[i].mv + ColdDelta
  OBVIOUS
<1>3. LowLimit(t) = LimitOf(t, mv)
  BY DEF LowLimit
<1> HIDE DEF mv
<1>4. /\ c.opps = [i \in DOMAIN t |-> WithCold(t[i])]
      /\ c.limit = LimitAfter(t, mv, n)
      /\ c \in ColdTableState
  BY <1>1, <1>2, ColdAfter
<1> HIDE DEF c
<1>5. c.limit = LowLimit(t)
  BY <1>1, <1>3, <1>4, LimitIsLast
<1>6. \A i \in DOMAIN t : WithCold(t[i]) = [mhz |-> t[i].mhz, mv |-> t[i].mv, min |-> t[i].min,
                                            max |-> t[i].max, cold |-> ColdMv(t)[i]]
  <2>1. ASSUME NEW i \in DOMAIN t
        PROVE  MinOf(t[i].mv + ColdDelta, MaxMv) = ColdMv(t)[i]
    <3>1. t[i].mv + ColdDelta \in Nat
      BY <1>1 DEF Raw
    <3>2. ColdMv(t)[i] = IF t[i].mv + ColdDelta <= MaxMv THEN t[i].mv + ColdDelta ELSE MaxMv
      BY DEF ColdMv
    <3> QED
      BY <3>1, <3>2 DEF MinOf
  <2> QED
    BY <2>1 DEF WithCold
<1>7. c.opps = [i \in DOMAIN t |-> [mhz |-> t[i].mhz, mv |-> t[i].mv, min |-> t[i].min,
                                    max |-> t[i].max, cold |-> ColdMv(t)[i]]]
  BY <1>4, <1>6
<1>8. /\ DOMAIN c.opps = 1 .. n /\ c.opps \in Seq(Point) /\ Len(c.opps) = n
      /\ \A i \in 1 .. n : c.opps[i].mhz = t[i].mhz
  BY <1>1, <1>4 DEF ColdTableState, WithCold
<1>9. Ascending(c.opps)
  BY <1>1, <1>8 DEF RawTable, Ascending
<1>10. c.limit = 0 \/ \E i \in DOMAIN c.opps : c.opps[i].mhz = c.limit
  BY <1>1, <1>4, <1>8, LimitIsRate
<1> QED
  BY <1>1, <1>5, <1>7, <1>8, <1>9, <1>10 DEF c

\* A chip that is not refused has the bin and the selector that the BSP finds
\* (k11c_vendor_bin and k11c_vendor_sel, rockchip_get_soc_info and rockchip_get_sel),
\* and a minimum that the device tree has.
LEMMA BinAndSelector ==
  ASSUME NEW f \in Cells, ~Refused(f)
  PROVE  /\ Bin(f) = BspBin(f) /\ Bin(f) \in 0 .. 2
         /\ Sel(10 * f.pvtm) = BspSel(f) /\ Sel(10 * f.pvtm) \in 0 .. 3
         /\ Mbist(f) \in Nat
<1>1. f.spec \in Nat /\ f.remark \in Nat /\ f.pvtm \in Nat /\ f.mbist \in Nat
  BY DEF Cells
<1>2. Bin(f) = BspBin(f) /\ Bin(f) \in 0 .. 2
  BY <1>1 DEF Bin, BspBin, Marks
<1>3. Sel(10 * f.pvtm) \in 0 .. 3
  BY DEF Refused
<1>4. Sel(10 * f.pvtm) = BspSel(f)
  <2>1. Sel(10 * f.pvtm) # -1
    BY <1>3
  <2>2. PvtmRows \in Seq(Row)
    BY DeviceTreeAssumption DEF Row
  <2>3. 10 * f.pvtm \in Nat
    BY <1>1
  <2> QED
    BY <2>1, <2>2, <2>3, SelIsBsp DEF BspSel, BspPvtm
<1>5. Mbist(f) \in Nat
  <2>1. MbistCells \in Seq(Nat) /\ ~(f.mbist > Len(MbistCells))
    BY DeviceTreeAssumption DEF Refused
  <2>2. f.mbist # 0 => f.mbist \in DOMAIN MbistCells
    BY <1>1, <2>1
  <2>3. f.mbist # 0 => MbistCells[f.mbist] \in Nat
    BY <2>1, <2>2
  <2> QED
    BY <2>3 DEF Mbist
<1> QED
  BY <1>2, <1>3, <1>4, <1>5

\* What k11c_vendor_prepare leaves of the device tree for a chip, against what the
\* BSP's init and adjust functions leave.
LEMMA PreparedIsBsp ==
  ASSUME NEW f \in Cells, ~Refused(f)
  PROVE  TableIsBsp(f) /\ Usable(Prepared(f)) /\ Ascending(Prepared(f).opps)
<1> DEFINE core == OppCore(Bin(f), Sel(10 * f.pvtm))
           a == Adjust(core, f)
           t == Kept(a.opps, a.safe)
           c == ColdTable(t)
<1>1. MaxMv \in Nat /\ ColdDelta \in Nat
  BY DeviceTreeAssumption
<1>2. RawTable(core) /\ core = BspOpps(f) /\ Mbist(f) \in Nat
  BY BinAndSelector, CoreTable DEF BspOpps
<1>3. Prepared(f) = [opps |-> c.opps, limit |-> c.limit]
  BY DEF Prepared
<1>4. /\ a.opps = IrdropPass(MbistPass(OtpPass(core, f), f))
      /\ a.safe = LimitOf(MbistPass(OtpPass(core, f), f),
                          [i \in DOMAIN MbistPass(OtpPass(core, f), f) |->
                             MbistPass(OtpPass(core, f), f)[i].mv])
      /\ RawTable(a.opps)
      /\ a.safe \in Nat /\ (a.safe = 0 \/ \E i \in DOMAIN a.opps : a.opps[i].mhz = a.safe)
  <2> HIDE DEF core
  <2> QED
    BY <1>1, <1>2, AdjustIsBsp
<1>5. t = BspTable(f)
  <2> HIDE DEF core, a
  <2> QED
    BY <1>2, <1>4 DEF BspTable
<1>6. RawTable(t)
  <2> HIDE DEF core, a
  <2> QED
    BY <1>4, KeptTable
<1> HIDE DEF core, a, t
<1>7. /\ c.opps = [i \in DOMAIN t |->
                     [mhz |-> t[i].mhz, mv |-> t[i].mv, min |-> t[i].min, max |-> t[i].max,
                      cold |-> ColdMv(t)[i]]]
      /\ c.limit = LowLimit(t)
      /\ c.opps \in Seq(Point) /\ Ascending(c.opps)
      /\ c.limit = 0 \/ \E i \in DOMAIN c.opps : c.opps[i].mhz = c.limit
      /\ Len(c.opps) = Len(t) /\ \A i \in DOMAIN t : c.opps[i].mhz = t[i].mhz
  BY <1>1, <1>6, ColdIsBsp
<1> HIDE DEF c
<1>8. TableIsBsp(f)
  BY <1>3, <1>5, <1>7 DEF TableIsBsp
<1>9. Ascending(Prepared(f).opps)
  BY <1>3, <1>7
<1>10. Usable(Prepared(f))
  <2>1. /\ DOMAIN c.opps = DOMAIN t /\ \E i \in DOMAIN t : TRUE
        /\ \A i \in DOMAIN t : t[i].mhz >= BootMhz /\ t[i].mhz >= SuspendMhz
        /\ \E i \in DOMAIN t : t[i].mhz <= InitialMhz
    BY <1>6, <1>7 DEF RawTable
  <2>2. /\ \E i \in DOMAIN c.opps : c.opps[i].mhz >= BootMhz
        /\ \E i \in DOMAIN c.opps : c.opps[i].mhz <= InitialMhz
        /\ \A i \in DOMAIN c.opps : c.opps[i].mhz >= SuspendMhz
    BY <1>7, <2>1
  <2>3. c.opps \in Seq([mhz : Nat, mv : Nat, min : Nat, max : Nat, cold : Nat])
    BY <1>7 DEF Point
  <2>4. Prepared(f).opps = c.opps /\ Prepared(f).limit = c.limit
    BY <1>3
  <2> QED
    BY <1>7, <2>2, <2>3, <2>4 DEF Usable
<1> QED
  BY <1>8, <1>9, <1>10

\* For any chip that is not refused, the port has the BSP's operating points, its
\* voltages in warm and in cold weather and its limit, and every request and every
\* adjustment of a live clock end at the BSP's rate and voltage (k11c_vendor_opp.c).
THEOREM PolicyOfChip ==
  ASSUME NEW f \in Cells, ~Refused(f)
  PROVE  TableIsBsp(f) /\ RatesAreBsp(f)
<1>1. TableIsBsp(f) /\ Usable(Prepared(f)) /\ Ascending(Prepared(f).opps)
  BY PreparedIsBsp
<1>2. Rates \subseteq Nat
  <2>1. \A i \in DOMAIN OppNodes : OppNodes[i].mhz \in Nat
    <3>1. OppNodes \in Seq(Node)
      BY DeviceTreeAssumption DEF Node
    <3>2. \A i \in DOMAIN OppNodes : OppNodes[i] \in Node
      BY <3>1
    <3> QED
      BY <3>2 DEF Node
  <2> QED
    BY <2>1, DeviceAssumption DEF Rates
<1> QED
  BY <1>1, <1>2, RatesAgree

\* Of the chips that the driver is given.
LEMMA UsableChip ==
  ASSUME NEW f \in FuseSet, ~Refused(f)
  PROVE  f \in Cells /\ Usable(Prepared(f)) /\ Ascending(Prepared(f).opps)
<1>1. f \in Cells
  BY ChipAssumption DEF Refused
<1> QED
  BY <1>1, PreparedIsBsp

-----------------------------------------------------------------------------
(* Voltages that rise with the rate. *)

\* The steps of a table before the cold voltages.
Rising(t) == \A i, j \in DOMAIN t : i < j => t[i].mv <= t[j].mv

\* The table of a bin and a selector rises with the device tree's, and its rates are
\* the device tree's.
LEMMA CoreRises ==
  ASSUME RisingNodes, NEW bin \in 0 .. 2, NEW sel \in 0 .. 3
  PROVE  LET t == OppCore(bin, sel)
         IN /\ \A j, l \in DOMAIN t : j < l => t[j].mv <= t[l].mv /\ t[j].max <= t[l].max
            /\ \A j \in DOMAIN t : /\ t[j].mv <= t[j].max
                                   /\ \E i \in DOMAIN OppNodes : t[j].mhz = OppNodes[i].mhz
<1> DEFINE I == {i \in DOMAIN OppNodes : bin \in OppNodes[i].bins}
           a == Allowed(bin)
           t == OppCore(bin, sel)
<1>1. OppNodes \in Seq(Node) /\ I \in SUBSET (DOMAIN OppNodes)
  BY DeviceTreeAssumption DEF Node
<1>2. a = Picked(OppNodes, I)
  BY DEF Allowed
<1> HIDE DEF a, I
<1>3. /\ \A j \in DOMAIN a : \E i \in I : a[j] = OppNodes[i]
      /\ \A j, l \in DOMAIN a : j < l => \E i, m \in I : i < m /\ a[j] = OppNodes[i] /\ a[l] = OppNodes[m]
  BY <1>1, <1>2, PickedEntries
<1> USE DEF I
<1>4. t = [i \in DOMAIN a |-> [mhz |-> a[i].mhz, mv |-> a[i].mv[sel],
                               min |-> a[i].mv[sel], max |-> a[i].max]]
  BY DEF OppCore, a
<1> HIDE DEF t
<1>5. DOMAIN t = DOMAIN a /\ \A i \in DOMAIN a : t[i].mhz = a[i].mhz /\ t[i].mv = a[i].mv[sel] /\ t[i].max = a[i].max
  BY <1>4
<1>6. ASSUME NEW j \in DOMAIN a, NEW l \in DOMAIN a, j < l
      PROVE  a[j].mv[sel] <= a[l].mv[sel] /\ a[j].max <= a[l].max
  <2>1. PICK i \in I, m \in I : i < m /\ a[j] = OppNodes[i] /\ a[l] = OppNodes[m]
    BY <1>3, <1>6
  <2>2. i \in DOMAIN OppNodes /\ m \in DOMAIN OppNodes /\ OppNodes[i].bins \cap OppNodes[m].bins # {}
    BY <2>1
  <2>3. OppNodes[i].mv[sel] <= OppNodes[m].mv[sel] /\ OppNodes[i].max <= OppNodes[m].max
    BY <2>1, <2>2 DEF RisingNodes
  <2> QED
    BY <2>1, <2>3
<1>7. ASSUME NEW j \in DOMAIN a
      PROVE  a[j].mv[sel] <= a[j].max /\ \E i \in DOMAIN OppNodes : a[j].mhz = OppNodes[i].mhz
  <2>1. PICK i \in I : a[j] = OppNodes[i]
    BY <1>3
  <2> QED
    BY <2>1 DEF RisingNodes
<1> QED
  BY <1>5, <1>6, <1>7 DEF t

\* Of two operating points, the correction, the minimum and the maximum keep the
\* order, if the higher one is corrected whenever the lower one is.
LEMMA CorrectedRises ==
  ASSUME NEW f \in Cells, Mbist(f) \in Nat, MaxMv \in Nat, NEW o \in Raw, NEW p \in Raw,
         o.mhz < p.mhz, o.mv <= p.mv, o.max <= p.max, p.mv <= p.max,
         f.add = 0 \/ (p.mhz >= f.min => p.mhz <= f.max)
  PROVE  AtMost(Corrected(o, f), MaxMv).mv <= AtMost(Corrected(p, f), MaxMv).mv
<1>1. f.add \in Nat /\ f.min \in Nat /\ f.max \in Nat
  BY DEF Cells
<1>2. /\ o.mhz \in Nat /\ o.mv \in Nat /\ o.max \in Nat
      /\ p.mhz \in Nat /\ p.mv \in Nat /\ p.max \in Nat
  BY DEF Raw
<1> DEFINE Added(q) == IF f.add # 0 /\ q.mhz \in f.min .. f.max THEN MinOf(q.mv + f.add, q.max) ELSE q.mv
           Raised(v) == IF v < Mbist(f) THEN Mbist(f) ELSE v
           Capped(v) == IF v <= MaxMv THEN v ELSE MaxMv
<1>3. \A q \in Raw : AddOtp(q, f).mv = Added(q) /\ DOMAIN AddOtp(q, f) = {"mhz", "mv", "min", "max"}
  BY DEF AddOtp, Raw
<1>4. \A q \in Raw : Corrected(q, f) = AtLeast(AddOtp(q, f), Mbist(f))
  BY DEF Corrected
<1>5. \A q \in Raw : AtMost(Corrected(q, f), MaxMv).mv = Capped(Raised(Added(q)))
  <2>1. ASSUME NEW q \in Raw PROVE AtMost(Corrected(q, f), MaxMv).mv = Capped(Raised(Added(q)))
    <3>1. AddOtp(q, f) \in Raw
      <4>1. q.mv \in Nat /\ q.max \in Nat
        BY DEF Raw
      <4>2. MinOf(q.mv + f.add, q.max) \in Nat
        BY <1>1, <4>1 DEF MinOf
      <4> QED
        BY <4>2 DEF AddOtp, Raw
    <3>2. PICK u \in Raw : u = AddOtp(q, f)
      BY <3>1
    <3>3. AtLeast(u, Mbist(f)).mv = Raised(u.mv) /\ AtLeast(u, Mbist(f)) \in Raw
      BY DEF AtLeast, Raw
    <3>4. PICK w \in Raw : w = AtLeast(u, Mbist(f))
      BY <3>3
    <3>5. AtMost(w, MaxMv).mv = Capped(w.mv)
      BY DEF AtMost, Raw
    <3>6. Corrected(q, f) = w
      BY <3>2, <3>4 DEF Corrected
    <3> HIDE DEF Capped, Raised, Added
    <3> QED
      BY <1>3, <3>2, <3>3, <3>4, <3>5, <3>6
  <2> QED
    BY <2>1
<1>6. Added(o) <= Added(p) /\ Added(o) \in Nat /\ Added(p) \in Nat
  BY <1>1, <1>2 DEF MinOf
<1> HIDE DEF Added
<1>7. Capped(Raised(Added(o))) <= Capped(Raised(Added(p)))
  BY <1>6
<1> QED
  BY <1>5, <1>7

\* A chip whose fuses correct upwards, in such a device tree, needs no more voltage
\* for an operating point than for a higher one, in warm and in cold weather.
LEMMA PreparedRises ==
  ASSUME RisingNodes, NEW f \in Cells, ~Refused(f), CorrectsUpwards(f)
  PROVE  LET t == Prepared(f).opps
         IN \A i, j \in DOMAIN t : i <= j => t[i].mv <= t[j].mv /\ t[i].cold <= t[j].cold
<1> DEFINE core == OppCore(Bin(f), Sel(10 * f.pvtm))
           a == Adjust(core, f)
           t == Kept(a.opps, a.safe)
           c == ColdTable(t)
           s == [i \in DOMAIN core |-> Corrected(core[i], f)]
           mv == [i \in DOMAIN core |-> s[i].mv]
           I == {i \in DOMAIN a.opps : a.safe = 0 \/ a.opps[i].mhz <= a.safe}
<1>1. MaxMv \in Nat /\ ColdDelta \in Nat
  BY DeviceTreeAssumption
<1>2. RawTable(core) /\ Mbist(f) \in Nat
  BY BinAndSelector, CoreTable
<1>3. Prepared(f).opps = c.opps
  BY DEF Prepared
<1>4. /\ \A j, l \in DOMAIN core : j < l => core[j].mv <= core[l].mv /\ core[j].max <= core[l].max
      /\ \A j \in DOMAIN core : /\ core[j].mv <= core[j].max
                                /\ \E i \in DOMAIN OppNodes : core[j].mhz = OppNodes[i].mhz
  BY BinAndSelector, CoreRises
<1> HIDE DEF core
<1>5. /\ core \in Seq(Raw) /\ \A i \in DOMAIN core : core[i] \in Raw
      /\ \A i, j \in DOMAIN core : i < j => core[i].mhz < core[j].mhz
  BY <1>2 DEF RawTable, Ascending
<1>6. Corrects(s, mv, core, f)
  BY DEF Corrects
<1> HIDE DEF s, mv
<1>7. a.opps = [i \in DOMAIN core |-> AtMost(s[i], MaxMv)] /\ a \in AdjustState
  BY <1>1, <1>2, <1>5, <1>6, AdjustAfter
<1> HIDE DEF a
<1>8. /\ a.opps \in Seq(Raw) /\ DOMAIN a.opps = DOMAIN core
      /\ \A i \in DOMAIN core : a.opps[i].mv = AtMost(Corrected(core[i], f), MaxMv).mv
  <2>1. a.opps \in Seq(Raw)
    BY <1>7 DEF AdjustState
  <2>2. \A i \in DOMAIN core : s[i] = Corrected(core[i], f)
    BY <1>6 DEF Corrects
  <2> QED
    BY <1>7, <2>1, <2>2
<1>9. Rising(a.opps)
  <2>1. ASSUME NEW i \in DOMAIN core, NEW j \in DOMAIN core, i < j
        PROVE  AtMost(Corrected(core[i], f), MaxMv).mv <= AtMost(Corrected(core[j], f), MaxMv).mv
    <3>1. core[i] \in Raw /\ core[j] \in Raw /\ core[i].mhz < core[j].mhz
      BY <1>5, <2>1
    <3>2. core[i].mv <= core[j].mv /\ core[i].max <= core[j].max /\ core[j].mv <= core[j].max
      BY <1>4, <2>1
    <3>3. f.add = 0 \/ (core[j].mhz >= f.min => core[j].mhz <= f.max)
      BY <1>4 DEF CorrectsUpwards
    <3> QED
      BY <1>1, <1>2, <3>1, <3>2, <3>3, CorrectedRises
  <2> QED
    BY <1>8, <2>1 DEF Rising
<1>10. t = Picked(a.opps, I)
  BY DEF Kept
<1>11. RawTable(t)
  <2>1. RawTable(a.opps) /\ a.safe \in Nat /\ (a.safe = 0 \/ \E i \in DOMAIN a.opps : a.opps[i].mhz = a.safe)
    BY <1>1, <1>2, AdjustIsBsp DEF a
  <2> QED
    BY <2>1, KeptTable
<1> HIDE DEF t
<1>12. Rising(t)
  <2>1. I \in SUBSET (DOMAIN a.opps)
    OBVIOUS
  <2> HIDE DEF I
  <2>2. \A j, l \in DOMAIN t : j < l =>
          \E i, m \in I : i < m /\ t[j] = a.opps[i] /\ t[l] = a.opps[m]
    <3> DEFINE list == a.opps
    <3>1. list \in Seq(Raw) /\ I \in SUBSET (DOMAIN list) /\ t = Picked(list, I)
      BY <1>8, <1>10, <2>1
    <3> HIDE DEF list
    <3>2. \A j, l \in DOMAIN t : j < l => \E i, m \in I : i < m /\ t[j] = list[i] /\ t[l] = list[m]
      BY <3>1, PickedEntries
    <3> QED
      BY <3>2 DEF list
  <2>3. ASSUME NEW j \in DOMAIN t, NEW l \in DOMAIN t, j < l PROVE t[j].mv <= t[l].mv
    <3>1. PICK i \in I, m \in I : i < m /\ t[j] = a.opps[i] /\ t[l] = a.opps[m]
      BY <2>2, <2>3
    <3>2. a.opps[i].mv <= a.opps[m].mv
      BY <1>9, <2>1, <3>1 DEF Rising
    <3> QED
      BY <3>1, <3>2
  <2> QED
    BY <2>3 DEF Rising
<1>13. /\ t \in Seq(Raw) /\ DOMAIN t = 1 .. Len(t) /\ Len(t) \in Nat
       /\ \A i \in DOMAIN t : t[i].mv \in Nat
  <2>1. t \in Seq(Raw) /\ \A i \in DOMAIN t : t[i] \in Raw
    BY <1>11 DEF RawTable
  <2> QED
    BY <2>1 DEF Raw
<1>14. c.opps = [i \in DOMAIN t |->
                   [mhz |-> t[i].mhz, mv |-> t[i].mv, min |-> t[i].min, max |-> t[i].max,
                    cold |-> ColdMv(t)[i]]]
  BY <1>1, <1>11, ColdIsBsp
<1> HIDE DEF c
<1>15. /\ DOMAIN c.opps = DOMAIN t
       /\ \A i \in DOMAIN t : c.opps[i].mv = t[i].mv /\ c.opps[i].cold = ColdMv(t)[i]
  BY <1>14
<1>16. \A i \in DOMAIN t : ColdMv(t)[i] = IF t[i].mv + ColdDelta <= MaxMv THEN t[i].mv + ColdDelta
                                          ELSE MaxMv
  BY DEF ColdMv
<1>17. ASSUME NEW i \in DOMAIN t, NEW j \in DOMAIN t, i <= j
       PROVE  t[i].mv <= t[j].mv /\ ColdMv(t)[i] <= ColdMv(t)[j]
  <2>1. t[i].mv <= t[j].mv
    <3>1. i = j \/ i < j
      BY <1>13, <1>17
    <3> QED
      BY <1>12, <1>13, <3>1 DEF Rising
  <2> QED
    BY <1>1, <1>13, <1>16, <2>1
<1> QED
  BY <1>3, <1>15, <1>17

\* So VoltagesFirst's condition holds of any chips of which every correction reaches
\* the top rate.
THEOREM TablesRise ==
  ASSUME RisingNodes, \A f \in Followed : ~Refused(f) => CorrectsUpwards(f)
  PROVE  RisingTables
BY PreparedRises, UsableChip, DeviceAssumption DEF RisingTables

=============================================================================
