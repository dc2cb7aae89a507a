---------------------------- MODULE MCNpuDevice ----------------------------
(* Instance of NpuDevice for TLC: the K11C's device tree (the nodes of          *)
(* rk3566-kickpi-k11c.dts), a set of chips that covers every bin, both sides of *)
(* every selector bound, every minimum, five corrections and the refusals, and  *)
(* three of them followed through the life of the device.                       *)
EXTENDS NpuDevice

Level(l0, l1, l2, l3) == [s \in 0..3 |-> <<l0, l1, l2, l3>>[s + 1]]
Node(mhz, bins, mv) == [mhz |-> mhz, bins |-> bins, mv |-> mv, max |-> 1000]
NotJ == {0, 1}

MCOppNodes == <<Node(200, NotJ, Level(850, 850, 850, 850)),
                Node(300, NotJ, Level(850, 850, 850, 850)),
                Node(400, NotJ, Level(850, 850, 850, 850)),
                Node(600, NotJ, Level(850, 850, 850, 850)),
                Node(600, {2},  Level(900, 900, 900, 900)),
                Node(700, NotJ, Level(875, 850, 850, 850)),
                Node(800, NotJ, Level(925, 900, 875, 875)),
                Node(900, {0},  Level(975, 950, 925, 900)),
                Node(900, {1},  Level(925, 925, 925, 925))>>

Row(from, sel) == [from |-> from, sel |-> sel]
MCPvtmRows == <<Row(0, 0), Row(84001, 1), Row(87001, 2), Row(91001, 3)>>
MCMbistCells == <<825, 900, 950>>

Chip(spec, remark, pvtm, mbist, info) ==
  [readable |-> TRUE, spec |-> spec, remark |-> remark, pvtm |-> pvtm, mbist |-> mbist,
   min |-> info[1], max |-> info[2], add |-> info[3]]

Plain == <<0, 0, 0>>
Unreadable == [Chip(0, 0, 8400, 0, Plain) EXCEPT !.readable = FALSE]
Marked == {<<0, 0>>, <<13, 0>>, <<10, 0>>, <<13, 10>>, <<10, 13>>, <<3, 7>>}
Pvtms == {0, 1, 8400, 8401, 8700, 8701, 9100, 9101, 65535}
Infos == {Plain, <<600, 900, 50>>, <<0, 2000, 25>>, <<700, 800, 125>>, <<200, 200, 150>>,
          <<200, 900, 255>>}

MCFuseSet == {Unreadable} \cup {Chip(m[1], m[2], p, b, i) :
                                  m \in Marked, p \in Pvtms, b \in 0..4, i \in Infos}

\* L0 has a limit in cold weather; J has a single operating point, and no limit; a
\* blank chip is refused.
MCFollowed == {Chip(0, 0, 8400, 0, Plain), Chip(10, 0, 8401, 0, Plain),
               Chip(0, 0, 0, 0, Plain)}

\* L1 has no limit in cold weather.
MCResumed == {Chip(0, 0, 8401, 0, Plain)}

\* The chips that are followed meet the hypothesis of NpuDeviceProofs!VoltagesFirst,
\* and the device tree and the chips those of VendorPolicyProofs!TablesRise.
ASSUME FollowedRising == /\ RisingTables /\ RisingNodes
                         /\ \A f \in Followed : CorrectsUpwards(f)

MCTemps == {-5000, 4000, 6000, 7000, NoSample}
=============================================================================
