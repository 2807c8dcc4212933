-------------------------- MODULE LowDelay_proofs --------------------------
(***************************************************************************)
(* Proofs about LowDelay for every configuration, every length of the      *)
(* stream and every number of failed calls: references stay inside their   *)
(* GOP (LdRefsWithinGop), encoder and decoder stay in step as long as no   *)
(* call fails (LdReferencesInSync), the damage of a failed call is behind  *)
(* it and in front of the next key frame (DamageIsLocal), and CBR has      *)
(* references for every picture of up to two levels (CbrServesTwoLevels).  *)
(* Without failed calls the long-term reference is renewed in time         *)
(* (LongTermRenewed), two buffers suffice where the configuration has two  *)
(* (TwoBuffersSuffice), and CBR's layers nest (CbrLayersNest).             *)
(***************************************************************************)
EXTENDS LowDelay, SequenceTheorems, FiniteSetTheorems, TLAPS

-----------------------------------------------------------------------------
(* The inductive invariant.                                                 *)

\* The fields of the decision state.
Decision(pd) ==
  /\ DOMAIN pd = {"position", "after_key", "prev_hier", "lay0", "lay1", "dpb", "base", "alt",
                  "ok", "last_idr", "long_base"}
  /\ pd.lay0 \in 0..2
  /\ pd.lay1 \in 0..2
  /\ gop.rc = "cbr" => pd.lay1 \in 0..1
  /\ pd.dpb \in [Slots -> Nat]

\* The fields of a picture before its references are decided.
Walked(pic) ==
  DOMAIN pic = {"poc", "key", "hier", "cut_short", "layer", "pic_idx", "frame_offset"}

\* What the properties read of a decided picture.
Decided(pic) ==
  /\ pic.poc = frame_count
  /\ pic.key = IsKeyFrame(gop, frame_count)
  /\ pic.key => pic.refs = <<>> /\ pic.refresh = Slots
  /\ ~pic.key => Len(pic.refs) = 7

LdType ==
  /\ gop \in LdConfigs
  /\ frame_count \in Nat
  /\ failed \in Seq(Nat)
  /\ stage \in {"idle", "decided", "coded"}
  /\ Decision(pd_ctx)
  /\ DOMAIN dpb = Slots
  /\ DOMAIN dec.slots = Slots
  /\ stage # "idle" => Decided(coding)

\* Every slot holds a picture of the GOP, an earlier one unless the call of the next
\* has already failed once.
SlotsInGop ==
  /\ pd_ctx.last_idr \in Nat
  /\ \A s \in Slots :
       /\ pd_ctx.last_idr <= pd_ctx.dpb[s] /\ pd_ctx.dpb[s] <= frame_count
       /\ \/ pd_ctx.dpb[s] < frame_count
          \/ frame_count = 0
          \/ frame_count \in Range(failed)
          \/ stage # "idle"

\* Each failed call is behind a key frame returned since.
Healed ==
  \A q \in Range(failed) : \E k \in q..(frame_count - 1) : IsKeyFrame(gop, k)

\* The slots behind a picture's packet.
Refreshed(slots, pic) == [s \in Slots |-> IF s \in pic.refresh THEN pic.poc ELSE slots[s]]

\* Behind a key frame the decision's, the encoder's and the decoder's buffers agree,
\* but for what the call in progress has changed so far.
InStep ==
  /\ stage = "idle" /\ Healed =>
       dec.slots = dpb /\ (frame_count # 0 => pd_ctx.dpb = dpb)
  /\ stage # "idle" /\ coding.key => pd_ctx.dpb = [s \in Slots |-> coding.poc]
  /\ stage # "idle" /\ ~coding.key /\ Healed =>
       /\ RefsMatch(dec.slots, coding)
       /\ pd_ctx.dpb = Refreshed(dec.slots, coding)
       /\ stage = "decided" => dpb = dec.slots
  /\ stage = "coded" /\ (coding.key \/ Healed) => dpb = pd_ctx.dpb

\* No call of a later picture has failed.
FailedSoFar == \A q \in Range(failed) : q <= frame_count

\* The walk stays inside the mini-GOP; the tables are read for up to two levels.
PositionInMg ==
  gop.hierarchical_levels <= 2 => pd_ctx.position \in 0..(2 ^ gop.hierarchical_levels - 1)

LdIInv ==
  /\ LdType
  /\ SlotsInGop
  /\ LdRefsWithinGop
  /\ FailedSoFar
  /\ PositionInMg
  /\ InStep
  /\ DamageIsLocal

-----------------------------------------------------------------------------
(* Records and sequences.                                                   *)

\* What a decided picture has from the walk, and from the decision.
LEMMA DecidedFields ==
  ASSUME NEW pic, NEW more, NEW p, p = WithFields(pic, more),
         Walked(pic),
         {"refs", "ref_pocs", "refresh"} \subseteq DOMAIN more
  PROVE  /\ p.poc = pic.poc /\ p.key = pic.key
         /\ p.refs = more.refs /\ p.ref_pocs = more.ref_pocs /\ p.refresh = more.refresh
BY DEF WithFields, Walked

\* A call that fails adds its picture to those of failed calls.
LEMMA OneMoreFailed ==
  ASSUME NEW q \in Seq(Nat), NEW n \in Nat
  PROVE  Append(q, n) \in Seq(Nat) /\ Range(Append(q, n)) = Range(q) \cup {n}
<1>1. Append(q, n) \in Seq(Nat) /\ Len(Append(q, n)) = Len(q) + 1
  OBVIOUS
<1>2. /\ \A i \in 1..Len(q) : Append(q, n)[i] = q[i]
      /\ Append(q, n)[Len(q) + 1] = n
  OBVIOUS
<1>3. DOMAIN q = 1..Len(q) /\ DOMAIN Append(q, n) = 1..(Len(q) + 1) /\ Len(q) \in Nat
  BY <1>1
<1>4. Range(Append(q, n)) \subseteq Range(q) \cup {n}
  BY <1>2, <1>3 DEF Range
<1>5. Range(q) \cup {n} \subseteq Range(Append(q, n))
  BY <1>2, <1>3 DEF Range
<1>. QED
  BY <1>1, <1>4, <1>5

\* Failed pictures are display orders.
LEMMA FailedAreNat ==
  ASSUME NEW q \in Seq(Nat) PROVE Range(q) \subseteq Nat
BY DEF Range

-----------------------------------------------------------------------------
(* The decision.                                                            *)

\* What a walk does: rings and slots stay, the last key frame is noted.
WalkEffect(pd, n, walk) ==
  /\ Decision(walk.pd)
  /\ walk.pd.dpb = pd.dpb
  /\ walk.pd.last_idr = IF IsKeyFrame(gop, n) THEN n ELSE pd.last_idr
  /\ walk.pd.position = NextPosition(pd, IsKeyFrame(gop, n), FALSE, 2 ^ gop.hierarchical_levels)
  /\ Walked(walk.pic)
  /\ walk.pic.poc = n
  /\ walk.pic.key = IsKeyFrame(gop, n)

LEMMA WalkKeeps ==
  ASSUME NEW pd, Decision(pd), NEW n \in Nat, gop \in LdConfigs,
         NEW walk, walk = WalkPosition(gop, pd, n)
  PROVE  WalkEffect(pd, n, walk)
<1>. DEFINE pos == NextPosition(pd, IsKeyFrame(gop, n), FALSE, 2 ^ gop.hierarchical_levels)
            key == IsKeyFrame(gop, n)
            idr == IF key THEN n ELSE pd.last_idr
<1>1. walk.pd = [pd EXCEPT !.position = pos, !.after_key = key, !.last_idr = idr]
  BY DEF WalkPosition
<1>2. /\ Walked(walk.pic)
      /\ walk.pic.poc = n /\ walk.pic.key = key
  BY DEF WalkPosition, Walked
<1>. HIDE DEF pos, key
<1>3. /\ DOMAIN walk.pd = DOMAIN pd
      /\ walk.pd.lay0 = pd.lay0 /\ walk.pd.lay1 = pd.lay1 /\ walk.pd.dpb = pd.dpb
      /\ walk.pd.last_idr = idr /\ walk.pd.position = pos
  BY <1>1 DEF Decision
<1>4. Decision(walk.pd)
  BY <1>3 DEF Decision
<1>. QED
  BY <1>2, <1>3, <1>4 DEF key, pos, WalkEffect

\* The walk goes round the mini-GOP.
LEMMA WalkStaysInMg ==
  ASSUME NEW pd, NEW key, NEW entries \in Nat \ {0}, pd.position \in 0..(entries - 1)
  PROVE  NextPosition(pd, key, FALSE, entries) \in 0..(entries - 1)
<1>. DEFINE stepped == CASE key                               -> 0
                         [] ~key /\ pd.after_key              -> 1
                         [] ~key /\ ~pd.after_key /\ FALSE    -> 1
                         [] OTHER                             -> pd.position + 1
<1>1. stepped \in {0, 1, pd.position + 1}
  OBVIOUS
<1>2. NextPosition(pd, key, FALSE, entries) = IF stepped = entries THEN 0 ELSE stepped
  BY DEF NextPosition
<1>. HIDE DEF stepped
<1>3. stepped \in 0..entries
  BY <1>1
<1>4. CASE stepped = entries
  <2>1. NextPosition(pd, key, FALSE, entries) = 0
    BY <1>2, <1>4
  <2>2. 0 \in 0..(entries - 1)
    OBVIOUS
  <2>. QED
    BY <2>1, <2>2
<1>5. CASE stepped # entries
  <2>1. NextPosition(pd, key, FALSE, entries) = stepped
    BY <1>2, <1>5
  <2>2. stepped \in 0..(entries - 1)
    BY <1>3, <1>5
  <2>. QED
    BY <2>1, <2>2
<1>. QED
  BY <1>4, <1>5

\* Up to two levels a mini-GOP has 1, 2 or 4 positions.
LEMMA FewLevels ==
  ASSUME NEW h \in Nat, h <= 2
  PROVE  /\ h \in {0, 1, 2}
         /\ 2 ^ 0 = 1 /\ 2 ^ 1 = 2 /\ 2 ^ 2 = 4
         /\ 2 ^ h \in Nat \ {0}
<1>1. h \in {0, 1, 2}
  OBVIOUS
<1>2. 2 ^ 0 = 1 /\ 2 ^ 1 = 2 /\ 2 ^ 2 = 4
  OBVIOUS
<1>3. 2 ^ h \in {1, 2, 4}
  <2>1. CASE h = 0
    BY <1>2, <2>1
  <2>2. CASE h = 1
    BY <1>2, <2>2
  <2>3. CASE h = 2
    BY <1>2, <2>3
  <2>. QED
    BY <1>1, <2>1, <2>2, <2>3
<1>. QED
  BY <1>1, <1>2, <1>3

\* A key frame takes all eight slots.
KeyEffect(pd, pic, d) ==
  /\ Decision(d.pd)
  /\ d.pd.last_idr = pd.last_idr /\ d.pd.position = pd.position
  /\ d.pd.dpb = [s \in Slots |-> pic.poc]
  /\ d.pic.poc = pic.poc /\ d.pic.key = pic.key
  /\ d.pic.refs = <<>> /\ d.pic.refresh = Slots

LEMMA KeyDecided ==
  ASSUME NEW pd, Decision(pd), NEW pic, Walked(pic), pic.poc \in Nat,
         NEW d, d = DecideKey(pd, pic)
  PROVE  KeyEffect(pd, pic, d)
<1>. DEFINE more == [refs |-> <<>>, ref_pocs |-> <<>>, list0 |-> 0, list1 |-> 0,
                     refresh |-> Slots, show |-> TRUE, show_existing |-> NoSlot]
            all == [s \in Slots |-> pic.poc]
<1>1. /\ d.pd = [pd EXCEPT !.lay0 = 0, !.lay1 = 0, !.dpb = all]
      /\ d.pic = WithFields(pic, more)
  BY DEF DecideKey
<1>2. /\ more.refs = <<>> /\ more.refresh = Slots
      /\ DOMAIN more = {"refs", "ref_pocs", "list0", "list1", "refresh", "show",
                        "show_existing"}
  OBVIOUS
<1>3. all \in [Slots -> Nat]
  OBVIOUS
<1>. HIDE DEF more, all
<1>4. /\ DOMAIN d.pd = DOMAIN pd
      /\ d.pd.lay0 = 0 /\ d.pd.lay1 = 0 /\ d.pd.dpb = all
      /\ d.pd.last_idr = pd.last_idr /\ d.pd.position = pd.position
  BY <1>1 DEF Decision
<1>5. Decision(d.pd)
  BY <1>3, <1>4 DEF Decision
<1>6. /\ d.pic.poc = pic.poc /\ d.pic.key = pic.key
      /\ d.pic.refs = more.refs /\ d.pic.refresh = more.refresh
  BY <1>1, <1>2, DecidedFields
<1>. QED
  BY <1>2, <1>4, <1>5, <1>6 DEF all, KeyEffect

\* Every entry of a row is a slot.
LEMMA LowDelayRowsAreSlots ==
  ASSUME NEW pd, Decision(pd), gop \in LdConfigs, NEW pic, NEW i \in 1..7
  PROVE  LowDelayRow(gop, pd, pic)[i] \in Slots
<1>. DEFINE reduce  == gop.mrp.ld_reduce_ref_buffs
            base1   == CircDec(pd.lay0, 0, 2)
            offset  == IF reduce = 0 THEN LAY1_OFF ELSE 1
            lay1_2  == IF reduce = 2 THEN 1 ELSE offset + pd.lay1
            lay1_1  == CircDec(lay1_2, offset, offset + 2)
            base0   == CircDec(base1, 0, 2)
            lay1_0  == CircDec(lay1_1, offset, offset + 2)
<1>1. pd.lay0 \in 0..2 /\ pd.lay1 \in 0..2
  BY DEF Decision
<1>2. base1 \in 0..2
  BY <1>1 DEF CircDec
<1>3. base0 \in 0..2
  BY <1>2 DEF CircDec
<1>4. offset \in {1, 3}
  BY DEF LAY1_OFF
<1>5. lay1_2 \in offset..(offset + 2)
  BY <1>1, <1>4, LdAssumption
<1>6. lay1_1 \in offset..(offset + 2)
  BY <1>4, <1>5 DEF CircDec
<1>7. lay1_0 \in offset..(offset + 2)
  BY <1>4, <1>6 DEF CircDec
<1>. HIDE DEF reduce, base1, base0, offset, lay1_2, lay1_1, lay1_0
<1>8. /\ pd.lay0 \in Slots /\ base1 \in Slots /\ base0 \in Slots
      /\ lay1_2 \in Slots /\ lay1_1 \in Slots /\ lay1_0 \in Slots /\ LONG_BASE_IDX \in Slots
  BY <1>1, <1>2, <1>3, <1>4, <1>5, <1>6, <1>7 DEF Slots, LONG_BASE_IDX
<1>9. \E first \in {lay1_2, pd.lay0} :
        LowDelayRow(gop, pd, pic) = <<first, lay1_1, LONG_BASE_IDX, base0, lay1_2, lay1_0, base1>>
  BY DEF LowDelayRow, reduce, base1, base0, offset, lay1_2, lay1_1, lay1_0
<1>. QED
  BY <1>8, <1>9

LEMMA CbrRowsAreSlots ==
  ASSUME NEW pd, Decision(pd), gop \in LdConfigs, gop.rc = "cbr", NEW pic, NEW i \in 1..7
  PROVE  CbrRow(gop, pd, pic)[i] \in Slots
<1>. DEFINE base1  == CircDec(pd.lay0, 0, 2)
            base0  == CircDec(base1, 0, 2)
            lay1_1 == CbrLayer1(gop, pd)
            lay1_0 == CircDec(lay1_1, LAY1_OFF, LAY1_OFF + 1)
<1>1. pd.lay0 \in 0..2 /\ pd.lay1 \in 0..1
  BY DEF Decision
<1>2. base1 \in 0..2
  BY <1>1 DEF CircDec
<1>3. base0 \in 0..2
  BY <1>2 DEF CircDec
<1>4. lay1_1 \in 0..4
  <2>1. CASE gop.mrp.ld_reduce_ref_buffs = 2
    <3>1. lay1_1 \in {0, 1}
      BY <2>1 DEF CbrLayer1
    <3>. QED
      BY <3>1
  <2>2. CASE gop.mrp.ld_reduce_ref_buffs = 1
    <3>1. lay1_1 = 3
      BY <2>2 DEF CbrLayer1, LAY1_OFF
    <3>. QED
      BY <3>1
  <2>3. CASE gop.mrp.ld_reduce_ref_buffs \notin {1, 2}
    <3>1. lay1_1 = 3 + pd.lay1
      BY <2>3 DEF CbrLayer1, LAY1_OFF
    <3>. QED
      BY <1>1, <3>1
  <2>. QED
    BY <2>1, <2>2, <2>3
<1>5. lay1_0 \in 3..4
  BY <1>4 DEF CircDec, LAY1_OFF
<1>. HIDE DEF base1, base0, lay1_1, lay1_0
<1>6. /\ pd.lay0 \in Slots /\ base1 \in Slots /\ base0 \in Slots
      /\ lay1_1 \in Slots /\ lay1_0 \in Slots /\ LONG_BASE_IDX \in Slots
  BY <1>1, <1>2, <1>3, <1>4, <1>5 DEF Slots, LONG_BASE_IDX
<1>. DEFINE scheme0 == pic.layer = 1 /\ pic.hier = 1 /\ gop.mrp.referencing_scheme = 0
            list0 == CASE pic.layer = 0 /\ pic.hier = 1 ->
                            <<pd.lay0, base1, LONG_BASE_IDX, base0>>
                       [] pic.layer = 0 /\ pic.hier # 1 ->
                            <<pd.lay0, base0, LONG_BASE_IDX, pd.lay0>>
                       [] pic.layer = 1 /\ pic.hier = 1 /\ gop.mrp.referencing_scheme = 0 ->
                            <<pd.lay0, base1, base1, pd.lay0>>
                       [] pic.layer = 2 /\ pic.pic_idx = 2 -> <<lay1_1, pd.lay0, lay1_0, lay1_1>>
                       [] OTHER -> <<pd.lay0, lay1_1, base1, pd.lay0>>
<1>7. \E a, b, c, d \in {pd.lay0, base1, base0, lay1_1, lay1_0, LONG_BASE_IDX} :
        list0 = <<a, b, c, d>>
  <2>1. CASE pic.layer = 0 /\ pic.hier = 1
    <3>1. list0 = <<pd.lay0, base1, LONG_BASE_IDX, base0>>
      BY <2>1
    <3>. QED
      BY <3>1
  <2>2. CASE pic.layer = 0 /\ pic.hier # 1
    <3>1. list0 = <<pd.lay0, base0, LONG_BASE_IDX, pd.lay0>>
      BY <2>2
    <3>. QED
      BY <3>1
  <2>3. CASE scheme0
    <3>1. list0 = <<pd.lay0, base1, base1, pd.lay0>>
      BY <2>3
    <3>. QED
      BY <3>1
  <2>4. CASE pic.layer = 2 /\ pic.pic_idx = 2
    <3>1. list0 = <<lay1_1, pd.lay0, lay1_0, lay1_1>>
      BY <2>4
    <3>. QED
      BY <3>1
  <2>5. CASE pic.layer # 0 /\ ~scheme0 /\ ~(pic.layer = 2 /\ pic.pic_idx = 2)
    <3>1. list0 = <<pd.lay0, lay1_1, base1, pd.lay0>>
      BY <2>5
    <3>. QED
      BY <3>1
  <2>. QED
    BY <2>1, <2>2, <2>3, <2>4, <2>5
<1>. HIDE DEF list0
<1>8. CbrRow(gop, pd, pic) = list0 \o <<list0[1], list0[1], list0[1]>>
  BY DEF CbrRow, base1, base0, lay1_1, lay1_0, list0
<1>9. ASSUME NEW a \in Slots, NEW b \in Slots, NEW c \in Slots, NEW d \in Slots
      PROVE  (<<a, b, c, d>> \o <<a, a, a>>)[i] \in Slots
  OBVIOUS
<1>10. PICK a, b, c, d \in Slots : list0 = <<a, b, c, d>>
  BY <1>6, <1>7
<1>11. CbrRow(gop, pd, pic) = <<a, b, c, d>> \o <<a, a, a>>
  BY <1>8, <1>10
<1>. QED
  BY <1>9, <1>11

\* Pruning folds entries onto entries.
LEMMA PruningFolds ==
  ASSUME NEW counts, NEW i \in 1..7
  PROVE  PrunedEntry(counts)[i] \in 1..7
BY DEF PrunedEntry, LAST, LAST2, LAST3, GOLD, BWD, ALT2, ALT

\* The rings stay in their ranges, under CQP and under CBR.
LEMMA RefreshKeepsRings ==
  ASSUME NEW pd, Decision(pd), gop \in LdConfigs, NEW pic, NEW is_ref,
         NEW fresh, fresh = IF gop.rc = "cbr" THEN CbrRefresh(gop, pd, pic, is_ref)
                                              ELSE LowDelayRefresh(gop, pd, pic, is_ref)
  PROVE  /\ fresh.lay0 \in 0..2
         /\ fresh.lay1 \in 0..2
         /\ gop.rc = "cbr" => fresh.lay1 \in 0..1
<1>1. pd.lay0 \in 0..2 /\ pd.lay1 \in 0..2 /\ (gop.rc = "cbr" => pd.lay1 \in 0..1)
  BY DEF Decision
<1>2. CASE gop.rc = "cbr"
  <2>1. /\ fresh.lay0 \in {pd.lay0, CircInc(pd.lay0, 0, 2)}
        /\ fresh.lay1 \in {pd.lay1, 1 - pd.lay1}
    BY <1>2 DEF CbrRefresh
  <2>. QED
    BY <1>1, <1>2, <2>1 DEF CircInc
<1>3. CASE gop.rc # "cbr"
  <2>1. /\ fresh.lay0 \in {pd.lay0, CircInc(pd.lay0, 0, 2)}
        /\ fresh.lay1 \in {pd.lay1, CircInc(pd.lay1, 0, 2)}
    BY <1>3 DEF LowDelayRefresh
  <2>. QED
    BY <1>1, <1>3, <2>1 DEF CircInc
<1>. QED
  BY <1>2, <1>3

\* An inter picture predicts from what its slots hold when it is decided.
InterEffect(pd, pic, d) ==
  /\ Decision(d.pd)
  /\ d.pd.last_idr = pd.last_idr /\ d.pd.position = pd.position
  /\ d.pd.dpb = [s \in Slots |-> IF s \in d.pic.refresh THEN pic.poc ELSE pd.dpb[s]]
  /\ d.pic.poc = pic.poc /\ d.pic.key = pic.key
  /\ Len(d.pic.refs) = 7
  /\ \A r \in 1..7 : /\ d.pic.refs[r] \in Slots
                      /\ d.pic.ref_pocs[r] = pd.dpb[d.pic.refs[r]]

LEMMA InterDecided ==
  ASSUME NEW pd, Decision(pd), gop \in LdConfigs, NEW pic, Walked(pic), pic.poc \in Nat,
         NEW d, d = DecideLowDelay(gop, pd, pic)
  PROVE  InterEffect(pd, pic, d)
<1>. DEFINE slots  == IF gop.rc = "cbr" THEN CbrRow(gop, pd, pic) ELSE LowDelayRow(gop, pd, pic)
            is_ref == IsPicUsedAsRef(pic.hier, pic.layer, pic.pic_idx, gop.mrp.referencing_scheme)
            fresh  == IF gop.rc = "cbr" THEN CbrRefresh(gop, pd, pic, is_ref)
                                        ELSE LowDelayRefresh(gop, pd, pic, is_ref)
            pocs   == [i \in 1..7 |-> pd.dpb[slots[i]]]
            counts == RefListCounts(gop, pic, pocs)
            entry  == PrunedEntry(counts)
            more   == [refs     |-> [i \in 1..7 |-> slots[entry[i]]],
                       ref_pocs |-> [i \in 1..7 |-> pocs[entry[i]]],
                       list0    |-> counts.list0,
                       list1    |-> counts.list1,
                       refresh  |-> fresh.mask,
                       show     |-> TRUE]
            held   == [s \in Slots |-> IF s \in fresh.mask THEN pic.poc ELSE pd.dpb[s]]
<1>1. /\ d.pd = [pd EXCEPT !.lay0 = fresh.lay0, !.lay1 = fresh.lay1,
                           !.long_base = fresh.long_base, !.dpb = held]
      /\ d.pic = WithFields(pic, more)
  BY DEF DecideLowDelay
<1>2. /\ fresh.lay0 \in 0..2
      /\ fresh.lay1 \in 0..2
      /\ gop.rc = "cbr" => fresh.lay1 \in 0..1
  BY RefreshKeepsRings
<1>3. \A i \in 1..7 : slots[i] \in Slots
  BY LowDelayRowsAreSlots, CbrRowsAreSlots
<1>4. \A i \in 1..7 : entry[i] \in 1..7
  BY PruningFolds
<1>. HIDE DEF slots, entry, counts, fresh
<1>5. /\ Len(more.refs) = 7
      /\ \A r \in 1..7 : /\ more.refs[r] \in Slots
                          /\ more.ref_pocs[r] = pd.dpb[more.refs[r]]
  <2>1. more.refs \in [1..7 -> Slots] /\ more.refs \in Seq(Slots)
    BY <1>3, <1>4
  <2>2. \A r \in 1..7 : more.refs[r] = slots[entry[r]] /\ more.ref_pocs[r] = pocs[entry[r]]
    OBVIOUS
  <2>. QED
    BY <1>4, <2>1, <2>2
<1>6. /\ {"refs", "ref_pocs", "refresh"} \subseteq DOMAIN more
      /\ more.refresh = fresh.mask
  OBVIOUS
<1>7. held \in [Slots -> Nat]
  BY DEF Decision
<1>8. held = [s \in Slots |-> IF s \in more.refresh THEN pic.poc ELSE pd.dpb[s]]
  BY <1>6
<1>. HIDE DEF more, held, pocs
<1>9. /\ DOMAIN d.pd = DOMAIN pd
      /\ d.pd.lay0 = fresh.lay0 /\ d.pd.lay1 = fresh.lay1
      /\ d.pd.dpb = held /\ d.pd.last_idr = pd.last_idr /\ d.pd.position = pd.position
  BY <1>1 DEF Decision
<1>10. Decision(d.pd)
  BY <1>2, <1>7, <1>9 DEF Decision
<1>11. /\ d.pic.poc = pic.poc /\ d.pic.key = pic.key
       /\ d.pic.refs = more.refs /\ d.pic.ref_pocs = more.ref_pocs
       /\ d.pic.refresh = more.refresh
  BY <1>1, <1>6, DecidedFields
<1>. QED
  BY <1>5, <1>8, <1>9, <1>10, <1>11 DEF InterEffect

-----------------------------------------------------------------------------
(* The steps.                                                               *)

\* The first picture is a key frame.
LEMMA FirstIsKey ==
  ASSUME gop \in LdConfigs PROVE IsKeyFrame(gop, 0)
<1>1. gop.intra_period \in Nat
  BY LdAssumption
<1>. QED
  BY <1>1 DEF IsKeyFrame

\* Before the first call.
LEMMA InitLdIInv == Init => LdIInv
<1>. SUFFICES ASSUME Init PROVE LdIInv
  OBVIOUS
<1>. USE DEF Init
<1>. DEFINE more == [last_idr |-> 0, long_base |-> 0]
<1>1. Range(failed) = {}
  BY DEF Range
<1>2. /\ DOMAIN InitDecision = {"position", "after_key", "prev_hier", "lay0", "lay1", "dpb",
                                "base", "alt", "ok"}
      /\ InitDecision.lay0 = 0 /\ InitDecision.lay1 = 0 /\ InitDecision.position = 0
      /\ InitDecision.dpb = [s \in Slots |-> 0]
  BY DEF InitDecision
<1>3. DOMAIN more = {"last_idr", "long_base"} /\ more.last_idr = 0
  OBVIOUS
<1>4. pd_ctx = WithFields(InitDecision, more)
  BY DEF InitLdDecision
<1>. HIDE DEF more
<1>5. /\ DOMAIN pd_ctx = {"position", "after_key", "prev_hier", "lay0", "lay1", "dpb", "base",
                          "alt", "ok", "last_idr", "long_base"}
      /\ pd_ctx.lay0 = 0 /\ pd_ctx.lay1 = 0 /\ pd_ctx.last_idr = 0 /\ pd_ctx.position = 0
      /\ pd_ctx.dpb = [s \in Slots |-> 0]
  BY <1>2, <1>3, <1>4 DEF WithFields
<1>6. LdType
  <2>1. Decision(pd_ctx)
    BY <1>5 DEF Decision
  <2>. QED
    BY <2>1 DEF LdType, InitDecoder, Slots
<1>7. SlotsInGop
  BY <1>5 DEF SlotsInGop
<1>8. LdRefsWithinGop
  BY DEF LdRefsWithinGop, InterPicture
<1>9. FailedSoFar
  BY <1>1 DEF FailedSoFar
<1>10. InStep
  BY DEF InStep, InitDecoder, Slots
<1>11. DamageIsLocal
  BY DEF DamageIsLocal, InitDecoder
<1>12. PositionInMg
  <2>1. gop.hierarchical_levels \in Nat
    BY LdAssumption
  <2>. QED
    BY <1>5, <2>1, FewLevels DEF PositionInMg
<1>. QED
  BY <1>6, <1>7, <1>8, <1>9, <1>10, <1>11, <1>12 DEF LdIInv

\* A step that walks on keeps the position inside the mini-GOP.
LEMMA PositionKept ==
  ASSUME PositionInMg, gop \in LdConfigs, UNCHANGED gop, NEW key,
         pd_ctx'.position = NextPosition(pd_ctx, key, FALSE, 2 ^ gop.hierarchical_levels)
  PROVE  PositionInMg'
<1>. SUFFICES ASSUME gop.hierarchical_levels <= 2
              PROVE  pd_ctx'.position \in 0..(2 ^ gop.hierarchical_levels - 1)
  BY DEF PositionInMg
<1>1. 2 ^ gop.hierarchical_levels \in Nat \ {0}
  BY LdAssumption, FewLevels
<1>. QED
  BY <1>1, WalkStaysInMg DEF PositionInMg

\* A picture is decided: a key frame.
LEMMA KeyDecidedKeeps ==
  ASSUME LdIInv, TryEncodeFrame, IsKeyFrame(gop, frame_count)
  PROVE  LdIInv'
<1>. DEFINE walk == WalkPosition(gop, pd_ctx, frame_count)
            d    == DecideKey(walk.pd, walk.pic)
<1>0. /\ LdType /\ SlotsInGop /\ LdRefsWithinGop /\ FailedSoFar
      /\ PositionInMg /\ InStep /\ DamageIsLocal
  BY DEF LdIInv
<1>1. /\ gop \in LdConfigs /\ frame_count \in Nat /\ Decision(pd_ctx) /\ stage = "idle"
      /\ failed \in Seq(Nat)
  BY <1>0 DEF LdType, TryEncodeFrame
<1>2. /\ Decision(walk.pd)
      /\ walk.pd.last_idr = frame_count
      /\ walk.pd.position = NextPosition(pd_ctx, IsKeyFrame(gop, frame_count), FALSE,
                                         2 ^ gop.hierarchical_levels)
      /\ Walked(walk.pic)
      /\ walk.pic.poc = frame_count /\ walk.pic.key = IsKeyFrame(gop, frame_count)
  <2>1. walk = WalkPosition(gop, pd_ctx, frame_count)
    OBVIOUS
  <2>. HIDE DEF walk
  <2>2. WalkEffect(pd_ctx, frame_count, walk)
    BY <1>1, <2>1, WalkKeeps
  <2>. QED
    BY <2>2 DEF WalkEffect
<1>3. pd_ctx' = d.pd /\ coding' = d.pic
  BY <1>2 DEF TryEncodeFrame, RunPictureDecision
<1>. HIDE DEF walk
<1>4. /\ Decision(d.pd)
      /\ d.pd.last_idr = frame_count /\ d.pd.position = walk.pd.position
      /\ d.pd.dpb = [s \in Slots |-> frame_count]
      /\ d.pic.poc = frame_count /\ d.pic.key
      /\ d.pic.refs = <<>> /\ d.pic.refresh = Slots
  <2>1. d = DecideKey(walk.pd, walk.pic)
    OBVIOUS
  <2>. HIDE DEF d
  <2>2. KeyEffect(walk.pd, walk.pic, d)
    BY <1>1, <1>2, <2>1, KeyDecided
  <2>. QED
    BY <1>2, <2>2 DEF KeyEffect
<1>. HIDE DEF d
<1>5. /\ stage' = "decided"
      /\ UNCHANGED <<gop, frame_count, dpb, failed, dec>>
  BY DEF TryEncodeFrame
<1>6. /\ Decision(pd_ctx)'
      /\ Decided(coding)'
  <2>1. Decision(pd_ctx)'
    BY <1>3, <1>4, <1>5 DEF Decision
  <2>2. coding'.key = IsKeyFrame(gop, frame_count)
    BY <1>3, <1>4 DEF IsKeyFrame
  <2>. QED
    BY <1>3, <1>4, <1>5, <2>1, <2>2 DEF Decided, IsKeyFrame
<1>7. LdType'
  BY <1>0, <1>5, <1>6 DEF LdType
<1>8. SlotsInGop'
  BY <1>1, <1>3, <1>4, <1>5 DEF SlotsInGop
<1>9. LdRefsWithinGop'
  BY <1>3, <1>4 DEF LdRefsWithinGop, InterPicture
<1>10. FailedSoFar'
  BY <1>0, <1>5 DEF FailedSoFar
<1>11. InStep'
  <2>1. pd_ctx'.dpb = [s \in Slots |-> coding'.poc]
    BY <1>3, <1>4
  <2>2. coding'.key /\ stage' = "decided"
    BY <1>3, <1>4, <1>5
  <2>. QED
    BY <2>1, <2>2 DEF InStep
<1>12. DamageIsLocal'
  BY <1>0, <1>5 DEF DamageIsLocal, IsKeyFrame
<1>13. PositionInMg'
  <2>1. pd_ctx'.position = NextPosition(pd_ctx, IsKeyFrame(gop, frame_count), FALSE,
                                        2 ^ gop.hierarchical_levels)
    BY <1>2, <1>3, <1>4
  <2>. QED
    BY <1>0, <1>1, <1>5, <2>1, PositionKept
<1>. QED
  BY <1>7, <1>8, <1>9, <1>10, <1>11, <1>12, <1>13 DEF LdIInv

\* A picture is decided: an inter picture.
LEMMA InterDecidedKeeps ==
  ASSUME LdIInv, TryEncodeFrame, ~IsKeyFrame(gop, frame_count)
  PROVE  LdIInv'
<1>. DEFINE walk == WalkPosition(gop, pd_ctx, frame_count)
            d    == DecideLowDelay(gop, walk.pd, walk.pic)
<1>0. /\ LdType /\ SlotsInGop /\ LdRefsWithinGop /\ FailedSoFar
      /\ PositionInMg /\ InStep /\ DamageIsLocal
  BY DEF LdIInv
<1>1. /\ gop \in LdConfigs /\ frame_count \in Nat /\ Decision(pd_ctx) /\ stage = "idle"
      /\ failed \in Seq(Nat) /\ DOMAIN dpb = Slots /\ DOMAIN dec.slots = Slots
  BY <1>0 DEF LdType, TryEncodeFrame
<1>2. /\ Decision(walk.pd)
      /\ walk.pd.dpb = pd_ctx.dpb
      /\ walk.pd.last_idr = pd_ctx.last_idr
      /\ walk.pd.position = NextPosition(pd_ctx, IsKeyFrame(gop, frame_count), FALSE,
                                         2 ^ gop.hierarchical_levels)
      /\ Walked(walk.pic)
      /\ walk.pic.poc = frame_count
      /\ walk.pic.key = IsKeyFrame(gop, frame_count)
  <2>1. walk = WalkPosition(gop, pd_ctx, frame_count)
    OBVIOUS
  <2>. HIDE DEF walk
  <2>2. WalkEffect(pd_ctx, frame_count, walk)
    BY <1>1, <2>1, WalkKeeps
  <2>. QED
    BY <2>2 DEF WalkEffect
<1>3. pd_ctx' = d.pd /\ coding' = d.pic
  BY <1>2 DEF TryEncodeFrame, RunPictureDecision
<1>. HIDE DEF walk
<1>4. /\ Decision(d.pd)
      /\ d.pd.last_idr = pd_ctx.last_idr /\ d.pd.position = walk.pd.position
      /\ d.pd.dpb = [s \in Slots |-> IF s \in d.pic.refresh THEN frame_count ELSE pd_ctx.dpb[s]]
      /\ d.pic.poc = frame_count /\ ~d.pic.key /\ d.pic.key = IsKeyFrame(gop, frame_count)
      /\ Len(d.pic.refs) = 7
      /\ \A r \in 1..7 : /\ d.pic.refs[r] \in Slots
                          /\ d.pic.ref_pocs[r] = pd_ctx.dpb[d.pic.refs[r]]
  <2>1. d = DecideLowDelay(gop, walk.pd, walk.pic)
    OBVIOUS
  <2>. HIDE DEF d
  <2>2. InterEffect(walk.pd, walk.pic, d)
    BY <1>1, <1>2, <2>1, InterDecided
  <2>. QED
    BY <1>2, <2>2 DEF InterEffect
<1>. HIDE DEF d
<1>5. /\ stage' = "decided"
      /\ UNCHANGED <<gop, frame_count, dpb, failed, dec>>
  BY DEF TryEncodeFrame
<1>6. frame_count # 0
  BY <1>1, FirstIsKey
<1>7. /\ Decision(pd_ctx)'
      /\ Decided(coding)'
  <2>1. Decision(pd_ctx)'
    BY <1>3, <1>4, <1>5 DEF Decision
  <2>. QED
    BY <1>3, <1>4, <1>5, <2>1 DEF Decided, IsKeyFrame
<1>8. LdType'
  BY <1>0, <1>5, <1>7 DEF LdType
<1>9. SlotsInGop'
  <2>1. /\ pd_ctx'.last_idr = pd_ctx.last_idr
        /\ \A s \in Slots : pd_ctx'.dpb[s] \in {frame_count, pd_ctx.dpb[s]}
    BY <1>3, <1>4
  <2>2. frame_count' = frame_count /\ stage' # "idle"
    BY <1>5
  <2>3. /\ pd_ctx.last_idr \in Nat
        /\ \A s \in Slots : /\ pd_ctx.dpb[s] \in Nat
                             /\ pd_ctx.last_idr <= pd_ctx.dpb[s]
                             /\ pd_ctx.dpb[s] <= frame_count
    BY <1>0, <1>1 DEF SlotsInGop, Decision
  <2>4. pd_ctx.last_idr <= frame_count
    BY <1>1, <2>3 DEF Slots
  <2>. QED
    BY <1>1, <2>1, <2>2, <2>3, <2>4 DEF SlotsInGop
<1>10. LdRefsWithinGop'
  <2>1. \A r \in 1..7 : /\ pd_ctx.dpb[d.pic.refs[r]] >= pd_ctx.last_idr
                        /\ \/ pd_ctx.dpb[d.pic.refs[r]] < frame_count
                           \/ frame_count \in Range(failed)
    BY <1>0, <1>1, <1>4, <1>6 DEF SlotsInGop
  <2>2. \A r \in 1..7 : coding'.ref_pocs[r] = pd_ctx.dpb[d.pic.refs[r]]
    BY <1>3, <1>4
  <2>3. /\ coding'.poc = frame_count /\ pd_ctx'.last_idr = pd_ctx.last_idr
        /\ failed' = failed
    BY <1>3, <1>4, <1>5
  <2>. QED
    BY <2>1, <2>2, <2>3 DEF LdRefsWithinGop
<1>11. FailedSoFar'
  BY <1>0, <1>5 DEF FailedSoFar
<1>12. InStep'
  <2>1. Healed' <=> Healed
    BY <1>0, <1>5 DEF Healed, IsKeyFrame
  <2>2. ASSUME Healed
        PROVE  /\ RefsMatch(dec.slots, coding')
               /\ pd_ctx'.dpb = Refreshed(dec.slots, coding')
               /\ dpb = dec.slots
    <3>1. pd_ctx.dpb = dpb /\ dec.slots = dpb
      BY <1>0, <1>1, <1>6, <2>2 DEF InStep
    <3>2. RefsMatch(dec.slots, coding')
      BY <1>3, <1>4, <3>1 DEF RefsMatch
    <3>3. pd_ctx'.dpb = Refreshed(dec.slots, coding')
      BY <1>3, <1>4, <3>1 DEF Refreshed
    <3>. QED
      BY <3>1, <3>2, <3>3
  <2>. QED
    BY <1>3, <1>4, <1>5, <2>1, <2>2 DEF InStep, RefsMatch, Refreshed
<1>13. DamageIsLocal'
  BY <1>0, <1>5 DEF DamageIsLocal, IsKeyFrame
<1>14. PositionInMg'
  <2>1. pd_ctx'.position = NextPosition(pd_ctx, IsKeyFrame(gop, frame_count), FALSE,
                                        2 ^ gop.hierarchical_levels)
    BY <1>2, <1>3, <1>4
  <2>. QED
    BY <1>0, <1>1, <1>5, <2>1, PositionKept
<1>. QED
  BY <1>8, <1>9, <1>10, <1>11, <1>12, <1>13, <1>14 DEF LdIInv

\* No key frame can be behind the picture of a call that has just failed.
LEMMA NotHealedYet ==
  ASSUME frame_count \in Nat, UNCHANGED <<gop, frame_count>>, frame_count \in Range(failed')
  PROVE  ~Healed'
<1>1. frame_count..(frame_count - 1) = {}
  OBVIOUS
<1>. QED
  BY <1>1 DEF Healed

\* A picture is decided.
LEMMA LdDecideKeeps == LdIInv /\ TryEncodeFrame => LdIInv'
BY KeyDecidedKeeps, InterDecidedKeeps

\* A call is refused: the walk has moved on, and nothing else.
LEMMA LdRefuseKeeps == LdIInv /\ Refuse => LdIInv'
<1>. SUFFICES ASSUME LdIInv, Refuse PROVE LdIInv'
  OBVIOUS
<1>. DEFINE walk == WalkPosition(gop, pd_ctx, frame_count)
<1>0. /\ LdType /\ SlotsInGop /\ LdRefsWithinGop /\ FailedSoFar
      /\ PositionInMg /\ InStep /\ DamageIsLocal
  BY DEF LdIInv
<1>1. /\ gop \in LdConfigs /\ frame_count \in Nat /\ Decision(pd_ctx) /\ stage = "idle"
      /\ failed \in Seq(Nat)
  BY <1>0 DEF LdType, Refuse
<1>2. WalkEffect(pd_ctx, frame_count, walk)
  BY <1>1, WalkKeeps
<1>3. /\ pd_ctx' = walk.pd /\ failed' = Append(failed, frame_count)
      /\ ~HasRow(gop, walk.pic)
      /\ UNCHANGED <<gop, frame_count, coding, stage, dpb, dec>>
  BY DEF Refuse
<1>. HIDE DEF walk
<1>4. ~IsKeyFrame(gop, frame_count)
  BY <1>2, <1>3 DEF WalkEffect, HasRow
<1>5. Decision(walk.pd) /\ walk.pd.dpb = pd_ctx.dpb /\ walk.pd.last_idr = pd_ctx.last_idr
  BY <1>2, <1>4 DEF WalkEffect
<1>6. failed' \in Seq(Nat) /\ Range(failed') = Range(failed) \cup {frame_count}
  BY <1>1, <1>3, OneMoreFailed
<1>7. LdType'
  <2>1. Decision(pd_ctx)'
    BY <1>3, <1>5 DEF Decision
  <2>. QED
    BY <1>0, <1>1, <1>3, <1>6, <2>1 DEF LdType
<1>8. SlotsInGop'
  BY <1>0, <1>3, <1>5, <1>6 DEF SlotsInGop
<1>9. LdRefsWithinGop'
  BY <1>1, <1>3 DEF LdRefsWithinGop, InterPicture
<1>10. FailedSoFar'
  BY <1>0, <1>1, <1>3, <1>6 DEF FailedSoFar
<1>11. InStep'
  <2>1. ~Healed'
    BY <1>1, <1>3, <1>6, NotHealedYet
  <2>. QED
    BY <1>1, <1>3, <2>1 DEF InStep
<1>12. DamageIsLocal'
  BY <1>0, <1>3, <1>6 DEF DamageIsLocal, IsKeyFrame
<1>13. PositionInMg'
  <2>1. pd_ctx'.position = NextPosition(pd_ctx, IsKeyFrame(gop, frame_count), FALSE,
                                        2 ^ gop.hierarchical_levels)
    BY <1>2, <1>3 DEF WalkEffect
  <2>. QED
    BY <1>0, <1>1, <1>3, <2>1, PositionKept
<1>. QED
  BY <1>7, <1>8, <1>9, <1>10, <1>11, <1>12, <1>13 DEF LdIInv

\* The reconstruction takes the slots the decision gave it.
LEMMA LdCodeKeeps == LdIInv /\ Code => LdIInv'
<1>. SUFFICES ASSUME LdIInv, Code PROVE LdIInv'
  OBVIOUS
<1>0. /\ LdType /\ SlotsInGop /\ LdRefsWithinGop /\ FailedSoFar
      /\ PositionInMg /\ InStep /\ DamageIsLocal
  BY DEF LdIInv
<1>1. /\ stage = "decided" /\ stage' = "coded"
      /\ dpb' = [s \in Slots |-> IF s \in coding.refresh THEN coding.poc ELSE dpb[s]]
      /\ UNCHANGED <<gop, frame_count, pd_ctx, coding, failed, dec>>
  BY DEF Code
<1>2. Decided(coding)
  BY <1>0, <1>1 DEF LdType
<1>3. LdType'
  <2>1. Decision(pd_ctx)' /\ Decided(coding)'
    BY <1>0, <1>1, <1>2 DEF LdType, Decision, Decided, IsKeyFrame
  <2>. QED
    BY <1>0, <1>1, <2>1 DEF LdType
<1>4. SlotsInGop'
  BY <1>0, <1>1 DEF SlotsInGop
<1>5. LdRefsWithinGop'
  BY <1>1 DEF LdRefsWithinGop, InterPicture
<1>6. FailedSoFar'
  BY <1>0, <1>1 DEF FailedSoFar
<1>7. InStep'
  <2>1. Healed' <=> Healed
    BY <1>1 DEF Healed, IsKeyFrame
  <2>2. coding.key => pd_ctx.dpb = [s \in Slots |-> coding.poc]
    BY <1>0, <1>1 DEF InStep
  <2>3. ~coding.key /\ Healed => /\ RefsMatch(dec.slots, coding)
                                 /\ pd_ctx.dpb = Refreshed(dec.slots, coding)
                                 /\ dpb = dec.slots
    BY <1>0, <1>1 DEF InStep
  <2>4. coding.key => dpb' = pd_ctx.dpb
    BY <1>1, <1>2, <2>2 DEF Decided
  <2>5. ~coding.key /\ Healed => dpb' = pd_ctx.dpb
    BY <1>1, <2>3 DEF Refreshed
  <2>6. RefsMatch(dec.slots, coding)' <=> RefsMatch(dec.slots, coding)
    BY <1>1
  <2>7. Refreshed(dec.slots, coding)' = Refreshed(dec.slots, coding)
    BY <1>1
  <2>. QED
    BY <1>1, <2>1, <2>2, <2>3, <2>4, <2>5, <2>6, <2>7 DEF InStep
<1>8. DamageIsLocal'
  BY <1>0, <1>1 DEF DamageIsLocal, IsKeyFrame
<1>9. PositionInMg'
  BY <1>0, <1>1 DEF PositionInMg
<1>. QED
  BY <1>3, <1>4, <1>5, <1>6, <1>7, <1>8, <1>9 DEF LdIInv

\* A call fails.
LEMMA LdFailKeeps == LdIInv /\ Fail => LdIInv'
<1>. SUFFICES ASSUME LdIInv, Fail PROVE LdIInv'
  OBVIOUS
<1>0. /\ LdType /\ SlotsInGop /\ LdRefsWithinGop /\ FailedSoFar
      /\ PositionInMg /\ InStep /\ DamageIsLocal
  BY DEF LdIInv
<1>1. /\ stage' = "idle" /\ failed' = Append(failed, frame_count)
      /\ UNCHANGED <<gop, frame_count, pd_ctx, dpb, dec>>
  BY DEF Fail
<1>2. frame_count \in Nat /\ failed \in Seq(Nat)
  BY <1>0 DEF LdType
<1>3. failed' \in Seq(Nat) /\ Range(failed') = Range(failed) \cup {frame_count}
  BY <1>1, <1>2, OneMoreFailed
<1>4. LdType'
  <2>1. Decision(pd_ctx)'
    BY <1>0, <1>1 DEF LdType, Decision
  <2>. QED
    BY <1>0, <1>1, <1>3, <2>1 DEF LdType
<1>5. SlotsInGop'
  BY <1>0, <1>1, <1>3 DEF SlotsInGop
<1>6. LdRefsWithinGop'
  BY <1>1 DEF LdRefsWithinGop, InterPicture
<1>7. FailedSoFar'
  BY <1>0, <1>1, <1>2, <1>3 DEF FailedSoFar
<1>8. InStep'
  <2>1. ~Healed'
    BY <1>1, <1>2, <1>3, NotHealedYet
  <2>. QED
    BY <1>1, <2>1 DEF InStep
<1>9. DamageIsLocal'
  BY <1>0, <1>1, <1>3 DEF DamageIsLocal, IsKeyFrame
<1>10. PositionInMg'
  BY <1>0, <1>1 DEF PositionInMg
<1>. QED
  BY <1>4, <1>5, <1>6, <1>7, <1>8, <1>9, <1>10 DEF LdIInv

\* The packet of a returned call brings the decoder where the encoder is.
LEMMA LdReturnKeeps == LdIInv /\ Return => LdIInv'
<1>. SUFFICES ASSUME LdIInv, Return PROVE LdIInv'
  OBVIOUS
<1>0. /\ LdType /\ SlotsInGop /\ LdRefsWithinGop /\ FailedSoFar
      /\ PositionInMg /\ InStep /\ DamageIsLocal
  BY DEF LdIInv
<1>1. /\ stage = "coded" /\ stage' = "idle"
      /\ frame_count' = frame_count + 1
      /\ dec' = DecodeFrame(dec, coding)
      /\ UNCHANGED <<gop, pd_ctx, dpb, failed>>
  BY DEF Return
<1>2. /\ gop \in LdConfigs /\ frame_count \in Nat /\ failed \in Seq(Nat)
      /\ Decision(pd_ctx) /\ Decided(coding) /\ Range(failed) \subseteq Nat
  BY <1>0, <1>1, FailedAreNat DEF LdType
<1>3. /\ dec'.slots = Refreshed(dec.slots, coding)
      /\ dec'.damaged = IF RefsMatch(dec.slots, coding) THEN dec.damaged
                                                       ELSE dec.damaged \cup {coding.poc}
  BY <1>1 DEF DecodeFrame, Refreshed, Slots
<1>4. coding.poc = frame_count /\ coding.key = IsKeyFrame(gop, frame_count)
  BY <1>2 DEF Decided
<1>5. LdType'
  <2>1. Decision(pd_ctx)'
    BY <1>1, <1>2 DEF Decision
  <2>2. DOMAIN dec'.slots = Slots
    BY <1>3 DEF Refreshed
  <2>. QED
    BY <1>0, <1>1, <1>2, <2>1, <2>2 DEF LdType
<1>6. SlotsInGop'
  <2>1. \A s \in Slots : pd_ctx.dpb[s] \in Nat
    BY <1>2 DEF Decision
  <2>. QED
    BY <1>0, <1>1, <1>2, <2>1 DEF SlotsInGop
<1>7. LdRefsWithinGop'
  BY <1>1 DEF LdRefsWithinGop, InterPicture
<1>8. FailedSoFar'
  BY <1>0, <1>1, <1>2 DEF FailedSoFar
<1>9. ~coding.key /\ Healed' => Healed
  <2>. SUFFICES ASSUME ~coding.key, Healed', NEW q \in Range(failed)
                PROVE  \E k \in q..(frame_count - 1) : IsKeyFrame(gop, k)
    BY DEF Healed
  <2>1. PICK k \in q..frame_count : IsKeyFrame(gop, k)
    BY <1>1, <1>2 DEF Healed, IsKeyFrame
  <2>2. k # frame_count /\ q \in Nat
    BY <1>2, <1>4, <2>1
  <2>. QED
    BY <1>2, <2>1, <2>2
<1>10. InStep'
  <2>. SUFFICES ASSUME Healed' PROVE dec'.slots = dpb /\ pd_ctx.dpb = dpb
    BY <1>1 DEF InStep
  <2>1. CASE coding.key
    <3>1. pd_ctx.dpb = [s \in Slots |-> coding.poc] /\ dpb = pd_ctx.dpb
      BY <1>0, <1>1, <2>1 DEF InStep
    <3>2. Refreshed(dec.slots, coding) = [s \in Slots |-> coding.poc]
      BY <1>2, <2>1 DEF Decided, Refreshed
    <3>. QED
      BY <1>3, <3>1, <3>2
  <2>2. CASE ~coding.key
    <3>1. pd_ctx.dpb = Refreshed(dec.slots, coding) /\ dpb = pd_ctx.dpb
      BY <1>0, <1>1, <1>9, <2>2 DEF InStep
    <3>. QED
      BY <1>3, <3>1
  <2>. QED
    BY <2>1, <2>2
<1>11. DamageIsLocal'
  <2>. SUFFICES ASSUME NEW p \in dec'.damaged
                PROVE  \E q \in Range(failed) : q <= p /\ \A k \in q..p : ~IsKeyFrame(gop, k)
    BY <1>1 DEF DamageIsLocal, IsKeyFrame
  <2>1. CASE p \in dec.damaged
    BY <1>0, <2>1 DEF DamageIsLocal
  <2>2. CASE p \notin dec.damaged
    <3>1. p = frame_count /\ ~RefsMatch(dec.slots, coding)
      BY <1>3, <1>4, <2>2
    <3>2. ~coding.key
      <4>1. coding.key => Len(coding.refs) = 0
        BY <1>2 DEF Decided
      <4>2. coding.key => RefsMatch(dec.slots, coding)
        BY <4>1 DEF RefsMatch
      <4>. QED
        BY <3>1, <4>2
    <3>3. ~Healed
      BY <1>0, <1>1, <3>1, <3>2 DEF InStep
    <3>4. PICK q \in Range(failed) : \A k \in q..(frame_count - 1) : ~IsKeyFrame(gop, k)
      BY <3>3 DEF Healed
    <3>5. q \in Nat /\ q <= frame_count
      BY <1>0, <1>2 DEF FailedSoFar
    <3>6. ~IsKeyFrame(gop, frame_count)
      BY <1>4, <3>2
    <3>7. \A k \in q..frame_count : k # frame_count => k \in q..(frame_count - 1)
      BY <1>2, <3>5
    <3>. QED
      BY <3>1, <3>4, <3>5, <3>6, <3>7
  <2>. QED
    BY <2>1, <2>2
<1>12. PositionInMg'
  BY <1>0, <1>1 DEF PositionInMg
<1>. QED
  BY <1>5, <1>6, <1>7, <1>8, <1>10, <1>11, <1>12 DEF LdIInv

\* Nothing happens.
LEMMA LdStutterKeeps == LdIInv /\ UNCHANGED vars => LdIInv'
<1>. SUFFICES ASSUME LdIInv, UNCHANGED vars PROVE LdIInv'
  OBVIOUS
<1>0. /\ LdType /\ SlotsInGop /\ LdRefsWithinGop /\ FailedSoFar
      /\ PositionInMg /\ InStep /\ DamageIsLocal
  BY DEF LdIInv
<1>1. UNCHANGED <<gop, frame_count, pd_ctx, coding, stage, dpb, failed, dec>>
  BY DEF vars
<1>2. LdType'
  BY <1>0, <1>1 DEF LdType, Decision, Decided, IsKeyFrame
<1>3. SlotsInGop' /\ FailedSoFar' /\ PositionInMg'
  BY <1>0, <1>1 DEF SlotsInGop, FailedSoFar, PositionInMg
<1>4. LdRefsWithinGop'
  BY <1>0, <1>1 DEF LdRefsWithinGop, InterPicture
<1>5. InStep'
  BY <1>0, <1>1 DEF InStep, Healed, IsKeyFrame, RefsMatch, Refreshed
<1>6. DamageIsLocal'
  BY <1>0, <1>1 DEF DamageIsLocal, IsKeyFrame
<1>. QED
  BY <1>2, <1>3, <1>4, <1>5, <1>6 DEF LdIInv

-----------------------------------------------------------------------------
(* The theorems.                                                            *)

\* Buffers, decision and failed calls hang together in every reachable state.
THEOREM LdInductiveInvariant == Spec => []LdIInv
<1>1. LdIInv /\ [Next]_vars => LdIInv'
  BY LdDecideKeeps, LdRefuseKeeps, LdCodeKeeps, LdFailKeeps, LdReturnKeeps, LdStutterKeeps DEF Next
<1>. QED
  BY <1>1, InitLdIInv, PTL DEF Spec

\* An inter picture predicts from its own GOP, whatever the reduction of the
\* reference buffers, the rate control and the calls that have failed.
THEOREM NoReferenceAcrossKey == Spec => []LdRefsWithinGop
<1>1. LdIInv => LdRefsWithinGop
  BY DEF LdIInv
<1>. QED
  BY <1>1, LdInductiveInvariant, PTL

\* What a failed call damages is behind it and in front of the next key frame.
THEOREM DamageStaysLocal == Spec => []DamageIsLocal
<1>1. LdIInv => DamageIsLocal
  BY DEF LdIInv
<1>. QED
  BY <1>1, LdInductiveInvariant, PTL

\* As long as no call fails, encoder and decoder predict from the same pictures, for
\* every length of the stream.
THEOREM ReferencesStayInSync == Spec => []LdReferencesInSync
<1>1. LdIInv => LdReferencesInSync
  <2>. SUFFICES ASSUME LdIInv, failed = <<>>
                PROVE  /\ stage = "decided" => RefsMatch(dpb, coding)
                       /\ dec.damaged = {}
                       /\ stage = "idle" => dec.slots = dpb
    BY DEF LdReferencesInSync
  <2>1. Range(failed) = {}
    BY DEF Range
  <2>2. Healed
    BY <2>1 DEF Healed
  <2>3. dec.damaged = {}
    BY <2>1 DEF LdIInv, DamageIsLocal
  <2>4. stage = "idle" => dec.slots = dpb
    BY <2>2 DEF LdIInv, InStep
  <2>5. stage = "decided" /\ ~coding.key => RefsMatch(dpb, coding)
    BY <2>2 DEF LdIInv, InStep
  <2>6. stage = "decided" /\ coding.key => RefsMatch(dpb, coding)
    <3>1. stage = "decided" /\ coding.key => Len(coding.refs) = 0
      BY DEF LdIInv, LdType, Decided
    <3>. QED
      BY <3>1 DEF RefsMatch
  <2>. QED
    BY <2>3, <2>4, <2>5, <2>6
<1>. QED
  BY <1>1, LdInductiveInvariant, PTL

\* Under CBR every picture of a mini-GOP of at most two levels has a row, wherever in
\* it failed calls have left the walk.
THEOREM CbrNeverRefusesTwoLevels == Spec => []CbrServesTwoLevels
<1>1. LdIInv => CbrServesTwoLevels
  <2>. SUFFICES ASSUME LdIInv, gop.hierarchical_levels <= 2
                PROVE  HasRow(gop, WalkPosition(gop, pd_ctx, frame_count).pic)
    BY DEF CbrServesTwoLevels
  <2>. DEFINE h   == gop.hierarchical_levels
              key == IsKeyFrame(gop, frame_count)
              pos == NextPosition(pd_ctx, key, FALSE, 2 ^ h)
              pic == WalkPosition(gop, pd_ctx, frame_count).pic
  <2>1. h \in {0, 1, 2} /\ 2 ^ 0 = 1 /\ 2 ^ 1 = 2 /\ 2 ^ 2 = 4 /\ 2 ^ h \in Nat \ {0}
    BY LdAssumption, FewLevels DEF LdIInv, LdType
  <2>2. pos \in 0..(2 ^ h - 1)
    BY <2>1, WalkStaysInMg DEF LdIInv, PositionInMg
  <2>3. pic.hier = h /\ pic.layer = TemporalLayer(h, pos) /\ pic.pic_idx = PicIdxInMg(pos, 2 ^ h)
    BY DEF WalkPosition
  <2>. HIDE DEF pic, pos
  <2>4. CASE h = 0
    <3>1. pos = 0 /\ pic.layer = TemporalLayer(0, 0)
      BY <2>1, <2>2, <2>3, <2>4
    <3>. QED
      BY <3>1 DEF TemporalLayer, PRED_STRUCT_TEMPORAL_LAYER, HasRow, CbrHasRow, pic
  <2>5. CASE h = 1
    <3>1. pos \in {0, 1} /\ pic.layer = TemporalLayer(1, pos)
      BY <2>1, <2>2, <2>3, <2>5
    <3>2. TemporalLayer(1, 0) = 0 /\ TemporalLayer(1, 1) = 1
      BY DEF TemporalLayer, PRED_STRUCT_TEMPORAL_LAYER
    <3>3. pic.layer <= 1
      BY <3>1, <3>2
    <3>. QED
      BY <3>3 DEF HasRow, CbrHasRow, pic
  <2>6. CASE h = 2
    <3>1. pos \in {0, 1, 2, 3} /\ pic.layer = TemporalLayer(2, pos) /\ pic.hier = 2
          /\ pic.pic_idx = PicIdxInMg(pos, 4)
      BY <2>1, <2>2, <2>3, <2>6
    <3>2. /\ TemporalLayer(2, 0) = 0 /\ TemporalLayer(2, 1) = 2
          /\ TemporalLayer(2, 2) = 1 /\ TemporalLayer(2, 3) = 2
      BY DEF TemporalLayer, PRED_STRUCT_TEMPORAL_LAYER
    <3>3. PicIdxInMg(1, 4) = 0 /\ PicIdxInMg(3, 4) = 2
      BY DEF PicIdxInMg
    <3>4. pic.layer <= 1 \/ (pic.layer = 2 /\ pic.pic_idx \in {0, 2})
      BY <3>1, <3>2, <3>3
    <3>. QED
      BY <3>1, <3>4 DEF HasRow, CbrHasRow, pic
  <2>. QED
    BY <2>1, <2>4, <2>5, <2>6
<1>. QED
  BY <1>1, LdInductiveInvariant, PTL

-----------------------------------------------------------------------------
(* What a stream without failed calls keeps fresh: the long-term reference,  *)
(* the two buffers of a reduced configuration, the layers of the slots.      *)

\* The lengths of a mini-GOP.
Powers == {1, 2, 4, 8, 16, 32}

LEMMA LevelPowers ==
  ASSUME NEW h \in 0..5
  PROVE  2 ^ h \in Powers
<1>1. 2 ^ 0 = 1 /\ 2 ^ 1 = 2 /\ 2 ^ 2 = 4 /\ 2 ^ 3 = 8 /\ 2 ^ 4 = 16 /\ 2 ^ 5 = 32
  OBVIOUS
<1>2. h \in {0, 1, 2, 3, 4, 5}
  OBVIOUS
<1>3. CASE h = 0
  BY <1>1, <1>3, Zenon DEF Powers
<1>4. CASE h = 1
  BY <1>1, <1>4, Zenon DEF Powers
<1>5. CASE h = 2
  BY <1>1, <1>5, Zenon DEF Powers
<1>6. CASE h = 3
  BY <1>1, <1>6, Zenon DEF Powers
<1>7. CASE h = 4
  BY <1>1, <1>7, Zenon DEF Powers
<1>8. CASE h = 5
  BY <1>1, <1>8, Zenon DEF Powers
<1>. QED
  BY <1>2, <1>3, <1>4, <1>5, <1>6, <1>7, <1>8

\* One picture more, seen from the mini-GOP; its length is a number, so that the
\* arithmetic is linear.
LEMMA AroundTheMg ==
  ASSUME NEW a \in Nat, NEW E \in Powers
  PROVE  /\ a % E \in 0..(E - 1)
         /\ a % E <= a
         /\ (a + 1) % E = IF (a % E) + 1 = E THEN 0 ELSE (a % E) + 1
         /\ (a - (a % E)) % E = 0
         /\ 0 % E = 0
<1>1. CASE E = 1
  BY <1>1
<1>2. CASE E = 2
  BY <1>2
<1>3. CASE E = 4
  BY <1>3
<1>4. CASE E = 8
  BY <1>4
<1>5. CASE E = 16
  BY <1>5
<1>6. CASE E = 32
  BY <1>6
<1>. QED
  BY <1>1, <1>2, <1>3, <1>4, <1>5, <1>6 DEF Powers

\* The table of temporal layers: layer 0 first, layer 1 in the middle.
LEMMA LayersOfLevels ==
  ASSUME NEW h \in 0..5
  PROVE  /\ TemporalLayer(h, 0) = 0
         /\ \A p \in 1..(2 ^ h - 1) : TemporalLayer(h, p) \in 1..5
         /\ h >= 1 => TemporalLayer(h, 2 ^ (h - 1)) = 1
         /\ 3 <= 2 ^ h - 1 /\ TemporalLayer(h, 3) = 2 => h = 2
<1>1. 2 ^ 0 = 1 /\ 2 ^ 1 = 2 /\ 2 ^ 2 = 4 /\ 2 ^ 3 = 8 /\ 2 ^ 4 = 16 /\ 2 ^ 5 = 32
  OBVIOUS
<1>. USE DEF TemporalLayer, PRED_STRUCT_TEMPORAL_LAYER
<1>3. CASE h = 0
  BY <1>1, <1>3
<1>4. CASE h = 1
  BY <1>1, <1>4
<1>5. CASE h = 2
  BY <1>1, <1>5
<1>6. CASE h = 3
  BY <1>1, <1>6
<1>7. CASE h = 4
  BY <1>1, <1>7
<1>8. CASE h = 5
  BY <1>1, <1>8
<1>. QED
  BY <1>3, <1>4, <1>5, <1>6, <1>7, <1>8

\* No layer above the levels.
LEMMA LayersUpToLevels ==
  ASSUME NEW h \in 0..5, NEW p \in 0..(2 ^ h - 1)
  PROVE  TemporalLayer(h, p) <= h
<1>1. 2 ^ 0 = 1 /\ 2 ^ 1 = 2 /\ 2 ^ 2 = 4 /\ 2 ^ 3 = 8 /\ 2 ^ 4 = 16 /\ 2 ^ 5 = 32
  OBVIOUS
<1>. USE DEF TemporalLayer, PRED_STRUCT_TEMPORAL_LAYER
<1>3. CASE h = 0
  BY <1>1, <1>3
<1>4. CASE h = 1
  BY <1>1, <1>4
<1>5. CASE h = 2
  BY <1>1, <1>5
<1>6. CASE h = 3
  BY <1>1, <1>6
<1>7. CASE h = 4
  BY <1>1, <1>7
<1>8. CASE h = 5
  BY <1>1, <1>8
<1>. QED
  BY <1>3, <1>4, <1>5, <1>6, <1>7, <1>8

\* The mini-GOPs of the configuration, and whether it reduces the buffers.
Levels == gop.hierarchical_levels
Mg == 2 ^ Levels
Reduced == gop.mrp.ld_reduce_ref_buffs = 2

LEMMA TableFacts ==
  ASSUME gop \in LdConfigs
  PROVE  /\ Levels \in 0..5
         /\ gop.mrp.ld_reduce_ref_buffs \in {0, 2}
         /\ gop.rc \in {"cqp", "cbr"}
         /\ Reduced => /\ gop.mrp.base_ref_list0_count = 1
                       /\ gop.mrp.non_base_ref_list0_count = 1
                       /\ gop.mrp.base_ref_list1_count = 0
                       /\ gop.mrp.non_base_ref_list1_count = 0
BY LdAssumption, LdTableAssumption DEF Levels, Reduced

\* What a walk leaves alone, and what it knows of the picture.
WalkFinds(pd, n, walk) ==
  /\ walk.pd.lay0 = pd.lay0 /\ walk.pd.lay1 = pd.lay1 /\ walk.pd.long_base = pd.long_base
  /\ walk.pd.after_key = IsKeyFrame(gop, n)
  /\ walk.pic.hier = Levels /\ ~walk.pic.cut_short
  /\ walk.pic.layer = TemporalLayer(Levels, walk.pd.position)
  /\ walk.pic.pic_idx = PicIdxInMg(walk.pd.position, Mg)

LEMMA WalkKnows ==
  ASSUME NEW pd, Decision(pd), NEW n \in Nat, gop \in LdConfigs,
         NEW walk, walk = WalkPosition(gop, pd, n)
  PROVE  WalkFinds(pd, n, walk)
<1>. DEFINE pos == NextPosition(pd, IsKeyFrame(gop, n), FALSE, 2 ^ gop.hierarchical_levels)
            key == IsKeyFrame(gop, n)
            idr == IF key THEN n ELSE pd.last_idr
<1>1. walk.pd = [pd EXCEPT !.position = pos, !.after_key = key, !.last_idr = idr]
  BY DEF WalkPosition
<1>2. /\ walk.pic.hier = Levels /\ ~walk.pic.cut_short
      /\ walk.pic.layer = TemporalLayer(Levels, pos)
      /\ walk.pic.pic_idx = PicIdxInMg(pos, Mg)
  BY DEF WalkPosition, Levels, Mg
<1>. HIDE DEF pos, key, idr
<1>3. /\ walk.pd.lay0 = pd.lay0 /\ walk.pd.lay1 = pd.lay1 /\ walk.pd.long_base = pd.long_base
      /\ walk.pd.after_key = key /\ walk.pd.position = pos
  BY <1>1 DEF Decision
<1>. QED
  BY <1>2, <1>3, Zenon DEF WalkFinds, key

\* What an inter decision changes: rings, long-term base and slots, by its refresh; and
\* what it takes from its row, by the counts of the two lists.
Row(pd, pic) == IF gop.rc = "cbr" THEN CbrRow(gop, pd, pic) ELSE LowDelayRow(gop, pd, pic)
Freshened(pd, pic) ==
  LET is_ref == IsPicUsedAsRef(pic.hier, pic.layer, pic.pic_idx, gop.mrp.referencing_scheme)
  IN  IF gop.rc = "cbr" THEN CbrRefresh(gop, pd, pic, is_ref)
                        ELSE LowDelayRefresh(gop, pd, pic, is_ref)
Counts(pd, pic) == RefListCounts(gop, pic, [i \in 1..7 |-> pd.dpb[Row(pd, pic)[i]]])

InterFinds(pd, pic, d) ==
  /\ d.pd.position = pd.position /\ d.pd.after_key = pd.after_key /\ d.pd.last_idr = pd.last_idr
  /\ d.pd.lay0 = Freshened(pd, pic).lay0 /\ d.pd.long_base = Freshened(pd, pic).long_base
  /\ d.pd.dpb = [s \in Slots |-> IF s \in Freshened(pd, pic).mask THEN pic.poc ELSE pd.dpb[s]]
  /\ d.pic.poc = pic.poc /\ d.pic.layer = pic.layer /\ d.pic.key = pic.key
  /\ DOMAIN d.pic.refs = 1..7
  /\ \A r \in 1..7 :
       /\ d.pic.refs[r] = Row(pd, pic)[PrunedEntry(Counts(pd, pic))[r]]
       /\ d.pic.ref_pocs[r] = pd.dpb[d.pic.refs[r]]

LEMMA InterKnows ==
  ASSUME NEW pd, Decision(pd), gop \in LdConfigs, NEW pic, Walked(pic),
         NEW d, d = DecideLowDelay(gop, pd, pic)
  PROVE  InterFinds(pd, pic, d)
<1>. DEFINE slots  == Row(pd, pic)
            fresh  == Freshened(pd, pic)
            pocs   == [i \in 1..7 |-> pd.dpb[slots[i]]]
            counts == RefListCounts(gop, pic, pocs)
            entry  == PrunedEntry(counts)
            more   == [refs     |-> [i \in 1..7 |-> slots[entry[i]]],
                       ref_pocs |-> [i \in 1..7 |-> pocs[entry[i]]],
                       list0    |-> counts.list0,
                       list1    |-> counts.list1,
                       refresh  |-> fresh.mask,
                       show     |-> TRUE]
            held   == [s \in Slots |-> IF s \in fresh.mask THEN pic.poc ELSE pd.dpb[s]]
<1>1. /\ d.pd = [pd EXCEPT !.lay0 = fresh.lay0, !.lay1 = fresh.lay1,
                           !.long_base = fresh.long_base, !.dpb = held]
      /\ d.pic = WithFields(pic, more)
  BY DEF DecideLowDelay, Row, Freshened
<1>2. \A i \in 1..7 : entry[i] \in 1..7
  BY PruningFolds
<1>3. counts = Counts(pd, pic)
  BY DEF Counts
<1>. HIDE DEF slots, fresh, counts, entry
<1>4. /\ DOMAIN more.refs = 1..7
      /\ \A r \in 1..7 : more.refs[r] = slots[entry[r]] /\ more.ref_pocs[r] = pd.dpb[more.refs[r]]
  BY <1>2
<1>5. {"refs", "ref_pocs", "refresh"} \subseteq DOMAIN more
  OBVIOUS
<1>. HIDE DEF more, pocs, held
<1>6. /\ d.pd.position = pd.position /\ d.pd.after_key = pd.after_key
      /\ d.pd.last_idr = pd.last_idr /\ d.pd.lay0 = fresh.lay0
      /\ d.pd.long_base = fresh.long_base /\ d.pd.dpb = held
  BY <1>1 DEF Decision
<1>7. /\ d.pic.poc = pic.poc /\ d.pic.key = pic.key
      /\ d.pic.refs = more.refs /\ d.pic.ref_pocs = more.ref_pocs
  BY <1>1, <1>5, DecidedFields
<1>8. d.pic.layer = pic.layer
  BY <1>1 DEF WithFields, Walked
<1>. QED
  BY <1>3, <1>4, <1>6, <1>7, <1>8, Zenon DEF InterFinds, held, slots, fresh, entry

\* A key frame keeps the long-term base and starts the walk again.
KeyFinds(pd, d) ==
  /\ d.pd.position = pd.position /\ d.pd.after_key = pd.after_key /\ d.pd.last_idr = pd.last_idr
  /\ d.pd.lay0 = 0 /\ d.pd.long_base = pd.long_base

LEMMA KeyKnows ==
  ASSUME NEW pd, Decision(pd), NEW pic, NEW d, d = DecideKey(pd, pic)
  PROVE  KeyFinds(pd, d)
<1>. DEFINE all == [s \in Slots |-> pic.poc]
<1>1. d.pd = [pd EXCEPT !.lay0 = 0, !.lay1 = 0, !.dpb = all]
  BY DEF DecideKey
<1>. HIDE DEF all
<1>. QED
  BY <1>1 DEF Decision, KeyFinds

\* The picture becomes the long-term reference.
BecomesLong(pd, pic) == pic.layer = 0 /\ pic.poc - pd.long_base >= LONG_BASE_PIC

\* Without reduction only such a picture takes the long-term slot.
RefreshesLong(pd, pic, f) ==
  /\ f.long_base = IF BecomesLong(pd, pic) THEN pic.poc ELSE pd.long_base
  /\ ~Reduced => (7 \in f.mask <=> BecomesLong(pd, pic))

\* With it, base pictures take the first slot and the layer-1 picture the second.
RefreshesTwo(pd, pic, f) ==
  /\ f.lay0 = 0
  /\ pic.layer = 0 => 0 \in f.mask /\ 1 \notin f.mask
  /\ pic.layer # 0 => 0 \notin f.mask
  /\ pic.layer = 1 /\ pic.hier >= 2 => 1 \in f.mask

BaseSlots == IF Reduced THEN {0} ELSE {0, 1, 2, LONG_BASE_IDX}

\* Under CBR layer 2 has a slot of its own, or none, and layer 1 takes no base slot.
RefreshesNested(pic, f) ==
  /\ pic.layer >= 2 => \A s \in f.mask : s = LAY2_OFF /\ ~Reduced
  /\ pic.layer >= 1 => \A s \in f.mask : s \notin BaseSlots

LEMMA CqpRefreshes ==
  ASSUME gop \in LdConfigs, gop.rc = "cqp", NEW pd, Decision(pd), Reduced => pd.lay0 = 0,
         NEW pic, pic.layer \in Nat, pic.hier \in Nat,
         NEW f, f = Freshened(pd, pic)
  PROVE  RefreshesLong(pd, pic, f) /\ (Reduced => RefreshesTwo(pd, pic, f))
<1>. DEFINE is_ref == IsPicUsedAsRef(pic.hier, pic.layer, pic.pic_idx, gop.mrp.referencing_scheme)
            long == BecomesLong(pd, pic)
            reduce == gop.mrp.ld_reduce_ref_buffs
<1>1. pd.lay0 \in 0..2 /\ pd.lay1 \in 0..2
  BY DEF Decision
<1>2. pic.layer = 1 /\ pic.hier >= 2 => is_ref
  BY DEF IsPicUsedAsRef
<1>3. reduce \in {0, 2} /\ (Reduced <=> reduce = 2)
  BY TableFacts DEF Reduced
<1>4. f = LowDelayRefresh(gop, pd, pic, is_ref)
  BY DEF Freshened
<1>. HIDE DEF is_ref, reduce
<1>5. f.long_base = IF long THEN pic.poc ELSE pd.long_base
  BY <1>4 DEF LowDelayRefresh, BecomesLong
<1>6. CASE reduce = 0
  <2>1. \E s \in 0..5 : f.mask = {s} \cup (IF long THEN {7} ELSE {})
                        \/ f.mask = (IF long THEN {7} ELSE {})
    <3>. DEFINE lay0 == IF pic.layer = 0 THEN CircInc(pd.lay0, 0, 2) ELSE pd.lay0
                lay1 == IF pic.layer # 0 /\ is_ref THEN CircInc(pd.lay1, 0, 2) ELSE pd.lay1
                last == IF long THEN {7} ELSE {}
    <3>1. lay0 \in 0..2 /\ lay1 \in 0..2
      BY <1>1 DEF CircInc
    <3>2. f.mask = IF pic.layer = 0 THEN {lay0} \cup last
                   ELSE IF is_ref THEN {3 + lay1} \cup last ELSE {} \cup last
      BY <1>4, <1>6 DEF LowDelayRefresh, BecomesLong, reduce, LAY1_OFF, LONG_BASE_IDX
    <3>. HIDE DEF lay0, lay1, last
    <3>3. \E s \in 0..5 : f.mask = {s} \cup last \/ f.mask = last
      BY <3>1, <3>2
    <3>. QED
      BY <3>3 DEF last
  <2>2. 7 \in f.mask <=> long
    BY <2>1
  <2>. QED
    BY <1>3, <1>5, <1>6, <2>2 DEF RefreshesLong
<1>7. CASE reduce = 2
  <2>1. f.lay0 = 0
    BY <1>3, <1>4, <1>7 DEF LowDelayRefresh, reduce
  <2>2. \E last \in {{}, {7}} :
          f.mask = IF pic.layer = 0 THEN ({0} \cup 2..7) \cup last
                   ELSE IF is_ref THEN {1} \cup last ELSE {} \cup last
    BY <1>3, <1>4, <1>7 DEF LowDelayRefresh, reduce, LONG_BASE_IDX
  <2>. QED
    BY <1>2, <1>3, <1>5, <1>7, <2>1, <2>2 DEF RefreshesLong, RefreshesTwo
<1>. QED
  BY <1>3, <1>6, <1>7

LEMMA CbrRefreshes ==
  ASSUME gop \in LdConfigs, gop.rc = "cbr", NEW pd, Decision(pd), Reduced => pd.lay0 = 0,
         NEW pic, pic.layer \in Nat, pic.hier \in Nat, pic.layer <= pic.hier,
         NEW f, f = Freshened(pd, pic)
  PROVE  /\ RefreshesLong(pd, pic, f)
         /\ Reduced => RefreshesTwo(pd, pic, f)
         /\ RefreshesNested(pic, f)
<1>. DEFINE is_ref == IsPicUsedAsRef(pic.hier, pic.layer, pic.pic_idx, gop.mrp.referencing_scheme)
            long == BecomesLong(pd, pic)
            reduce == gop.mrp.ld_reduce_ref_buffs
            second == pic.layer = 1 /\ (pic.hier = 1 => is_ref)
            last == IF long THEN {7} ELSE {}
<1>1. pd.lay0 \in 0..2 /\ pd.lay1 \in 0..1
  BY DEF Decision
<1>3. reduce \in {0, 2} /\ (Reduced <=> reduce = 2)
  BY TableFacts DEF Reduced
<1>4. f = CbrRefresh(gop, pd, pic, is_ref)
  BY DEF Freshened
<1>. HIDE DEF is_ref, reduce
<1>5. f.long_base = IF long THEN pic.poc ELSE pd.long_base
  BY <1>4 DEF CbrRefresh, BecomesLong
<1>6. pic.layer # 0 => last = {}
  BY DEF BecomesLong
<1>7. CASE reduce = 0
  <2>. DEFINE lay0 == IF pic.layer = 0 THEN CircInc(pd.lay0, 0, 2) ELSE pd.lay0
              lay1 == IF second THEN 1 - pd.lay1 ELSE pd.lay1
  <2>1. lay0 \in 0..2 /\ lay1 \in 0..1
    BY <1>1 DEF CircInc
  <2>2. f.mask = IF pic.layer = 0 THEN {lay0} \cup last
                 ELSE IF second THEN {3 + lay1} \cup last
                 ELSE IF pic.layer = 2 /\ is_ref THEN {5} \cup last ELSE {} \cup last
    BY <1>4, <1>7 DEF CbrRefresh, BecomesLong, reduce, LAY1_OFF, LAY2_OFF, LONG_BASE_IDX
  <2>3. BaseSlots = {0, 1, 2, 7}
    BY <1>3, <1>7 DEF BaseSlots, LONG_BASE_IDX
  <2>. HIDE DEF lay0, lay1, last
  <2>4. pic.layer = 0 => 7 \in f.mask <=> 7 \in last
    BY <2>1, <2>2
  <2>5. pic.layer # 0 => 7 \notin f.mask
    BY <1>6, <2>1, <2>2
  <2>6. pic.layer >= 2 => \A s \in f.mask : s = 5
    BY <1>6, <2>2
  <2>7. pic.layer >= 1 => \A s \in f.mask : s \in 3..5
    BY <1>6, <2>1, <2>2
  <2>8. 7 \in last <=> long
    BY DEF last
  <2>9. 7 \in f.mask <=> long
    BY <2>4, <2>5, <2>8 DEF BecomesLong
  <2>10. pic.layer >= 1 => \A s \in f.mask : s \notin BaseSlots
    BY <2>3, <2>7
  <2>. QED
    BY <1>3, <1>5, <1>7, <2>6, <2>9, <2>10 DEF RefreshesLong, RefreshesNested, LAY2_OFF
<1>8. CASE reduce = 2
  <2>1. f.lay0 = 0 /\ CbrLayer1(gop, pd) = 1
    BY <1>3, <1>4, <1>8 DEF CbrRefresh, CbrLayer1, reduce
  <2>2. f.mask = IF pic.layer = 0 THEN ({0} \cup 2..7) \cup last
                 ELSE IF second THEN ({1} \cup 2..7) \cup last ELSE {} \cup last
    <3>1. f.mask = IF pic.layer = 0 THEN ({f.lay0} \cup 2..7) \cup last
                   ELSE IF second THEN ({CbrLayer1(gop, pd)} \cup 2..7) \cup last
                   ELSE {} \cup last
      BY <1>4, <1>8 DEF CbrRefresh, BecomesLong, reduce, LONG_BASE_IDX
    <3>. QED
      BY <2>1, <3>1
  <2>3. BaseSlots = {0}
    BY <1>3, <1>8 DEF BaseSlots
  <2>. HIDE DEF last
  <2>4. last \in {{}, {7}}
    BY DEF last
  <2>5. RefreshesTwo(pd, pic, f)
    <3>1. pic.layer = 1 /\ pic.hier >= 2 => second
      OBVIOUS
    <3>. HIDE DEF second
    <3>2. pic.layer = 0 => 0 \in f.mask /\ 1 \notin f.mask
      BY <2>2, <2>4
    <3>3. pic.layer # 0 => 0 \notin f.mask
      BY <2>2, <2>4
    <3>4. pic.layer = 1 /\ pic.hier >= 2 => 1 \in f.mask
      BY <2>2, <3>1
    <3>. QED
      BY <2>1, <3>2, <3>3, <3>4, Zenon DEF RefreshesTwo
  <2>6. pic.layer >= 2 => f.mask = {}
    BY <1>6, <2>2
  <2>7. pic.layer >= 1 => 0 \notin f.mask
    BY <1>6, <2>2
  <2>. QED
    BY <1>3, <1>5, <1>8, <2>3, <2>5, <2>6, <2>7 DEF RefreshesLong, RefreshesNested
<1>. QED
  BY <1>3, <1>7, <1>8

\* Where in its mini-GOP a walk finds a picture.
Placed(pic, pos) ==
  /\ pos \in 0..(Mg - 1)
  /\ pic.hier = Levels
  /\ pic.layer = TemporalLayer(Levels, pos)
  /\ pic.pic_idx = PicIdxInMg(pos, Mg)

\* The upper half of a mini-GOP of at least two levels, without its layer-1 picture.
UpperHalf(pos) == Levels >= 2 /\ pos > 2 ^ (Levels - 1)

\* With one reference in list 0 and none in list 1 every entry folds onto LAST.
LEMMA OneReference ==
  ASSUME gop \in LdConfigs, Reduced, NEW pd, NEW pic, NEW r \in 1..7
  PROVE  PrunedEntry(Counts(pd, pic))[r] = 1
<1>. DEFINE pocs == [i \in 1..7 |-> pd.dpb[Row(pd, pic)[i]]]
            counts == RefListCounts(gop, pic, pocs)
<1>1. \A earlier : IsFiniteSet(DOMAIN earlier) => DistinctRun(pocs, earlier) \in Nat
  <2>. SUFFICES ASSUME NEW earlier, IsFiniteSet(DOMAIN earlier)
                PROVE  DistinctRun(pocs, earlier) \in Nat
    OBVIOUS
  <2>. HIDE DEF pocs
  <2>. DEFINE stops == {i \in DOMAIN earlier : \E j \in earlier[i] : pocs[i] = pocs[j]}
              run   == {i \in DOMAIN earlier : \A s \in stops : i < s}
  <2>1. run \subseteq DOMAIN earlier
    OBVIOUS
  <2>2. DistinctRun(pocs, earlier) = Cardinality(run)
    BY DEF DistinctRun
  <2>. HIDE DEF run
  <2>. QED
    BY <2>1, <2>2, FS_Subset, FS_CardinalityType
<1>. DEFINE f == [i \in LAST2..GOLD |-> LAST..(i - 1)]
<1>2. counts.list0 = 1
  <2>1. counts.list0 = Smaller(1 + DistinctRun(pocs, f), 1)
    BY TableFacts DEF RefListCounts
  <2>2. DistinctRun(pocs, f) \in Nat
    <3>1. IsFiniteSet(2..4)
      BY FS_Interval, 2 \in Int, 4 \in Int, Zenon
    <3>2. DOMAIN f = 2..4
      BY DEF LAST2, GOLD
    <3>. HIDE DEF f, pocs
    <3>. QED
      BY <1>1, <3>1, <3>2
  <2>. HIDE DEF f, pocs, counts
  <2>. QED
    BY <2>1, <2>2 DEF Smaller
<1>3. counts.list1 = 0
  <2>. DEFINE n == Smaller(1 + DistinctRun(pocs, f), 1)
              g == [i \in BWD..ALT |-> {j \in (IF i = BWD THEN LAST2 ELSE LAST)..(i - 1) :
                                          j <= GOLD => j <= n}]
  <2>1. counts.list1 = IF pic.cut_short THEN 0 ELSE Smaller(DistinctRun(pocs, g), 0)
    BY TableFacts DEF RefListCounts
  <2>2. DistinctRun(pocs, g) \in Nat
    <3>1. IsFiniteSet(5..7)
      BY FS_Interval, 5 \in Int, 7 \in Int, Zenon
    <3>2. DOMAIN g = 5..7
      BY DEF BWD, ALT
    <3>. HIDE DEF g, pocs
    <3>. QED
      BY <1>1, <3>1, <3>2
  <2>. HIDE DEF g, pocs, counts
  <2>. QED
    BY <2>1, <2>2 DEF Smaller
<1>4. Counts(pd, pic) = counts
  BY DEF Counts
<1>. HIDE DEF counts
<1>. QED
  BY <1>2, <1>3, <1>4 DEF PrunedEntry, LAST

\* The one reference is the base picture or the last picture of a higher layer.
TwoSlots(row, pic, pos) ==
  /\ row[1] \in {0, 1}
  /\ pic.layer = 0 => row[1] = 0
  /\ row[1] = 1 => UpperHalf(pos)

LEMMA RowsOfTwo ==
  ASSUME gop \in LdConfigs, Reduced, NEW pd, pd.lay0 = 0, NEW pic, NEW pos, Placed(pic, pos)
  PROVE  TwoSlots(Row(pd, pic), pic, pos)
<1>. DEFINE row == Row(pd, pic)
            h == Levels
<1>1. /\ h \in 0..5 /\ Mg \in Powers /\ pos \in 0..(Mg - 1)
      /\ pic.hier = h /\ pic.layer = TemporalLayer(h, pos)
      /\ pic.pic_idx = IF pos = 0 THEN 0 ELSE (pos - 1) % Mg
  BY TableFacts, LevelPowers DEF Placed, PicIdxInMg, Mg
<1>2. Mg \in Nat /\ Mg >= 1
  BY <1>1 DEF Powers
<1>3. pos # 0 => pic.pic_idx = pos - 1
  <2>1. pos # 0 => pos - 1 \in Nat /\ pos - 1 < Mg
    BY <1>1, <1>2
  <2>2. \A a \in Nat : a < Mg => a % Mg = a
    BY <1>2
  <2>. QED
    BY <1>1, <2>1, <2>2
<1>4. TemporalLayer(h, 0) = 0
  BY <1>1, LayersOfLevels
<1>5. pic.layer # 0 => pos # 0 /\ h # 0
  <2>1. h = 0 => pos = 0
    <3>1. h = 0 => Mg = 1
      BY DEF Mg
    <3>. QED
      BY <1>1, <3>1
  <2>. QED
    BY <1>1, <1>4, <2>1
<1>6. CASE gop.rc = "cqp"
  <2>. DEFINE half == IF pic.hier = 0 THEN 0 ELSE 2 ^ (pic.hier - 1) - 1
              list1 == IF pic.layer = 0 THEN gop.mrp.base_ref_list1_count
                                        ELSE gop.mrp.non_base_ref_list1_count
              past_l1 == pic.pic_idx > half /\ pic.layer # 0 /\ list1 = 0
  <2>1. row[1] = IF past_l1 THEN 1 ELSE 0
    BY <1>6 DEF Row, LowDelayRow, Reduced
  <2>2. past_l1 => UpperHalf(pos)
    <3>. SUFFICES ASSUME past_l1 PROVE UpperHalf(pos)
      OBVIOUS
    <3>1. pos # 0 /\ h # 0 /\ pic.layer # 0 /\ pic.pic_idx = pos - 1
      BY <1>3, <1>5
    <3>2. half = 2 ^ (h - 1) - 1 /\ pic.pic_idx > half
      BY <1>1, <3>1
    <3>. HIDE DEF half
    <3>3. 2 ^ (h - 1) \in Nat
      <4>1. h - 1 \in 0..5
        BY <1>1, <3>1
      <4>2. 2 ^ (h - 1) \in Powers
        BY <4>1, LevelPowers
      <4>. QED
        BY <4>2 DEF Powers
    <3>. DEFINE e == 2 ^ (h - 1)
    <3>4. pos - 1 > e - 1 /\ e \in Nat
      BY <3>1, <3>2, <3>3, Zenon
    <3>. HIDE DEF e
    <3>5. pos > e
      BY <1>1, <3>4
    <3>6. h >= 2
      <4>1. ASSUME h = 1 PROVE FALSE
        <5>1. Mg = 2 /\ e = 1
          BY <4>1 DEF Mg, e
        <5>. QED
          BY <1>1, <3>5, <5>1
      <4>. QED
        BY <1>1, <3>1, <4>1
    <3>. QED
      BY <3>5, <3>6, Zenon DEF UpperHalf, e
  <2>3. pic.layer = 0 => ~past_l1
    OBVIOUS
  <2>. HIDE DEF past_l1, row
  <2>4. row[1] \in {0, 1} /\ (pic.layer = 0 => row[1] = 0) /\ (row[1] = 1 => UpperHalf(pos))
    BY <2>1, <2>2, <2>3
  <2>. QED
    BY <2>4, Zenon DEF TwoSlots, row
<1>7. CASE gop.rc = "cbr"
  <2>1. CbrLayer1(gop, pd) = 1
    BY DEF CbrLayer1, Reduced
  <2>. DEFINE base1  == CircDec(pd.lay0, 0, 2)
              base0  == CircDec(base1, 0, 2)
              lay1_1 == CbrLayer1(gop, pd)
              lay1_0 == CircDec(lay1_1, LAY1_OFF, LAY1_OFF + 1)
              second == pic.layer = 2 /\ pic.pic_idx = 2
              list0 == CASE pic.layer = 0 /\ pic.hier = 1 ->
                              <<pd.lay0, base1, LONG_BASE_IDX, base0>>
                         [] pic.layer = 0 /\ pic.hier # 1 ->
                              <<pd.lay0, base0, LONG_BASE_IDX, pd.lay0>>
                         [] pic.layer = 1 /\ pic.hier = 1 /\ gop.mrp.referencing_scheme = 0 ->
                              <<pd.lay0, base1, base1, pd.lay0>>
                         [] pic.layer = 2 /\ pic.pic_idx = 2 ->
                              <<lay1_1, pd.lay0, lay1_0, lay1_1>>
                         [] OTHER -> <<pd.lay0, lay1_1, base1, pd.lay0>>
  <2>2. row = list0 \o <<list0[1], list0[1], list0[1]>>
    BY <1>7 DEF Row, CbrRow
  <2>3. \E x, y, z, w : list0 = <<x, y, z, w>> /\ x = IF second THEN lay1_1 ELSE pd.lay0
    <3>. HIDE DEF base1, base0, lay1_1, lay1_0
    <3>. QED
      OBVIOUS
  <2>4. row[1] = IF second THEN 1 ELSE 0
    <3>1. PICK x, y, z, w : list0 = <<x, y, z, w>> /\ x = IF second THEN lay1_1 ELSE pd.lay0
      BY <2>3
    <3>. HIDE DEF list0
    <3>2. row = <<x, y, z, w>> \o <<x, x, x>>
      BY <2>2, <3>1
    <3>3. row[1] = x
      BY <3>2
    <3>. QED
      BY <2>1, <3>1, <3>3
  <2>5. second => UpperHalf(pos)
    <3>. SUFFICES ASSUME second PROVE UpperHalf(pos)
      OBVIOUS
    <3>1. pos = 3 /\ TemporalLayer(h, 3) = 2
      <4>1. pos # 0 /\ pic.pic_idx = pos - 1
        BY <1>3, <1>5
      <4>. QED
        BY <1>1, <4>1
    <3>2. h = 2
      <4>1. 3 <= 2 ^ h - 1
        <5>1. 3 <= Mg - 1
          BY <1>1, <1>2, <3>1
        <5>. QED
          BY <5>1, Zenon DEF Mg
      <4>. QED
        BY <1>1, <3>1, <4>1, LayersOfLevels, Zenon
    <3>3. 2 ^ (h - 1) = 2
      BY <3>2
    <3>. QED
      BY <3>1, <3>2, <3>3 DEF UpperHalf
  <2>. HIDE DEF row
  <2>6. row[1] \in {0, 1} /\ (pic.layer = 0 => row[1] = 0) /\ (row[1] = 1 => UpperHalf(pos))
    BY <2>4, <2>5
  <2>. QED
    BY <2>6, Zenon DEF TwoSlots, row
<1>. QED
  BY <1>6, <1>7, TableFacts

\* Under CBR a base picture names base slots and the long-term one, any other picture
\* the slots of the first two layers.
NestedRow(row, pic) ==
  \A i \in 1..7 : row[i] \in IF pic.layer = 0 THEN {0, 1, 2, LONG_BASE_IDX} ELSE 0..4

LEMMA RowsNest ==
  ASSUME gop \in LdConfigs, gop.rc = "cbr", NEW pd, Decision(pd), Reduced => pd.lay0 = 0, NEW pic
  PROVE  NestedRow(Row(pd, pic), pic)
<1>. DEFINE row == Row(pd, pic)
            base1  == CircDec(pd.lay0, 0, 2)
            base0  == CircDec(base1, 0, 2)
            lay1_1 == CbrLayer1(gop, pd)
            lay1_0 == CircDec(lay1_1, LAY1_OFF, LAY1_OFF + 1)
            may == IF pic.layer = 0 THEN {0, 1, 2, LONG_BASE_IDX} ELSE 0..4
            list0 == CASE pic.layer = 0 /\ pic.hier = 1 ->
                            <<pd.lay0, base1, LONG_BASE_IDX, base0>>
                       [] pic.layer = 0 /\ pic.hier # 1 ->
                            <<pd.lay0, base0, LONG_BASE_IDX, pd.lay0>>
                       [] pic.layer = 1 /\ pic.hier = 1 /\ gop.mrp.referencing_scheme = 0 ->
                            <<pd.lay0, base1, base1, pd.lay0>>
                       [] pic.layer = 2 /\ pic.pic_idx = 2 ->
                            <<lay1_1, pd.lay0, lay1_0, lay1_1>>
                       [] OTHER -> <<pd.lay0, lay1_1, base1, pd.lay0>>
<1>1. pd.lay0 \in 0..2 /\ pd.lay1 \in 0..1
  BY DEF Decision
<1>2. base1 \in 0..2
  BY <1>1 DEF CircDec
<1>3. base0 \in 0..2
  BY <1>2 DEF CircDec
<1>4. lay1_1 \in 0..4
  BY <1>1, TableFacts DEF CbrLayer1, LAY1_OFF
<1>5. lay1_0 \in 0..4
  BY <1>4 DEF CircDec, LAY1_OFF
<1>. HIDE DEF base1, base0, lay1_1, lay1_0
<1>6. /\ pd.lay0 \in may /\ base1 \in may /\ base0 \in may
      /\ pic.layer = 0 => LONG_BASE_IDX \in may
      /\ pic.layer # 0 => lay1_1 \in may /\ lay1_0 \in may
  BY <1>1, <1>2, <1>3, <1>4, <1>5
<1>. HIDE DEF may
<1>7. \E a, b, c, d \in may : list0 = <<a, b, c, d>>
  <2>1. CASE pic.layer = 0
    <3>1. pic.hier = 1 => list0 = <<pd.lay0, base1, LONG_BASE_IDX, base0>>
      BY <2>1
    <3>2. pic.hier # 1 => list0 = <<pd.lay0, base0, LONG_BASE_IDX, pd.lay0>>
      BY <2>1
    <3>. QED
      BY <1>6, <2>1, <3>1, <3>2, Zenon
  <2>2. CASE pic.layer # 0
    <3>1. \/ list0 = <<pd.lay0, base1, base1, pd.lay0>>
          \/ list0 = <<lay1_1, pd.lay0, lay1_0, lay1_1>>
          \/ list0 = <<pd.lay0, lay1_1, base1, pd.lay0>>
      BY <2>2
    <3>. HIDE DEF list0
    <3>. QED
      BY <1>6, <2>2, <3>1, Zenon
  <2>. QED
    BY <2>1, <2>2
<1>8. row = list0 \o <<list0[1], list0[1], list0[1]>>
  BY DEF Row, CbrRow, base1, base0, lay1_1, lay1_0
<1>. HIDE DEF list0, row
<1>9. PICK a, b, c, d \in may : list0 = <<a, b, c, d>>
  BY <1>7
<1>10. row = <<a, b, c, d>> \o <<a, a, a>>
  BY <1>8, <1>9
<1>11. \A i \in 1..7 : row[i] \in may
  BY <1>10
<1>. QED
  BY <1>11, Zenon DEF NestedRow, row, may

-----------------------------------------------------------------------------
(* The decision state behind picture n of a stream in which no call failed. *)

\* The walk counts from the last key frame.
Walks(pd, n) ==
  /\ n \in Nat
  /\ pd.last_idr \in 0..n
  /\ pd.position = (n - pd.last_idr) % Mg
  /\ pd.after_key => pd.last_idr = n

\* The last base picture is less than the renewal distance from the long-term one.
Renews(pd, n) ==
  /\ pd.long_base \in 0..pd.dpb[7]
  /\ pd.dpb[7] <= n - pd.position
  /\ n - pd.position - pd.dpb[7] < LONG_BASE_PIC
  /\ (pd.dpb[7] - pd.last_idr) % Mg = 0

\* The two buffers hold the last base picture, and in the upper half of the mini-GOP
\* a picture of this mini-GOP.
HoldsTwo(pd, n) ==
  /\ pd.dpb[0] = n - pd.position
  /\ Levels >= 2 /\ pd.position >= 2 ^ (Levels - 1) => pd.dpb[1] >= n - pd.position

SlotLayer(pd, s) == TemporalLayer(Levels, (pd.dpb[s] - pd.last_idr) % Mg)

\* Base slots hold base pictures; only layer 2's own slot one above layer 1.
Nests(pd) ==
  \A s \in Slots : /\ s \in BaseSlots => SlotLayer(pd, s) = 0
                   /\ s # LAY2_OFF \/ Reduced => SlotLayer(pd, s) \in 0..1

Fresh(pd, n) ==
  /\ Walks(pd, n)
  /\ ~Reduced => Renews(pd, n)
  /\ Reduced => HoldsTwo(pd, n)
  /\ gop.rc = "cbr" => Nests(pd)

\* One more picture, pic, in front of which the state was pd and behind which it is q.
StepsOn(pd, pic, q, f, n) ==
  /\ q.position \in 0..(Mg - 1)
  /\ q.position = IF pd.position + 1 = Mg THEN 0 ELSE pd.position + 1
  /\ q.last_idr = pd.last_idr
  /\ q.long_base = f.long_base
  /\ q.dpb = [s \in Slots |-> IF s \in f.mask THEN n ELSE pd.dpb[s]]
  /\ pic.poc = n
  /\ pic.layer = TemporalLayer(Levels, q.position)

\* What a state behind picture n knows of its position.
LEMMA PositionKnown ==
  ASSUME gop \in LdConfigs, NEW pd, NEW n, Walks(pd, n)
  PROVE  /\ Levels \in 0..5 /\ Mg \in Powers /\ Mg \in Nat /\ Mg >= 1
         /\ n \in Nat /\ pd.last_idr \in Nat /\ pd.last_idr <= n
         /\ pd.position \in Nat /\ pd.position < Mg /\ pd.position <= n - pd.last_idr
         /\ (n - pd.position - pd.last_idr) % Mg = 0
<1>1. Levels \in 0..5 /\ Mg \in Powers
  BY TableFacts, LevelPowers DEF Mg
<1>2. Mg \in Nat /\ Mg >= 1
  BY <1>1 DEF Powers
<1>. DEFINE a == n - pd.last_idr
            p == a % Mg
<1>3. n \in Nat /\ pd.last_idr \in Nat /\ pd.last_idr <= n /\ a \in Nat /\ pd.position = p
  BY DEF Walks
<1>. HIDE DEF a
<1>4. p \in 0..(Mg - 1) /\ p <= a /\ (a - p) % Mg = 0
  BY <1>1, <1>3, AroundTheMg
<1>. HIDE DEF p
<1>5. n - p - pd.last_idr = a - p
  BY <1>2, <1>3, <1>4 DEF a
<1>. QED
  BY <1>1, <1>2, <1>3, <1>4, <1>5 DEF a

\* Layer 0 is the first position.
LEMMA BaseLayer ==
  ASSUME gop \in LdConfigs, NEW p \in Nat, p < Mg
  PROVE  /\ TemporalLayer(Levels, p) \in Nat
         /\ TemporalLayer(Levels, p) = 0 <=> p = 0
<1>1. Levels \in 0..5
  BY TableFacts
<1>2. Mg \in Nat
  BY <1>1, LevelPowers DEF Mg, Powers
<1>3. TemporalLayer(Levels, 0) = 0
  BY <1>1, LayersOfLevels, Zenon
<1>4. \A x \in 1..(Mg - 1) : TemporalLayer(Levels, x) \in 1..5
  BY <1>1, LayersOfLevels, Zenon DEF Mg
<1>5. p # 0 => TemporalLayer(Levels, p) \in 1..5
  <2>1. p # 0 => p \in 1..(Mg - 1)
    BY <1>2
  <2>. QED
    BY <1>4, <2>1, Zenon
<1>. QED
  BY <1>3, <1>5

\* The base picture stays the same until the next one.
LEMMA BaseKept ==
  ASSUME gop \in LdConfigs, NEW pd, NEW n \in Nat, n # 0, Walks(pd, n - 1),
         NEW pic, NEW q, NEW f, StepsOn(pd, pic, q, f, n)
  PROVE  /\ q.position \in Nat /\ q.position < Mg
         /\ pic.layer \in Nat /\ (pic.layer = 0 <=> q.position = 0)
         /\ q.position # 0 => n - q.position = (n - 1) - pd.position
         /\ (n - 1) - pd.position < n
         /\ n - Mg <= (n - 1) - pd.position
         /\ Walks(q, n) \/ q.after_key
<1>1. /\ Mg \in Powers /\ Mg \in Nat /\ Mg >= 1
      /\ pd.last_idr \in Nat /\ pd.last_idr <= n - 1
      /\ pd.position \in Nat /\ pd.position < Mg
  BY PositionKnown
<1>2. /\ q.position \in 0..(Mg - 1) /\ q.last_idr = pd.last_idr
      /\ q.position = IF pd.position + 1 = Mg THEN 0 ELSE pd.position + 1
      /\ pic.layer = TemporalLayer(Levels, q.position)
  BY DEF StepsOn
<1>3. q.position \in Nat /\ q.position < Mg
  BY <1>1, <1>2
<1>4. pic.layer \in Nat /\ (pic.layer = 0 <=> q.position = 0)
  BY <1>2, <1>3, BaseLayer
<1>5. /\ q.position # 0 => n - q.position = (n - 1) - pd.position
      /\ (n - 1) - pd.position < n
      /\ n - Mg <= (n - 1) - pd.position
  BY <1>1, <1>2
<1>. DEFINE a == (n - 1) - pd.last_idr
<1>6. a \in Nat /\ a + 1 = n - pd.last_idr
  BY <1>1
<1>7. pd.position = a % Mg
  BY DEF Walks
<1>. HIDE DEF a
<1>8. (a + 1) % Mg = IF (a % Mg) + 1 = Mg THEN 0 ELSE (a % Mg) + 1
  BY <1>1, <1>6, AroundTheMg
<1>9. q.position = (n - q.last_idr) % Mg
  BY <1>2, <1>6, <1>7, <1>8
<1>10. q.last_idr \in 0..n
  BY <1>1, <1>2
<1>11. ~q.after_key => Walks(q, n)
  BY <1>9, <1>10, Zenon DEF Walks
<1>. QED
  BY <1>3, <1>4, <1>5, <1>11

\* The long-term reference is renewed in time.
LEMMA StaysRenewed ==
  ASSUME gop \in LdConfigs, NEW pd, NEW n \in Nat, n # 0, Walks(pd, n - 1), Renews(pd, n - 1),
         NEW pic, NEW q, NEW f, StepsOn(pd, pic, q, f, n), ~Reduced, RefreshesLong(pd, pic, f),
         pd.dpb[7] \in Nat, Walks(q, n)
  PROVE  Renews(q, n)
<1>1. /\ q.position \in Nat
      /\ pic.layer = 0 <=> q.position = 0
      /\ q.position # 0 => n - q.position = (n - 1) - pd.position
      /\ (n - 1) - pd.position < n
  BY BaseKept
<1>2. /\ pd.long_base \in 0..pd.dpb[7]
      /\ pd.dpb[7] <= (n - 1) - pd.position
      /\ (n - 1) - pd.position - pd.dpb[7] < 128
      /\ (pd.dpb[7] - pd.last_idr) % Mg = 0
  BY DEF Renews, LONG_BASE_PIC
<1>3. pd.position \in Nat
  BY PositionKnown
<1>. DEFINE long == pic.layer = 0 /\ n - pd.long_base >= 128
<1>4. /\ q.long_base = IF long THEN n ELSE pd.long_base
      /\ 7 \in f.mask <=> long
      /\ q.last_idr = pd.last_idr
      /\ q.dpb = [s \in Slots |-> IF s \in f.mask THEN n ELSE pd.dpb[s]]
  BY DEF StepsOn, RefreshesLong, BecomesLong, LONG_BASE_PIC
<1>5. q.dpb[7] = IF long THEN n ELSE pd.dpb[7]
  BY <1>4 DEF Slots
<1>6. CASE long
  <2>1. q.position = 0 /\ q.dpb[7] = n /\ q.long_base = n
    BY <1>1, <1>4, <1>5, <1>6
  <2>2. (n - q.position - q.last_idr) % Mg = 0
    BY PositionKnown
  <2>3. (n - q.last_idr) % Mg = 0
    <3>1. n - q.position - q.last_idr = n - q.last_idr
      <4>1. q.last_idr \in Nat
        BY PositionKnown
      <4>. QED
        BY <2>1, <4>1
    <3>. QED
      BY <2>2, <3>1, Zenon
  <2>. QED
    BY <2>1, <2>3 DEF Renews, LONG_BASE_PIC
<1>7. CASE ~long
  <2>1. q.dpb[7] = pd.dpb[7] /\ q.long_base = pd.long_base /\ q.last_idr = pd.last_idr
    BY <1>4, <1>5, <1>7, Zenon
  <2>2. q.dpb[7] <= n - q.position /\ n - q.position - q.dpb[7] < 128
    <3>1. CASE q.position = 0
      <4>1. n - pd.long_base < 128
        BY <1>1, <1>2, <1>7, <3>1
      <4>. QED
        BY <1>1, <1>2, <1>3, <2>1, <3>1, <4>1
    <3>2. CASE q.position # 0
      BY <1>1, <1>2, <2>1, <3>2
    <3>. QED
      BY <3>1, <3>2
  <2>. QED
    BY <1>2, <2>1, <2>2 DEF Renews, LONG_BASE_PIC
<1>. QED
  BY <1>6, <1>7

\* The two buffers stay recent.
LEMMA StillHoldsTwo ==
  ASSUME gop \in LdConfigs, NEW pd, NEW n \in Nat, n # 0, Walks(pd, n - 1), HoldsTwo(pd, n - 1),
         NEW pic, NEW q, NEW f, StepsOn(pd, pic, q, f, n), Reduced, RefreshesTwo(pd, pic, f),
         pic.hier = Levels
  PROVE  HoldsTwo(q, n)
<1>1. /\ q.position \in Nat
      /\ pic.layer = 0 <=> q.position = 0
      /\ q.position # 0 => n - q.position = (n - 1) - pd.position
  BY BaseKept
<1>2. /\ pd.dpb[0] = (n - 1) - pd.position
      /\ Levels >= 2 /\ pd.position >= 2 ^ (Levels - 1) => pd.dpb[1] >= (n - 1) - pd.position
  BY DEF HoldsTwo
<1>3. /\ pic.layer = 0 => 0 \in f.mask
      /\ pic.layer # 0 => 0 \notin f.mask
      /\ pic.layer = 1 /\ Levels >= 2 => 1 \in f.mask
  BY Zenon DEF RefreshesTwo
<1>4. /\ q.dpb = [s \in Slots |-> IF s \in f.mask THEN n ELSE pd.dpb[s]]
      /\ pic.layer = TemporalLayer(Levels, q.position)
      /\ q.position = IF pd.position + 1 = Mg THEN 0 ELSE pd.position + 1
  BY DEF StepsOn
<1>5. /\ q.dpb[0] = IF 0 \in f.mask THEN n ELSE pd.dpb[0]
      /\ q.dpb[1] = IF 1 \in f.mask THEN n ELSE pd.dpb[1]
  BY <1>4 DEF Slots
<1>6. q.dpb[0] = n - q.position
  BY <1>1, <1>2, <1>3, <1>5
<1>7. ASSUME Levels >= 2, q.position >= 2 ^ (Levels - 1)
      PROVE  q.dpb[1] >= n - q.position
  <2>. DEFINE e == 2 ^ (Levels - 1)
  <2>1. Levels \in 0..5 /\ Mg \in Nat /\ pd.position \in Nat
    BY PositionKnown
  <2>2. e \in Nat /\ e >= 1
    <3>1. Levels - 1 \in 0..5
      BY <1>7, <2>1
    <3>2. e \in Powers
      BY <3>1, LevelPowers
    <3>. HIDE DEF e
    <3>. QED
      BY <3>2 DEF Powers
  <2>3. TemporalLayer(Levels, e) = 1
    <3>1. Levels >= 1
      BY <1>7, <2>1
    <3>. QED
      BY <2>1, <3>1, LayersOfLevels, Zenon
  <2>4. q.position >= e /\ (pd.position >= e => pd.dpb[1] >= (n - 1) - pd.position)
    BY <1>2, <1>7
  <2>. HIDE DEF e
  <2>5. q.position # 0 /\ q.position = pd.position + 1 /\ n - q.position = (n - 1) - pd.position
    BY <1>1, <1>4, <2>2, <2>4
  <2>6. CASE q.position = e
    <3>1. 1 \in f.mask
      BY <1>3, <1>4, <1>7, <2>3, <2>6, Zenon
    <3>2. q.dpb[1] = n
      BY <1>5, <3>1
    <3>. QED
      BY <1>1, <3>2
  <2>7. CASE q.position # e
    <3>1. pd.position >= e
      BY <1>1, <2>1, <2>2, <2>4, <2>5, <2>7
    <3>2. q.dpb[1] \in {n, pd.dpb[1]}
      BY <1>5
    <3>. QED
      BY <1>1, <2>1, <2>4, <2>5, <3>1, <3>2
  <2>. QED
    BY <2>6, <2>7
<1>. QED
  BY <1>6, <1>7 DEF HoldsTwo

\* The slots keep their layers.
LEMMA StaysNested ==
  ASSUME gop \in LdConfigs, NEW pd, NEW n \in Nat, n # 0, Walks(pd, n - 1), Nests(pd),
         NEW pic, NEW q, NEW f, StepsOn(pd, pic, q, f, n), RefreshesNested(pic, f), Walks(q, n)
  PROVE  Nests(q)
<1>1. /\ pic.layer \in Nat
      /\ q.last_idr = pd.last_idr
      /\ q.position = (n - q.last_idr) % Mg
      /\ pic.layer = TemporalLayer(Levels, q.position)
      /\ q.dpb = [s \in Slots |-> IF s \in f.mask THEN n ELSE pd.dpb[s]]
  <2>1. pic.layer \in Nat
    BY BaseKept
  <2>2. q.position = (n - q.last_idr) % Mg
    BY Zenon DEF Walks
  <2>. QED
    BY <2>1, <2>2, Zenon DEF StepsOn
<1>2. /\ pic.layer >= 2 => \A s \in f.mask : s = LAY2_OFF /\ ~Reduced
      /\ pic.layer >= 1 => \A s \in f.mask : s \notin BaseSlots
  BY Zenon DEF RefreshesNested
<1>3. ASSUME NEW s \in Slots
      PROVE  /\ s \in BaseSlots => SlotLayer(q, s) = 0
             /\ s # LAY2_OFF \/ Reduced => SlotLayer(q, s) \in 0..1
  <2>1. /\ s \in BaseSlots => SlotLayer(pd, s) = 0
        /\ s # LAY2_OFF \/ Reduced => SlotLayer(pd, s) \in 0..1
    BY Zenon DEF Nests
  <2>2. CASE s \in f.mask
    <3>1. q.dpb[s] = n
      BY <1>1, <2>2
    <3>2. SlotLayer(q, s) = pic.layer
      BY <1>1, <3>1, Zenon DEF SlotLayer
    <3>3. s \in BaseSlots => ~(pic.layer >= 1)
      BY <1>2, <2>2, Zenon
    <3>4. s # LAY2_OFF \/ Reduced => ~(pic.layer >= 2)
      BY <1>2, <2>2, Zenon
    <3>. QED
      BY <1>1, <3>2, <3>3, <3>4
  <2>3. CASE s \notin f.mask
    <3>1. q.dpb[s] = pd.dpb[s]
      BY <1>1, <2>3
    <3>2. SlotLayer(q, s) = SlotLayer(pd, s)
      BY <1>1, <3>1, Zenon DEF SlotLayer
    <3>. QED
      BY <2>1, <3>2, Zenon
  <2>. QED
    BY <2>2, <2>3
<1>. QED
  BY <1>3, Zenon DEF Nests

\* What an inter decision makes of a state in which the buffers are fresh, and of any
\* other.
Serves(p, n, q) ==
  /\ Reduced => p.ref_pocs[LAST] >= n - Mg
  /\ gop.rc = "cbr" =>
       \A r \in 1..7 :
         TemporalLayer(Levels, (p.ref_pocs[r] - q.last_idr) % Mg) <= Smaller(p.layer, 1)

DecidesWell(pd, n, d) ==
  /\ d.pd.position \in 0..(Mg - 1)
  /\ d.pd.long_base \in {n, pd.long_base}
  /\ Reduced => d.pd.lay0 = 0
  /\ DOMAIN d.pic.refs = 1..7
  /\ Reduced => \A r \in 1..7 : d.pic.refs[r] \in {0, 1}
  /\ Fresh(pd, n - 1) => Fresh(d.pd, n) /\ Serves(d.pic, n, d.pd)

LEMMA InterDecidesWell ==
  ASSUME gop \in LdConfigs, NEW pd, Decision(pd), NEW n \in Nat, n # 0, ~IsKeyFrame(gop, n),
         Reduced => pd.lay0 = 0, pd.position \in 0..(Mg - 1),
         NEW walk, walk = WalkPosition(gop, pd, n),
         NEW d, d = DecideLowDelay(gop, walk.pd, walk.pic)
  PROVE  DecidesWell(pd, n, d)
<1>. DEFINE w == walk.pd
            pic == walk.pic
            q == d.pd
            p == d.pic
<1>1. WalkEffect(pd, n, walk) /\ WalkFinds(pd, n, walk)
  BY WalkKeeps, WalkKnows
<1>2. /\ Decision(w) /\ w.dpb = pd.dpb /\ w.last_idr = pd.last_idr
      /\ w.lay0 = pd.lay0 /\ w.long_base = pd.long_base
      /\ w.position = NextPosition(pd, FALSE, FALSE, Mg)
      /\ ~w.after_key
      /\ Walked(pic) /\ pic.poc = n /\ pic.hier = Levels
      /\ pic.layer = TemporalLayer(Levels, w.position)
      /\ pic.pic_idx = PicIdxInMg(w.position, Mg)
  <2>1. IsKeyFrame(gop, n) = FALSE
    BY DEF IsKeyFrame
  <2>. QED
    BY <1>1, <2>1, Zenon DEF WalkEffect, WalkFinds, Mg, Levels
<1>3. InterFinds(w, pic, d)
  BY <1>2, InterKnows
<1>. DEFINE f == Freshened(w, pic)
            row == Row(w, pic)
<1>4. /\ q.position = w.position /\ q.after_key = w.after_key /\ q.last_idr = w.last_idr
      /\ q.lay0 = f.lay0 /\ q.long_base = f.long_base
      /\ q.dpb = [s \in Slots |-> IF s \in f.mask THEN pic.poc ELSE w.dpb[s]]
      /\ p.layer = pic.layer
      /\ DOMAIN p.refs = 1..7
      /\ \A r \in 1..7 : /\ p.refs[r] = row[PrunedEntry(Counts(w, pic))[r]]
                         /\ p.ref_pocs[r] = w.dpb[p.refs[r]]
  BY <1>3, Zenon DEF InterFinds
<1>. HIDE DEF w, pic, q, p, f, row
<1>5. Levels \in 0..5 /\ Mg \in Nat \ {0}
  <2>1. Levels \in 0..5 /\ Mg \in Powers
    BY TableFacts, LevelPowers DEF Mg
  <2>. QED
    BY <2>1 DEF Powers
<1>6. w.position \in 0..(Mg - 1)
  BY <1>2, <1>5, WalkStaysInMg
<1>7. pic.layer \in Nat /\ pic.layer <= pic.hier
  <2>1. w.position \in Nat /\ w.position < Mg
    BY <1>5, <1>6
  <2>2. TemporalLayer(Levels, w.position) \in Nat
    BY <2>1, BaseLayer
  <2>3. TemporalLayer(Levels, w.position) <= Levels
    BY <1>5, <1>6, LayersUpToLevels, Zenon DEF Mg
  <2>. QED
    BY <1>2, <2>2, <2>3
<1>8. /\ RefreshesLong(w, pic, f)
      /\ Reduced => RefreshesTwo(w, pic, f)
      /\ gop.rc = "cbr" => RefreshesNested(pic, f)
  <2>1. f = Freshened(w, pic) /\ pic.hier \in Nat /\ (Reduced => w.lay0 = 0)
    BY <1>2, <1>5 DEF f
  <2>2. CASE gop.rc = "cqp"
    BY <1>2, <1>7, <2>1, <2>2, CqpRefreshes
  <2>3. CASE gop.rc = "cbr"
    BY <1>2, <1>7, <2>1, <2>3, CbrRefreshes
  <2>. QED
    BY <2>2, <2>3, TableFacts
<1>9. RefreshesLong(pd, pic, f) /\ (Reduced => RefreshesTwo(pd, pic, f))
  BY <1>2, <1>8 DEF RefreshesLong, BecomesLong, RefreshesTwo
<1>10. Placed(pic, w.position)
  BY <1>2, <1>6 DEF Placed
<1>11. Reduced => TwoSlots(row, pic, w.position)
  BY <1>2, <1>10, RowsOfTwo DEF row
<1>12. ASSUME Reduced, NEW r \in 1..7
       PROVE  p.refs[r] = row[1] /\ p.ref_pocs[r] = pd.dpb[row[1]]
  <2>1. PrunedEntry(Counts(w, pic))[r] = 1
    BY <1>12, OneReference
  <2>2. p.refs[r] = row[PrunedEntry(Counts(w, pic))[r]] /\ p.ref_pocs[r] = w.dpb[p.refs[r]]
    BY <1>4, Zenon
  <2>3. p.refs[r] = row[1]
    BY <2>1, <2>2
  <2>. QED
    BY <1>2, <2>2, <2>3
<1>13. q.long_base \in {n, pd.long_base}
  BY <1>2, <1>4, <1>9 DEF RefreshesLong
<1>14. Reduced => q.lay0 = 0
  BY <1>4, <1>9, Zenon DEF RefreshesTwo
<1>15. Reduced => \A r \in 1..7 : p.refs[r] \in {0, 1}
  BY <1>11, <1>12, Zenon DEF TwoSlots
<1>16. ASSUME Fresh(pd, n - 1)
       PROVE  Fresh(q, n) /\ Serves(p, n, q)
  <2>1. /\ Walks(pd, n - 1)
        /\ ~Reduced => Renews(pd, n - 1)
        /\ Reduced => HoldsTwo(pd, n - 1)
        /\ gop.rc = "cbr" => Nests(pd)
    BY <1>16, Zenon DEF Fresh
  <2>2. /\ pd.last_idr \in Nat /\ pd.last_idr <= n - 1
        /\ pd.position \in Nat /\ pd.position < Mg /\ pd.position <= (n - 1) - pd.last_idr
    BY <2>1, PositionKnown
  <2>3. pd.after_key => pd.position = 0
    <3>1. pd.after_key => pd.last_idr = n - 1
      BY <2>1, Zenon DEF Walks
    <3>. QED
      BY <2>2, <3>1
  <2>4. w.position = IF pd.position + 1 = Mg THEN 0 ELSE pd.position + 1
    BY <1>2, <2>3 DEF NextPosition
  <2>5. StepsOn(pd, pic, q, f, n)
    BY <1>2, <1>4, <1>6, <2>4, Zenon DEF StepsOn
  <2>6. Walks(q, n)
    BY <1>2, <1>4, <2>1, <2>5, BaseKept
  <2>7. ~Reduced => Renews(q, n)
    <3>1. pd.dpb[7] \in Nat
      BY DEF Decision, Slots
    <3>. QED
      BY <1>9, <2>1, <2>5, <2>6, <3>1, StaysRenewed
  <2>8. Reduced => HoldsTwo(q, n)
    BY <1>2, <1>9, <2>1, <2>5, StillHoldsTwo
  <2>9. gop.rc = "cbr" => Nests(q)
    BY <1>8, <2>1, <2>5, <2>6, StaysNested
  <2>10. Fresh(q, n)
    BY <2>6, <2>7, <2>8, <2>9, Zenon DEF Fresh
  <2>11. ASSUME Reduced PROVE p.ref_pocs[LAST] >= n - Mg
    <3>1. p.ref_pocs[1] = pd.dpb[row[1]]
      <4>1. 1 \in 1..7
        OBVIOUS
      <4>. QED
        BY <1>12, <2>11, <4>1, Zenon
    <3>2. /\ row[1] \in {0, 1}
          /\ row[1] = 1 => UpperHalf(w.position)
      BY <1>11, <2>11, Zenon DEF TwoSlots
    <3>3. /\ pd.dpb[0] = (n - 1) - pd.position
          /\ Levels >= 2 /\ pd.position >= 2 ^ (Levels - 1) => pd.dpb[1] >= (n - 1) - pd.position
      BY <2>1, <2>11, Zenon DEF HoldsTwo
    <3>4. n - Mg <= (n - 1) - pd.position
      BY <2>1, <2>5, BaseKept
    <3>5. CASE row[1] = 0
      BY <1>5, <2>2, <3>1, <3>3, <3>4, <3>5 DEF LAST
    <3>6. CASE row[1] = 1
      <4>. DEFINE e == 2 ^ (Levels - 1)
      <4>1. Levels >= 2 /\ w.position > e
        BY <3>2, <3>6, Zenon DEF UpperHalf
      <4>2. e \in Nat
        <5>1. Levels - 1 \in 0..5
          BY <1>5, <4>1
        <5>2. e \in Powers
          BY <5>1, LevelPowers
        <5>. HIDE DEF e
        <5>. QED
          BY <5>2 DEF Powers
      <4>3. pd.position >= e => pd.dpb[1] >= (n - 1) - pd.position
        BY <3>3, <4>1, Zenon
      <4>. HIDE DEF e
      <4>4. pd.position >= e
        BY <2>2, <2>4, <4>1, <4>2
      <4>5. pd.dpb[1] \in Nat
        BY DEF Decision, Slots
      <4>. QED
        BY <1>5, <2>2, <3>1, <3>4, <3>6, <4>3, <4>4, <4>5 DEF LAST
    <3>. QED
      BY <3>2, <3>5, <3>6
  <2>12. ASSUME gop.rc = "cbr", NEW r \in 1..7
         PROVE  TemporalLayer(Levels, (p.ref_pocs[r] - q.last_idr) % Mg) <= Smaller(p.layer, 1)
    <3>. DEFINE s == p.refs[r]
    <3>1. \A x \in Slots : /\ x \in BaseSlots => SlotLayer(pd, x) = 0
                           /\ x # LAY2_OFF \/ Reduced => SlotLayer(pd, x) \in 0..1
      BY <2>1, <2>12, Zenon DEF Nests
    <3>2. p.ref_pocs[r] = pd.dpb[s] /\ q.last_idr = pd.last_idr
      BY <1>2, <1>4, Zenon
    <3>3. TemporalLayer(Levels, (p.ref_pocs[r] - q.last_idr) % Mg) = SlotLayer(pd, s)
      BY <3>2, Zenon DEF SlotLayer
    <3>4. NestedRow(row, pic)
      BY <1>2, <2>12, RowsNest DEF row
    <3>5. s \in IF pic.layer = 0 THEN BaseSlots ELSE 0..4
      <4>1. CASE Reduced
        <5>1. s = row[1]
          BY <1>12, <4>1
        <5>. QED
          BY <1>11, <4>1, <5>1 DEF TwoSlots, BaseSlots
      <4>2. CASE ~Reduced
        <5>1. PrunedEntry(Counts(w, pic))[r] \in 1..7
          BY PruningFolds
        <5>2. s \in IF pic.layer = 0 THEN {0, 1, 2, LONG_BASE_IDX} ELSE 0..4
          BY <1>4, <3>4, <5>1, Zenon DEF NestedRow
        <5>. QED
          BY <4>2, <5>2, Zenon DEF BaseSlots
      <4>. QED
        BY <4>1, <4>2
    <3>. HIDE DEF s
    <3>6. CASE pic.layer = 0
      <4>1. s \in BaseSlots
        BY <3>5, <3>6
      <4>2. s \in Slots
        BY <4>1 DEF BaseSlots, Slots, LONG_BASE_IDX
      <4>3. SlotLayer(pd, s) = 0
        BY <3>1, <4>1, <4>2, Zenon
      <4>. QED
        BY <1>4, <3>3, <3>6, <4>3 DEF Smaller
    <3>7. CASE pic.layer # 0
      <4>1. s \in 0..4
        BY <3>5, <3>7
      <4>2. s \in Slots /\ s # LAY2_OFF
        BY <4>1 DEF Slots, LAY2_OFF
      <4>3. SlotLayer(pd, s) \in 0..1
        BY <3>1, <4>2, Zenon
      <4>. QED
        BY <1>4, <1>7, <3>3, <3>7, <4>3 DEF Smaller
    <3>. QED
      BY <3>6, <3>7
  <2>. QED
    BY <2>10, <2>11, <2>12, Zenon DEF Serves
<1>17. q.position \in 0..(Mg - 1) /\ DOMAIN p.refs = 1..7
  BY <1>4, <1>6
<1>. QED
  BY <1>13, <1>14, <1>15, <1>16, <1>17, Zenon DEF DecidesWell, q, p

\* The display order of the picture decided last.
Latest == IF stage = "idle" THEN frame_count - 1 ELSE frame_count

\* As long as no call fails, walk, slots and long-term base keep step with the stream,
\* and the picture in hand has been served from them.
FreshInv ==
  /\ pd_ctx.position \in 0..(Mg - 1)
  /\ pd_ctx.long_base \in 0..frame_count
  /\ Reduced => pd_ctx.lay0 = 0
  /\ failed = <<>> /\ (frame_count # 0 \/ stage # "idle") => Fresh(pd_ctx, Latest)
  /\ InterPicture =>
       /\ DOMAIN coding.refs = 1..7
       /\ Reduced => \A r \in 1..7 : coding.refs[r] \in {0, 1}
       /\ failed = <<>> => Serves(coding, frame_count, pd_ctx)

LEMMA MgPositive ==
  ASSUME gop \in LdConfigs PROVE Mg \in Nat \ {0}
<1>1. Mg \in Powers
  BY TableFacts, LevelPowers DEF Mg
<1>. QED
  BY <1>1 DEF Powers

LEMMA InitFresh == Init => FreshInv
<1>. SUFFICES ASSUME Init PROVE FreshInv
  OBVIOUS
<1>1. gop \in LdConfigs /\ frame_count = 0 /\ pd_ctx = InitLdDecision /\ stage = "idle"
  BY DEF Init
<1>. DEFINE more == [last_idr |-> 0, long_base |-> 0]
<1>2. /\ DOMAIN InitDecision = {"position", "after_key", "prev_hier", "lay0", "lay1", "dpb",
                                "base", "alt", "ok"}
      /\ InitDecision.lay0 = 0 /\ InitDecision.position = 0
  BY DEF InitDecision
<1>3. DOMAIN more = {"last_idr", "long_base"} /\ more.long_base = 0
  OBVIOUS
<1>4. pd_ctx = WithFields(InitDecision, more)
  BY <1>1 DEF InitLdDecision
<1>. HIDE DEF more
<1>5. pd_ctx.position = 0 /\ pd_ctx.lay0 = 0 /\ pd_ctx.long_base = 0
  BY <1>2, <1>3, <1>4 DEF WithFields
<1>6. Mg \in Nat \ {0}
  BY <1>1, MgPositive
<1>. QED
  BY <1>1, <1>5, <1>6 DEF FreshInv, InterPicture

\* A key frame makes everything fresh.
LEMMA KeyRefreshes ==
  ASSUME gop \in LdConfigs, NEW q, NEW n \in Nat, q.position = 0, q.last_idr = n,
         q.dpb = [s \in Slots |-> n], q.long_base \in 0..n
  PROVE  Fresh(q, n)
<1>1. Levels \in 0..5 /\ Mg \in Powers
  BY TableFacts, LevelPowers DEF Mg
<1>2. Mg \in Nat /\ Mg >= 1 /\ 0 % Mg = 0
  BY <1>1, AroundTheMg, 0 \in Nat DEF Powers
<1>3. n - n = 0 /\ n \in 0..n /\ n - 0 = n /\ n <= n
  OBVIOUS
<1>4. Walks(q, n)
  BY <1>2, <1>3, Zenon DEF Walks
<1>5. \A s \in Slots : q.dpb[s] = n
  OBVIOUS
<1>6. q.dpb[0] = n /\ q.dpb[1] = n /\ q.dpb[7] = n
  BY <1>5 DEF Slots
<1>7. Renews(q, n)
  BY <1>2, <1>3, <1>6 DEF Renews, LONG_BASE_PIC
<1>8. HoldsTwo(q, n)
  BY <1>3, <1>6 DEF HoldsTwo
<1>9. TemporalLayer(Levels, 0) = 0
  BY <1>1, LayersOfLevels, Zenon
<1>10. \A s \in Slots : SlotLayer(q, s) = 0
  BY <1>2, <1>3, <1>5, <1>9, Zenon DEF SlotLayer
<1>11. Nests(q)
  BY <1>10 DEF Nests
<1>. QED
  BY <1>4, <1>7, <1>8, <1>11, Zenon DEF Fresh

\* Freshness reads nothing of the state but the configuration.
LEMMA FreshThen ==
  ASSUME gop' = gop, NEW n, Latest' = n, Fresh(pd_ctx', n)
  PROVE  Fresh(pd_ctx, Latest)'
<1>1. /\ Mg' = Mg /\ Levels' = Levels /\ BaseSlots' = BaseSlots
      /\ Reduced' <=> Reduced
  BY DEF Mg, Levels, BaseSlots, Reduced
<1>2. /\ Walks(pd_ctx', n)
      /\ ~Reduced => Renews(pd_ctx', n)
      /\ Reduced => HoldsTwo(pd_ctx', n)
      /\ gop.rc = "cbr" => Nests(pd_ctx')
  BY Zenon DEF Fresh
<1>3. Walks(pd_ctx, Latest)'
  BY <1>1, <1>2, Zenon DEF Walks
<1>4. ~Reduced => Renews(pd_ctx, Latest)'
  BY <1>1, <1>2, Zenon DEF Renews
<1>5. Reduced => HoldsTwo(pd_ctx, Latest)'
  BY <1>1, <1>2, Zenon DEF HoldsTwo
<1>6. gop.rc = "cbr" => Nests(pd_ctx)'
  BY <1>1, <1>2, Zenon DEF Nests, SlotLayer
<1>. QED
  BY <1>1, <1>3, <1>4, <1>5, <1>6, Zenon DEF Fresh

\* Nor does what a picture has been served.
LEMMA ServedThen ==
  ASSUME gop' = gop, frame_count' = frame_count, Serves(coding', frame_count, pd_ctx')
  PROVE  Serves(coding, frame_count, pd_ctx)'
<1>1. Mg' = Mg /\ Levels' = Levels /\ (Reduced' <=> Reduced)
  BY DEF Mg, Levels, Reduced
<1>. QED
  BY <1>1, Zenon DEF Serves

\* A key frame is decided.
LEMMA KeyDecidedFresh ==
  ASSUME LdIInv, FreshInv, TryEncodeFrame, IsKeyFrame(gop, frame_count)
  PROVE  FreshInv'
<1>. DEFINE n == frame_count
            walk == WalkPosition(gop, pd_ctx, n)
            d    == DecideKey(walk.pd, walk.pic)
<1>1. /\ gop \in LdConfigs /\ n \in Nat /\ Decision(pd_ctx)
  BY DEF LdIInv, LdType
<1>2. /\ WalkEffect(pd_ctx, n, walk) /\ WalkFinds(pd_ctx, n, walk)
  BY <1>1, WalkKeeps, WalkKnows
<1>3. pd_ctx' = d.pd /\ coding' = d.pic
  BY <1>2 DEF TryEncodeFrame, RunPictureDecision, WalkEffect
<1>4. /\ gop' = gop /\ frame_count' = n /\ stage' = "decided" /\ failed' = failed
  BY DEF TryEncodeFrame
<1>. HIDE DEF walk
<1>5. KeyEffect(walk.pd, walk.pic, d) /\ KeyFinds(walk.pd, d)
  <2>1. Decision(walk.pd) /\ Walked(walk.pic) /\ walk.pic.poc \in Nat
    BY <1>1, <1>2 DEF WalkEffect
  <2>. QED
    BY <2>1, KeyDecided, KeyKnows
<1>. HIDE DEF d
<1>6. Mg \in Nat \ {0}
  BY <1>1, MgPositive
<1>7. walk.pd.position = 0
  BY <1>2, <1>6 DEF WalkEffect, NextPosition, Mg, Levels
<1>8. /\ d.pd.position = 0 /\ d.pd.last_idr = n /\ d.pd.dpb = [s \in Slots |-> n]
      /\ d.pd.lay0 = 0 /\ d.pd.long_base = pd_ctx.long_base /\ d.pic.key
  BY <1>2, <1>5, <1>7 DEF WalkEffect, WalkFinds, KeyEffect, KeyFinds
<1>9. pd_ctx.long_base \in 0..n
  BY DEF FreshInv
<1>10. Fresh(d.pd, n)
  BY <1>1, <1>8, <1>9, KeyRefreshes
<1>12. Latest' = n
  BY <1>4 DEF Latest
<1>13. Fresh(pd_ctx, Latest)'
  <2>1. Fresh(pd_ctx', n)
    BY <1>3, <1>10
  <2>. QED
    BY <1>4, <1>12, <2>1, FreshThen, Zenon
<1>14. Mg' = Mg /\ (Reduced' <=> Reduced)
  BY <1>4 DEF Mg, Levels, Reduced
<1>. QED
  BY <1>3, <1>4, <1>6, <1>8, <1>9, <1>13, <1>14 DEF FreshInv, InterPicture

\* An inter picture is decided.
LEMMA InterDecidedFresh ==
  ASSUME LdIInv, FreshInv, TryEncodeFrame, ~IsKeyFrame(gop, frame_count)
  PROVE  FreshInv'
<1>. DEFINE n == frame_count
            walk == WalkPosition(gop, pd_ctx, n)
            d    == DecideLowDelay(gop, walk.pd, walk.pic)
<1>1. /\ gop \in LdConfigs /\ n \in Nat /\ Decision(pd_ctx) /\ stage = "idle"
  BY DEF LdIInv, LdType, TryEncodeFrame
<1>2. WalkEffect(pd_ctx, n, walk)
  BY <1>1, WalkKeeps
<1>3. pd_ctx' = d.pd /\ coding' = d.pic
  BY <1>2 DEF TryEncodeFrame, RunPictureDecision, WalkEffect
<1>4. /\ gop' = gop /\ frame_count' = n /\ stage' = "decided" /\ failed' = failed
  BY DEF TryEncodeFrame
<1>5. n # 0
  BY <1>1, FirstIsKey
<1>6. /\ pd_ctx.position \in 0..(Mg - 1)
      /\ pd_ctx.long_base \in 0..n
      /\ Reduced => pd_ctx.lay0 = 0
      /\ failed = <<>> => Fresh(pd_ctx, Latest)
  BY <1>5, Zenon DEF FreshInv
<1>7. Latest = n - 1 /\ Latest' = n
  BY <1>1, <1>4 DEF Latest
<1>8. DecidesWell(pd_ctx, n, d)
  <2>1. walk = WalkPosition(gop, pd_ctx, n) /\ d = DecideLowDelay(gop, walk.pd, walk.pic)
    OBVIOUS
  <2>. HIDE DEF walk, d, n
  <2>2. ~IsKeyFrame(gop, n)
    BY DEF n
  <2>. QED
    BY <1>1, <1>5, <1>6, <2>1, <2>2, InterDecidesWell
<1>. HIDE DEF d
<1>9. /\ d.pd.position \in 0..(Mg - 1)
      /\ d.pd.long_base \in {n, pd_ctx.long_base}
      /\ Reduced => d.pd.lay0 = 0
      /\ DOMAIN d.pic.refs = 1..7
      /\ Reduced => \A r \in 1..7 : d.pic.refs[r] \in {0, 1}
      /\ Fresh(pd_ctx, n - 1) => Fresh(d.pd, n) /\ Serves(d.pic, n, d.pd)
  BY <1>8, Zenon DEF DecidesWell
<1>10. failed = <<>> => Fresh(pd_ctx, Latest)'
  <2>1. failed = <<>> => Fresh(pd_ctx', n)
    BY <1>3, <1>6, <1>7, <1>9, Zenon
  <2>. QED
    BY <1>4, <1>7, <2>1, FreshThen, Zenon
<1>11. failed = <<>> => Serves(coding, frame_count, pd_ctx)'
  <2>1. failed = <<>> => Serves(coding', n, pd_ctx')
    BY <1>3, <1>6, <1>7, <1>9, Zenon
  <2>. QED
    BY <1>4, <2>1, ServedThen, Zenon
<1>12. Mg' = Mg /\ (Reduced' <=> Reduced)
  BY <1>4 DEF Mg, Levels, Reduced
<1>13. d.pd.long_base \in 0..n
  BY <1>1, <1>6, <1>9
<1>. QED
  BY <1>3, <1>4, <1>9, <1>10, <1>11, <1>12, <1>13, Zenon DEF FreshInv

\* Once a call has failed, the walk alone is left to follow.
LEMMA FailureFresh ==
  ASSUME FreshInv, gop' = gop, frame_count' = frame_count, stage' = "idle", failed' # <<>>,
         pd_ctx'.position \in 0..(Mg - 1), pd_ctx'.long_base = pd_ctx.long_base,
         pd_ctx'.lay0 = pd_ctx.lay0
  PROVE  FreshInv'
<1>1. Mg' = Mg /\ (Reduced' <=> Reduced)
  BY DEF Mg, Levels, Reduced
<1>2. pd_ctx.long_base \in 0..frame_count /\ (Reduced => pd_ctx.lay0 = 0)
  BY Zenon DEF FreshInv
<1>3. ~InterPicture'
  BY DEF InterPicture
<1>. QED
  BY <1>1, <1>2, <1>3 DEF FreshInv

\* A failed call is one of those that have failed.
LEMMA FailedNotNone ==
  ASSUME NEW q \in Seq(Nat), NEW n \in Nat PROVE Append(q, n) # <<>>
OBVIOUS

\* Every step keeps the buffers fresh.
LEMMA StepFresh ==
  ASSUME LdIInv, FreshInv, [Next]_vars
  PROVE  FreshInv'
<1>0. /\ gop \in LdConfigs /\ frame_count \in Nat /\ failed \in Seq(Nat) /\ Decision(pd_ctx)
  BY DEF LdIInv, LdType
<1>1. CASE TryEncodeFrame
  BY <1>1, KeyDecidedFresh, InterDecidedFresh
<1>2. CASE Refuse
  <2>. DEFINE walk == WalkPosition(gop, pd_ctx, frame_count)
  <2>1. /\ pd_ctx' = walk.pd /\ failed' = Append(failed, frame_count) /\ stage = "idle"
        /\ UNCHANGED <<gop, frame_count, coding, stage, dpb, dec>>
    BY <1>2 DEF Refuse
  <2>2. WalkEffect(pd_ctx, frame_count, walk) /\ WalkFinds(pd_ctx, frame_count, walk)
    BY <1>0, WalkKeeps, WalkKnows
  <2>. HIDE DEF walk
  <2>3. pd_ctx'.position \in 0..(Mg - 1)
    <3>1. Mg \in Nat \ {0} /\ pd_ctx.position \in 0..(Mg - 1)
      BY <1>0, MgPositive DEF FreshInv
    <3>2. NextPosition(pd_ctx, IsKeyFrame(gop, frame_count), FALSE, Mg) \in 0..(Mg - 1)
      BY <3>1, WalkStaysInMg
    <3>. QED
      BY <2>1, <2>2, <3>2, Zenon DEF WalkEffect, Mg, Levels
  <2>4. pd_ctx'.long_base = pd_ctx.long_base /\ pd_ctx'.lay0 = pd_ctx.lay0
    BY <2>1, <2>2, Zenon DEF WalkFinds
  <2>5. failed' # <<>>
    BY <1>0, <2>1, FailedNotNone
  <2>. QED
    BY <2>1, <2>3, <2>4, <2>5, FailureFresh
<1>3. CASE Fail
  <2>1. /\ stage' = "idle" /\ failed' = Append(failed, frame_count)
        /\ UNCHANGED <<gop, frame_count, pd_ctx, dpb, dec>>
    BY <1>3 DEF Fail
  <2>2. failed' # <<>>
    BY <1>0, <2>1, FailedNotNone
  <2>3. pd_ctx'.position \in 0..(Mg - 1)
    BY <2>1, Zenon DEF FreshInv
  <2>. QED
    BY <2>1, <2>2, <2>3, FailureFresh
<1>4. CASE Code \/ Return
  <2>1. /\ gop' = gop /\ pd_ctx' = pd_ctx /\ failed' = failed
        /\ stage # "idle" /\ Latest' = Latest /\ ~InterPicture'
        /\ frame_count' \in {frame_count, frame_count + 1}
    BY <1>0, <1>4 DEF Code, Return, Latest, InterPicture
  <2>2. /\ pd_ctx.position \in 0..(Mg - 1)
        /\ pd_ctx.long_base \in 0..frame_count
        /\ Reduced => pd_ctx.lay0 = 0
        /\ failed = <<>> => Fresh(pd_ctx, Latest)
    BY <2>1, Zenon DEF FreshInv
  <2>3. Mg' = Mg /\ (Reduced' <=> Reduced)
    BY <2>1 DEF Mg, Levels, Reduced
  <2>4. failed = <<>> => Fresh(pd_ctx, Latest)'
    <3>1. failed = <<>> => Fresh(pd_ctx', Latest)
      BY <2>1, <2>2, Zenon
    <3>. QED
      BY <2>1, <3>1, FreshThen, Zenon
  <2>5. pd_ctx.long_base \in 0..frame_count'
    BY <1>0, <2>1, <2>2
  <2>. QED
    BY <2>1, <2>2, <2>3, <2>4, <2>5, Zenon DEF FreshInv
<1>5. CASE UNCHANGED vars
  <2>1. UNCHANGED <<gop, frame_count, pd_ctx, coding, stage, dpb, failed, dec>>
    BY <1>5 DEF vars
  <2>2. /\ Mg' = Mg /\ (Reduced' <=> Reduced) /\ Latest' = Latest
        /\ InterPicture' <=> InterPicture
    BY <2>1 DEF Mg, Levels, Reduced, Latest, InterPicture
  <2>3. Fresh(pd_ctx, Latest) => Fresh(pd_ctx, Latest)'
    <3>1. Fresh(pd_ctx, Latest) => Fresh(pd_ctx', Latest)
      BY <2>1, Zenon
    <3>. QED
      BY <2>1, <2>2, <3>1, FreshThen, Zenon
  <2>4. Serves(coding, frame_count, pd_ctx) => Serves(coding, frame_count, pd_ctx)'
    <3>1. Serves(coding, frame_count, pd_ctx) => Serves(coding', frame_count, pd_ctx')
      BY <2>1, Zenon
    <3>. QED
      BY <2>1, <3>1, ServedThen, Zenon
  <2>. QED
    BY <2>1, <2>2, <2>3, <2>4, Zenon DEF FreshInv
<1>. QED
  BY <1>1, <1>2, <1>3, <1>4, <1>5 DEF Next

\* Without failed calls the buffers keep step with the stream.
THEOREM FreshHolds == Spec => []FreshInv
<1>1. LdIInv /\ FreshInv /\ [Next]_vars => FreshInv'
  BY StepFresh
<1>. QED
  BY <1>1, InitFresh, LdInductiveInvariant, PTL DEF Spec

\* Under ld_reduce_ref_buffs = 2 two buffers carry all references, neither older than a
\* mini-GOP as long as no call fails.
THEOREM TwoBuffersAreEnough == Spec => []TwoBuffersSuffice
<1>1. LdIInv /\ FreshInv => TwoBuffersSuffice
  <2>. SUFFICES ASSUME LdIInv, FreshInv, InterPicture, gop.mrp.ld_reduce_ref_buffs = 2
                PROVE  /\ \A r \in 1..7 : coding.refs[r] \in {0, 1}
                       /\ failed = <<>> =>
                            coding.ref_pocs[LAST] >= coding.poc - 2 ^ gop.hierarchical_levels
    BY DEF TwoBuffersSuffice
  <2>1. coding.poc = frame_count
    BY DEF LdIInv, LdType, Decided, InterPicture
  <2>2. /\ \A r \in 1..7 : coding.refs[r] \in {0, 1}
        /\ failed = <<>> => coding.ref_pocs[LAST] >= frame_count - Mg
    BY Zenon DEF FreshInv, Serves, Reduced
  <2>. QED
    BY <2>1, <2>2, Zenon DEF Mg, Levels
<1>. QED
  BY <1>1, FreshHolds, LdInductiveInvariant, PTL

\* A picture that names the long-term slot finds a base picture there, at most a
\* mini-GOP later than its renewal.
THEOREM LongTermKeepsUp == Spec => []LongTermRenewed
<1>1. LdIInv /\ FreshInv => LongTermRenewed
  <2>. SUFFICES ASSUME LdIInv, FreshInv, InterPicture, failed = <<>>,
                       LONG_BASE_IDX \in Range(coding.refs)
                PROVE  /\ coding.poc - pd_ctx.dpb[LONG_BASE_IDX]
                            < LONG_BASE_PIC + 2 ^ gop.hierarchical_levels
                       /\ (pd_ctx.dpb[LONG_BASE_IDX] - pd_ctx.last_idr)
                            % 2 ^ gop.hierarchical_levels = 0
    BY DEF LongTermRenewed
  <2>1. gop \in LdConfigs /\ coding.poc = frame_count /\ frame_count \in Nat /\ stage = "decided"
        /\ Decision(pd_ctx)
    BY DEF LdIInv, LdType, Decided, InterPicture
  <2>2. ~Reduced
    <3>1. ASSUME Reduced PROVE FALSE
      <4>1. DOMAIN coding.refs = 1..7 /\ \A r \in 1..7 : coding.refs[r] \in {0, 1}
        BY <3>1, Zenon DEF FreshInv
      <4>2. PICK r \in DOMAIN coding.refs : coding.refs[r] = LONG_BASE_IDX
        BY Zenon DEF Range
      <4>. QED
        BY <4>1, <4>2 DEF LONG_BASE_IDX
    <3>. QED
      BY <3>1
  <2>3. Fresh(pd_ctx, frame_count)
    BY <2>1 DEF FreshInv, Latest
  <2>4. Walks(pd_ctx, frame_count) /\ Renews(pd_ctx, frame_count)
    BY <2>2, <2>3, Zenon DEF Fresh
  <2>5. /\ pd_ctx.position \in Nat /\ pd_ctx.position < Mg /\ Mg \in Nat
    BY <2>1, <2>4, PositionKnown
  <2>6. /\ frame_count - pd_ctx.position - pd_ctx.dpb[7] < 128
        /\ (pd_ctx.dpb[7] - pd_ctx.last_idr) % Mg = 0
    BY <2>4, Zenon DEF Renews, LONG_BASE_PIC
  <2>7. pd_ctx.dpb[7] \in Nat
    BY <2>1 DEF Decision, Slots
  <2>8. frame_count - pd_ctx.dpb[7] < 128 + Mg
    BY <2>1, <2>5, <2>6, <2>7
  <2>. QED
    BY <2>1, <2>6, <2>8, Zenon DEF Mg, Levels, LONG_BASE_IDX, LONG_BASE_PIC
<1>. QED
  BY <1>1, FreshHolds, LdInductiveInvariant, PTL

\* Under CBR a picture is predicted from its own temporal layer and those below, and
\* nothing from layer 2.
THEOREM CbrLayersStayNested == Spec => []CbrLayersNest
<1>1. LdIInv /\ FreshInv => CbrLayersNest
  <2>. SUFFICES ASSUME FreshInv, InterPicture, gop.rc = "cbr", failed = <<>>, NEW r \in 1..7
                PROVE  TemporalLayer(gop.hierarchical_levels,
                                     (coding.ref_pocs[r] - pd_ctx.last_idr)
                                       % 2 ^ gop.hierarchical_levels)
                         <= Smaller(coding.layer, 1)
    BY DEF CbrLayersNest
  <2>. QED
    BY Zenon DEF FreshInv, Serves, Mg, Levels
<1>. QED
  BY <1>1, FreshHolds, LdInductiveInvariant, PTL
=============================================================================
