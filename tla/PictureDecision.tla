-------------------------- MODULE PictureDecision --------------------------
(***************************************************************************)
(* run_ra_picture_decision (pipeline/ra.rs): what one release decides for  *)
(* each of its pictures, and what it leaves in the encoder's decision      *)
(* state.  Passes 1 and 2 walk each mini-GOP in display order, pass 3 in   *)
(* decode order; every helper they call is here as an operator.            *)
(*                                                                         *)
(* The decision state pd stands for the fields of EncCtxPicParams and      *)
(* PicDecisionCtx that carry over from one picture to the next:            *)
(*   position    pred_struct_position                                      *)
(*   after_key   elapsed_non_cra_count = 0                                 *)
(*   prev_hier   previous_mini_gop_hierarchical_levels                     *)
(*   lay0, lay1  lay0_toggle, lay1_toggle                                  *)
(*   dpb         the shadow DPB: the display order in each of the 8 slots  *)
(*   base, alt   decode_base_number, picture_number_alt                    *)
(*   ok          no picture has been rejected                              *)
(* A configuration c adds to RaQueue's fields hierarchical_levels and mrp, *)
(* the MrpCtrls fields that shape a reference list.                        *)
(***************************************************************************)
EXTENDS MiniGop, RefTables, SequencesExt

Slots == 0..7
NoSlot == 8

CircInc(v, low, high) == IF v + 1 > high THEN low ELSE v + 1
CircDec(v, low, high) == IF v < low + 1 THEN high ELSE v - 1

\* A record r, which has no field of more's, with those fields added.
WithFields(r, more) ==
  [f \in DOMAIN r \cup DOMAIN more |-> IF f \in DOMAIN r THEN r[f] ELSE more[f]]

InitDecision ==
  [position |-> 0, after_key |-> TRUE, prev_hier |-> 0, lay0 |-> 0, lay1 |-> 0,
   dpb |-> [s \in Slots |-> 0], base |-> 0, alt |-> 0, ok |-> TRUE]

-----------------------------------------------------------------------------
(* Pass 1: prediction structure, slice type and position, display order.    *)

\* is_pic_cutting_short_ra_mg: such a picture is coded low-delay.
CutShort(mg, key) == ~key /\ (mg.idr \/ mg.length < 2 ^ mg.hier)

\* update_pred_struct_and_pic_type: the position walk of one picture whose
\* prediction structure has the given number of entries.
NextPosition(pd, key, restart, entries) ==
  LET stepped == CASE key                              -> 0
                   [] ~key /\ pd.after_key             -> 1
                   [] ~key /\ ~pd.after_key /\ restart -> 1
                   [] OTHER                            -> pd.position + 1
  IN  IF stepped = entries THEN 0 ELSE stepped

\* One picture of pass 1; first and restart as in the caller's loop.
PassOne(c, mg, restart, acc, input) ==
  LET key  == input.is_key
      hier == IF key THEN c.hierarchical_levels ELSE mg.hier
      pos  == NextPosition(acc.pd, key, restart /\ acc.pics = <<>>, 2 ^ hier)
      pic  == [poc |-> input.display_order, key |-> key, hier |-> hier,
               cut_short |-> CutShort(mg, key), position |-> pos,
               layer |-> IF pos < 2 ^ hier THEN TemporalLayer(hier, pos) ELSE 0,
               frame_offset |-> input.display_order, pic_idx |-> Len(acc.pics),
               held |-> key /\ ~input.is_eos]
  IN  [pd   |-> [acc.pd EXCEPT !.position = pos, !.after_key = key,
                               !.ok = @ /\ pos < 2 ^ hier],
       pics |-> Append(acc.pics, pic)]

-----------------------------------------------------------------------------
(* Pass 2: decode order.                                                    *)

\* The permutation needs a complete mini-GOP; anything else keeps its turn.
WithDecodeOrder(pd, mg, pics) ==
  [i \in 1..Len(pics) |->
     WithFields(pics[i], [decode_order |->
       IF ~mg.idr /\ mg.length = 2 ^ pics[i].hier
         THEN pd.base + DecodeOrder(pics[i].hier, pics[i].position)
         ELSE pd.alt + i - 1])]

\* Mutant of InDecodeOrder: the pictures stay in display order.
InDisplayOrder(pics) == pics

\* store_mg_picture_arrays: the k-th picture to code has k - 1 pictures ahead of it.
Ahead(pics, i) == {j \in DOMAIN pics : pics[j].decode_order < pics[i].decode_order}

InDecodeOrder(pics) ==
  [k \in DOMAIN pics |->
     pics[CHOOSE i \in DOMAIN pics : Cardinality(Ahead(pics, i)) = k - 1]]

-----------------------------------------------------------------------------
(* Pass 3: generate_rps_info and update_dpb, decode order.                  *)

\* Mutant of SlotIndex: a cut-short picture looks for its references as if the
\* base picture behind it were coded.
SlotIndexNotAhead(pd, pic) ==
  LET b1 == CircDec(pd.lay0, 0, 2)
  IN  [B2 |-> pd.lay0, B1 |-> b1, B0 |-> CircDec(b1, 0, 2),
       L1c |-> LAY1_OFF + pd.lay1, L1p |-> CircDec(LAY1_OFF + pd.lay1, LAY1_OFF, LAY1_OFF + 1),
       L2 |-> LAY2_OFF, L3 |-> LAY3_OFF, L4 |-> LAY4_OFF]

\* toggles_for_picture: the DPB slot behind each slot name.  A cut-short picture
\* is coded before the base picture the tables assume is already there.
SlotIndex(pd, pic) ==
  LET ahead == pic.cut_short /\ pic.layer # 0
      b2    == IF ahead THEN CircInc(pd.lay0, 0, 2) ELSE pd.lay0
      b1    == CircDec(b2, 0, 2)
      l1    == IF ahead /\ pic.pic_idx < 2 ^ (pic.hier - 1) - 1 THEN 1 - pd.lay1 ELSE pd.lay1
  IN  [B2 |-> b2, B1 |-> b1, B0 |-> CircDec(b1, 0, 2),
       L1c |-> LAY1_OFF + l1, L1p |-> CircDec(LAY1_OFF + l1, LAY1_OFF, LAY1_OFF + 1),
       L2 |-> LAY2_OFF, L3 |-> LAY3_OFF, L4 |-> LAY4_OFF]

\* rps_random_access_flat: list 0 and list 1 interleave the ring of 8 slots.
FlatRow(lay0) ==
  LET back(n) == (lay0 + 8 - n) % 8
  IN  <<back(0), back(2), back(4), back(6), back(1), back(3), back(5)>>

\* The toggles after the picture and the slots it refreshes.
Refresh(pd, pic, is_ref) ==
  LET lay0 == IF pic.hier = 0 THEN CircInc(pd.lay0, 0, 7)
              ELSE IF pic.layer = 0 THEN CircInc(pd.lay0, 0, 2) ELSE pd.lay0
      lay1 == IF pic.layer = 1 THEN 1 - pd.lay1 ELSE pd.lay1
      slot == CASE pic.layer = 0 -> lay0
                [] pic.layer = 1 -> LAY1_OFF + lay1
                [] pic.layer = 2 -> LAY2_OFF
                [] pic.layer = 3 -> LAY3_OFF
                [] OTHER         -> LAY4_OFF
  IN  [lay0 |-> lay0, lay1 |-> lay1,
       mask |-> IF \/ pic.hier = 5 /\ pic.layer = 5
                   \/ pic.hier > 0 /\ pic.layer = pic.hier /\ ~is_ref
                  THEN {} ELSE {slot}]

\* frame_is_boosted, by set_frame_update_type.
Boosted(pic) ==
  \/ pic.key
  \/ pic.hier > 0 /\ pic.layer = 0
  \/ pic.hier = 0 /\ pic.frame_offset % 4 = 0

Smaller(a, b) == IF a < b THEN a ELSE b

\* The number of entries in front of the first that repeats, in pocs, one of the
\* earlier entries listed for it; the domain of earlier is the range of entries.
DistinctRun(pocs, earlier) ==
  LET entries == DOMAIN earlier
      stops   == {i \in entries : \E j \in earlier[i] : pocs[i] = pocs[j]}
  IN  Cardinality({i \in entries : \A s \in stops : i < s})

\* set_ref_list_counts.
RefListCounts(c, pic, pocs) ==
  LET cap0  == IF Boosted(pic) THEN c.mrp.base_ref_list0_count ELSE c.mrp.non_base_ref_list0_count
      cap1  == IF Boosted(pic) THEN c.mrp.base_ref_list1_count ELSE c.mrp.non_base_ref_list1_count
      list0 == Smaller(1 + DistinctRun(pocs, [i \in LAST2..GOLD |-> LAST..(i - 1)]), cap0)
      seen  == [i \in BWD..ALT |-> {j \in (IF i = BWD THEN LAST2 ELSE LAST)..(i - 1) :
                                      j <= GOLD => j <= list0}]
      list1 == IF pic.cut_short THEN 0 ELSE Smaller(DistinctRun(pocs, seen), cap1)
  IN  [list0 |-> list0, list1 |-> list1]

\* prune_refs: the entry each of the seven entries is folded onto.
PrunedEntry(counts) ==
  LET bwd == IF counts.list1 < 1 THEN LAST ELSE BWD
  IN  <<LAST,
        IF counts.list0 < 2 THEN LAST ELSE LAST2,
        IF counts.list0 < 3 THEN LAST ELSE LAST3,
        IF counts.list0 < 4 THEN LAST ELSE GOLD,
        bwd,
        IF counts.list1 < 2 THEN bwd ELSE ALT2,
        IF counts.list1 < 3 THEN bwd ELSE ALT>>

\* get_relative_dist on order hints of ORDER_HINT_BITS = 7 bits, and
\* set_ref_frame_sign_bias for the r-th entry of the reference list.
OrderHintModulus == 2 ^ 7

RelativeDist(a, b) ==
  LET d == (a + OrderHintModulus - b) % OrderHintModulus
  IN  IF d >= OrderHintModulus \div 2 THEN d - OrderHintModulus ELSE d

SignBias(pic, r) ==
  IF RelativeDist(pic.ref_pocs[r] % OrderHintModulus, pic.poc % OrderHintModulus) > 0 THEN 1 ELSE 0

\* Mutants of DecideKey: the shadow DPB misses the key frame, or the key frame
\* refreshes one slot only.
DecideKeyNoUpdate(pd, pic) ==
  [pd  |-> [pd EXCEPT !.lay0 = 0, !.lay1 = 0],
   pic |-> WithFields(pic, [refs |-> <<>>, ref_pocs |-> <<>>, list0 |-> 0, list1 |-> 0,
                            refresh |-> Slots, show |-> TRUE, show_existing |-> NoSlot])]

DecideKeyOneSlot(pd, pic) ==
  [pd  |-> [pd EXCEPT !.lay0 = 0, !.lay1 = 0, !.dpb = [@ EXCEPT ![0] = pic.poc]],
   pic |-> WithFields(pic, [refs |-> <<>>, ref_pocs |-> <<>>, list0 |-> 0, list1 |-> 0,
                            refresh |-> {0}, show |-> TRUE, show_existing |-> NoSlot])]

\* set_key_frame_rps, and the key frame's refresh of all eight slots.
DecideKey(pd, pic) ==
  [pd  |-> [pd EXCEPT !.lay0 = 0, !.lay1 = 0, !.dpb = [s \in Slots |-> pic.poc]],
   pic |-> WithFields(pic, [refs |-> <<>>, ref_pocs |-> <<>>, list0 |-> 0, list1 |-> 0,
                            refresh |-> Slots, show |-> TRUE, show_existing |-> NoSlot])]

\* rps_random_access_flat, rps_random_access_hier and set_frame_display_params;
\* show_existing is the slot to show after the picture.
DecideInter(c, pd, pic) ==
  LET index  == SlotIndex(pd, pic)
      row    == SlotTable(pic.hier, pic.layer, pic.pic_idx, c.mrp.referencing_scheme,
                          c.mrp.more_5l_refs # 0)
      slots  == IF pic.hier = 0 THEN FlatRow(pd.lay0)
                ELSE [i \in 1..Len(row) |-> index[row[i]]]
      pocs   == [i \in 1..Len(slots) |-> pd.dpb[slots[i]]]
      counts == RefListCounts(c, pic, pocs)
      entry  == PrunedEntry(counts)
      fresh  == Refresh(pd, pic, IsPicUsedAsRef(pic.hier, pic.layer, pic.pic_idx,
                                                c.mrp.referencing_scheme))
      always == pic.cut_short \/ pic.hier = 0
      top    == pic.layer = pic.hier
      shown  == ShowExistingSlot(pic.hier, pic.pic_idx)
  IN  IF slots = NoRow \/ (~always /\ top /\ shown = "")
        THEN [pd |-> [pd EXCEPT !.ok = FALSE], pic |-> pic]
        ELSE [pd  |-> [pd EXCEPT !.lay0 = fresh.lay0, !.lay1 = fresh.lay1,
                                 !.dpb = [s \in Slots |->
                                            IF s \in fresh.mask THEN pic.poc ELSE @[s]]],
              pic |-> WithFields(pic,
                        [refs          |-> [i \in 1..7 |-> slots[entry[i]]],
                         ref_pocs      |-> [i \in 1..7 |-> pocs[entry[i]]],
                         list0         |-> counts.list0,
                         list1         |-> counts.list1,
                         refresh       |-> fresh.mask,
                         show          |-> always \/ top,
                         show_existing |-> IF ~always /\ top THEN index[shown] ELSE NoSlot])]

\* Mutant of PassThree: the held key frame joins the emit order.
PassThreeEmitsHeld(c, acc, pic) ==
  LET d == IF pic.key THEN DecideKey(acc.pd, pic) ELSE DecideInter(c, acc.pd, pic)
  IN  IF acc.pd.ok
        THEN [pd   |-> d.pd,
              emit |-> IF d.pd.ok THEN Append(acc.emit, d.pic) ELSE acc.emit]
        ELSE acc

\* picture_decision_per_picture, in pass 3's loop: a rejected picture ends it, and
\* a held key frame stays out of the emit order.
PassThree(c, acc, pic) ==
  LET d == IF pic.key THEN DecideKey(acc.pd, pic) ELSE DecideInter(c, acc.pd, pic)
  IN  IF acc.pd.ok
        THEN [pd   |-> d.pd,
              emit |-> IF d.pd.ok /\ ~pic.held THEN Append(acc.emit, d.pic) ELSE acc.emit]
        ELSE acc

-----------------------------------------------------------------------------
(* One mini-GOP, and the whole release.  Each walk is the function from the *)
(* number of pictures, or mini-GOPs, taken so far to what they leave.       *)

FirstPass(c, mg, pd, inputs) ==
  LET walk[i \in 0..Len(inputs)] ==
        IF i = 0 THEN [pd |-> [pd EXCEPT !.prev_hier = mg.hier], pics |-> <<>>]
                 ELSE PassOne(c, mg, pd.prev_hier # mg.hier, walk[i - 1], inputs[i])
  IN  walk

ThirdPass(c, acc, pics) ==
  LET walk[i \in 0..Len(pics)] ==
        IF i = 0 THEN acc ELSE PassThree(c, walk[i - 1], pics[i])
  IN  walk

\* Mutant of Counted: picture_number_alt is not advanced.
CountedOnce(pd, mg) == [pd EXCEPT !.base = @ + mg.length]

\* decode_base_number and picture_number_alt after the mini-GOP.
Counted(pd, mg) == [pd EXCEPT !.base = @ + mg.length, !.alt = @ + mg.length]

\* Passes 1 to 3 over one mini-GOP of the release.
DecideMiniGop(c, inputs, acc, mg) ==
  LET members == SubSeq(inputs, mg.start + 1, mg.end + 1)
      one     == FirstPass(c, mg, acc.pd, members)[Len(members)]
      ordered == InDecodeOrder(WithDecodeOrder(one.pd, mg, one.pics))
  IN  ThirdPass(c, [pd |-> Counted(one.pd, mg), emit |-> acc.emit], ordered)[Len(ordered)]

\* The mini-GOPs of a release, one after the other.
MiniGopWalk(c, pd, inputs, mgs) ==
  LET walk[i \in 0..Len(mgs)] ==
        IF i = 0 THEN [pd |-> pd, emit |-> <<>>]
                 ELSE DecideMiniGop(c, inputs, walk[i - 1], mgs[i])
  IN  walk

\* The decision state after a release of the given inputs, and the pictures it
\* has to code now, in decode order.
DecideRelease(c, pd, inputs, key_member) ==
  LET start == IF inputs[Len(inputs)].display_order = 0
                 THEN [pd EXCEPT !.prev_hier = c.hierarchical_levels] ELSE pd
      mgs   == MiniGops(Len(inputs), key_member, c.hierarchical_levels)
  IN  MiniGopWalk(c, start, inputs, mgs)[Len(mgs)]
=============================================================================
