------------------------------ MODULE LowDelay ------------------------------
(***************************************************************************)
(* The sequential (low-delay) path of EncodePipeline under CQP/CRF and CBR:*)
(* one input picture per call, coded and shown at once.                    *)
(* run_picture_decision (pipeline/ra.rs) advances the decision state at the*)
(* start of a call, DecodedPictureBuffer::refresh the encoder's own buffer *)
(* near its end, and frame_count last of all (pipeline/pack_phase.rs), so  *)
(* that a call may fail before or after each of them.                      *)
(*                                                                         *)
(* A configuration c is a record with intra_period, hierarchical_levels,   *)
(* rc ("cqp" or "cbr") and mrp, whose ld_reduce_ref_buffs this path reads  *)
(* too.  Bounds: its fields max_frames and max_errors, the pictures coded  *)
(* and the calls that fail.                                                *)
(***************************************************************************)
EXTENDS PictureDecision, Decoder

CONSTANTS
  LdConfigs,  \* the configurations
  None        \* no picture

ASSUME LdAssumption ==
  \A c \in LdConfigs : /\ c.intra_period \in Nat /\ c.hierarchical_levels \in Nat
                       /\ c.rc \in {"cqp", "cbr"}
                       /\ c.mrp.ld_reduce_ref_buffs \in 0..2

\* gop_config_error refuses more than five levels, and of the rows of set_mrp_ctrl
\* that low delay takes (levels 0, 1, 2, 4, 6 and 9) only row 0 has few enough
\* references to reduce the buffers: one in list 0, none in list 1.
ASSUME LdTableAssumption ==
  \A c \in LdConfigs :
    /\ c.hierarchical_levels <= 5
    /\ c.mrp.ld_reduce_ref_buffs \in {0, 2}
    /\ c.mrp.ld_reduce_ref_buffs = 2 =>
         /\ c.mrp.base_ref_list0_count = 1 /\ c.mrp.non_base_ref_list0_count = 1
         /\ c.mrp.base_ref_list1_count = 0 /\ c.mrp.non_base_ref_list1_count = 0

VARIABLES
  gop,          \* the configuration
  frame_count,  \* pictures coded: the display order of the next one
  pd_ctx,       \* the decision state
  coding,       \* the decided picture of the call in progress, or None
  stage,        \* how far that call is: "idle", "decided" or "coded"
  dpb,          \* the encoder's DecodedPictureBuffer, by display order
  failed,       \* the display orders of the pictures of failed calls, oldest first
  dec           \* the decoder

vars == <<gop, frame_count, pd_ctx, coding, stage, dpb, failed, dec>>

\* EncCtxPicParams and PicDecisionCtx, with the two fields only this path uses:
\* last_idr_picture and last_long_base_pic.
InitLdDecision == WithFields(InitDecision, [last_idr |-> 0, long_base |-> 0])

Init ==
  /\ gop \in LdConfigs
  /\ frame_count = 0
  /\ pd_ctx = InitLdDecision
  /\ coding = None
  /\ stage = "idle"
  /\ dpb = [s \in Slots |-> Empty]
  /\ failed = <<>>
  /\ dec = InitDecoder

-----------------------------------------------------------------------------
(* run_picture_decision.                                                    *)

\* GopStructure::is_key_frame; an intra period of 0 means one key frame.
IsKeyFrame(c, display_order) ==
  IF c.intra_period = 0 THEN display_order = 0 ELSE display_order % c.intra_period = 0

\* Mutant of PicIdxInMg: counted from the base picture.
PicIdxInMgFromBase(position, entries) == position % entries

\* get_pic_idx_in_mg, low delay.
PicIdxInMg(position, entries) == IF position = 0 THEN 0 ELSE (position - 1) % entries

LONG_BASE_IDX == 7
LONG_BASE_PIC == 128

\* rps_low_delay_cqp's slots: three base pictures, three others, one long-term.
LowDelayRow(c, pd, pic) ==
  LET reduce  == c.mrp.ld_reduce_ref_buffs
      base1   == CircDec(pd.lay0, 0, 2)
      offset  == IF reduce = 0 THEN LAY1_OFF ELSE 1
      lay1_2  == IF reduce = 2 THEN 1 ELSE offset + pd.lay1
      lay1_1  == CircDec(lay1_2, offset, offset + 2)
      list1   == IF pic.layer = 0 THEN c.mrp.base_ref_list1_count
                                  ELSE c.mrp.non_base_ref_list1_count
      half    == IF pic.hier = 0 THEN 0 ELSE 2 ^ (pic.hier - 1) - 1
      past_l1 == pic.pic_idx > half /\ pic.layer # 0 /\ list1 = 0
  IN  <<IF past_l1 THEN lay1_2 ELSE pd.lay0, lay1_1, LONG_BASE_IDX, CircDec(base1, 0, 2),
        lay1_2, CircDec(lay1_1, offset, offset + 2), base1>>

\* The layer-1 slot rps_low_delay_cbr reads.
CbrLayer1(c, pd) ==
  CASE c.mrp.ld_reduce_ref_buffs = 2 -> IF pd.lay0 = 0 THEN 1 ELSE 0
    [] c.mrp.ld_reduce_ref_buffs = 1 -> LAY1_OFF
    [] OTHER                         -> LAY1_OFF + pd.lay1

\* rps_low_delay_cbr's slots: list 0 only, the other entries repeat LAST.
CbrRow(c, pd, pic) ==
  LET base1  == CircDec(pd.lay0, 0, 2)
      base0  == CircDec(base1, 0, 2)
      lay1_1 == CbrLayer1(c, pd)
      lay1_0 == CircDec(lay1_1, LAY1_OFF, LAY1_OFF + 1)
      list0  == CASE pic.layer = 0 /\ pic.hier = 1 -> <<pd.lay0, base1, LONG_BASE_IDX, base0>>
                  [] pic.layer = 0 /\ pic.hier # 1 -> <<pd.lay0, base0, LONG_BASE_IDX, pd.lay0>>
                  [] pic.layer = 1 /\ pic.hier = 1 /\ c.mrp.referencing_scheme = 0 ->
                       <<pd.lay0, base1, base1, pd.lay0>>
                  [] pic.layer = 2 /\ pic.pic_idx = 2 -> <<lay1_1, pd.lay0, lay1_0, lay1_1>>
                  [] OTHER -> <<pd.lay0, lay1_1, base1, pd.lay0>>
  IN  list0 \o <<list0[1], list0[1], list0[1]>>

\* rps_low_delay_cbr has no row for a layer above 2, or above 1 with one level, nor
\* for a layer-2 picture elsewhere than around the layer-1 picture of its mini-GOP.
CbrHasRow(pic) ==
  \/ pic.layer <= 1
  \/ pic.layer = 2 /\ pic.hier # 1 /\ pic.pic_idx \in {0, 2}

\* Mutant of CbrRefresh: the second toggle turns in layer 2 as well.
CbrRefreshTogglesLayer2(c, pd, pic, is_ref) ==
  LET lay0 == IF pic.layer = 0 THEN CircInc(pd.lay0, 0, 2) ELSE pd.lay0
      lay1 == IF pic.layer # 0 THEN 1 - pd.lay1 ELSE pd.lay1
  IN  [lay0 |-> lay0, lay1 |-> lay1, long_base |-> pd.long_base,
       mask |-> {IF pic.layer = 0 THEN lay0 ELSE LAY1_OFF + lay1}]

\* rps_low_delay_cbr's toggles and refresh mask.
CbrRefresh(c, pd, pic, is_ref) ==
  LET reduce == c.mrp.ld_reduce_ref_buffs
      base   == pic.layer = 0
      second == pic.layer = 1 /\ (pic.hier = 1 => is_ref)
      lay0   == IF base /\ reduce # 2 THEN CircInc(pd.lay0, 0, 2) ELSE pd.lay0
      lay1   == IF second /\ reduce = 0 THEN 1 - pd.lay1 ELSE pd.lay1
      long   == base /\ pic.poc - pd.long_base >= LONG_BASE_PIC
      spare  == CASE reduce = 2 -> 2..7 [] reduce = 1 -> 4..7 [] OTHER -> {}
      mask   == CASE base                                        -> {lay0} \cup spare
                  [] second /\ reduce = 0                        -> {LAY1_OFF + lay1}
                  [] second /\ reduce # 0                        -> {CbrLayer1(c, pd)} \cup spare
                  [] pic.layer = 2 /\ is_ref /\ reduce = 0       -> {LAY2_OFF}
                  [] OTHER                                       -> {}
  IN  [lay0 |-> lay0, lay1 |-> lay1,
       mask |-> mask \cup (IF long THEN {LONG_BASE_IDX} ELSE {}),
       long_base |-> IF long THEN pic.poc ELSE pd.long_base]

\* Mutant of LowDelayRefresh: any picture may become the long-term reference.
LowDelayRefreshAnyLong(c, pd, pic, is_ref) ==
  LET reduce  == c.mrp.ld_reduce_ref_buffs
      base    == pic.layer = 0
      lay0    == IF base /\ reduce = 0 THEN CircInc(pd.lay0, 0, 2) ELSE pd.lay0
      lay1    == IF ~base /\ is_ref /\ reduce # 2 THEN CircInc(pd.lay1, 0, 2) ELSE pd.lay1
      long    == pic.poc - pd.long_base >= LONG_BASE_PIC
      mask    == IF base THEN {lay0} ELSE IF is_ref THEN {LAY1_OFF + lay1} ELSE {}
  IN  [lay0 |-> lay0, lay1 |-> lay1,
       mask |-> mask \cup (IF long THEN {LONG_BASE_IDX} ELSE {}),
       long_base |-> IF long THEN pic.poc ELSE pd.long_base]

\* Mutant of LowDelayRefresh: the base toggle turns under every reduction.
LowDelayRefreshTogglesBase(c, pd, pic, is_ref) ==
  LET lay0 == IF pic.layer = 0 THEN CircInc(pd.lay0, 0, 2) ELSE pd.lay0
  IN  [lay0 |-> lay0, lay1 |-> pd.lay1, long_base |-> pd.long_base,
       mask |-> IF pic.layer = 0 THEN {lay0} ELSE {1}]

\* rps_low_delay_cqp's toggles and refresh mask.
LowDelayRefresh(c, pd, pic, is_ref) ==
  LET reduce  == c.mrp.ld_reduce_ref_buffs
      base    == pic.layer = 0
      lay0    == IF base /\ reduce = 0 THEN CircInc(pd.lay0, 0, 2) ELSE pd.lay0
      lay1    == IF ~base /\ is_ref /\ reduce # 2 THEN CircInc(pd.lay1, 0, 2) ELSE pd.lay1
      long    == base /\ pic.poc - pd.long_base >= LONG_BASE_PIC
      mask    == CASE base /\ reduce = 2            -> {lay0} \cup 2..7
                   [] base /\ reduce = 1            -> {lay0} \cup 4..7
                   [] base /\ reduce = 0            -> {lay0}
                   [] ~base /\ is_ref /\ reduce = 2 -> {1}
                   [] ~base /\ is_ref /\ reduce # 2 ->
                        {(IF reduce = 0 THEN LAY1_OFF ELSE 1) + lay1}
                   [] OTHER                         -> {}
  IN  [lay0 |-> lay0, lay1 |-> lay1,
       mask |-> mask \cup (IF long THEN {LONG_BASE_IDX} ELSE {}),
       long_base |-> IF long THEN pic.poc ELSE pd.long_base]

\* generate_rps_info's choice between the two arms of low delay.
DecideLowDelay(c, pd, pic) ==
  LET slots  == IF c.rc = "cbr" THEN CbrRow(c, pd, pic) ELSE LowDelayRow(c, pd, pic)
      is_ref == IsPicUsedAsRef(pic.hier, pic.layer, pic.pic_idx, c.mrp.referencing_scheme)
      fresh  == IF c.rc = "cbr" THEN CbrRefresh(c, pd, pic, is_ref)
                                ELSE LowDelayRefresh(c, pd, pic, is_ref)
      pocs   == [i \in 1..7 |-> pd.dpb[slots[i]]]
      counts == RefListCounts(c, pic, pocs)
      entry  == PrunedEntry(counts)
  IN  [pd  |-> [pd EXCEPT !.lay0 = fresh.lay0, !.lay1 = fresh.lay1, !.long_base = fresh.long_base,
                          !.dpb = [s \in Slots |-> IF s \in fresh.mask THEN pic.poc ELSE @[s]]],
       pic |-> WithFields(pic, [refs     |-> [i \in 1..7 |-> slots[entry[i]]],
                                ref_pocs |-> [i \in 1..7 |-> pocs[entry[i]]],
                                list0    |-> counts.list0,
                                list1    |-> counts.list1,
                                refresh  |-> fresh.mask,
                                show     |-> TRUE])]

\* The position walk of one picture: the decision state behind it, and what is known
\* of the picture before its references are.
WalkPosition(c, pd, display_order) ==
  LET key     == IsKeyFrame(c, display_order)
      entries == 2 ^ c.hierarchical_levels
      pos     == NextPosition(pd, key, FALSE, entries)
      idr     == IF key THEN display_order ELSE pd.last_idr
  IN  [pd  |-> [pd EXCEPT !.position = pos, !.after_key = key, !.last_idr = idr],
       pic |-> [poc |-> display_order, key |-> key, hier |-> c.hierarchical_levels,
                cut_short |-> FALSE, layer |-> TemporalLayer(c.hierarchical_levels, pos),
                pic_idx |-> PicIdxInMg(pos, entries), frame_offset |-> display_order - idr]]

\* generate_rps_info accepts the picture.
HasRow(c, pic) == pic.key \/ c.rc = "cqp" \/ CbrHasRow(pic)

\* The decision of an accepted picture, and the decision state behind it.
RunPictureDecision(c, pd, display_order) ==
  LET walk == WalkPosition(c, pd, display_order)
  IN  IF walk.pic.key THEN DecideKey(walk.pd, walk.pic) ELSE DecideLowDelay(c, walk.pd, walk.pic)

-----------------------------------------------------------------------------
(* One call.                                                                *)

\* try_encode_frame_420 up to the picture decision.
TryEncodeFrame ==
  /\ stage = "idle"
  /\ frame_count < gop.max_frames
  /\ HasRow(gop, WalkPosition(gop, pd_ctx, frame_count).pic)
  /\ LET decided == RunPictureDecision(gop, pd_ctx, frame_count)
     IN  pd_ctx' = decided.pd /\ coding' = decided.pic
  /\ stage' = "decided"
  /\ UNCHANGED <<gop, frame_count, dpb, failed, dec>>

\* generate_rps_info has no row for the picture: the call fails behind the walk.
Refuse ==
  /\ stage = "idle"
  /\ frame_count < gop.max_frames
  /\ Len(failed) < gop.max_errors
  /\ LET walk == WalkPosition(gop, pd_ctx, frame_count)
     IN  /\ ~HasRow(gop, walk.pic)
         /\ pd_ctx' = walk.pd
         /\ failed' = Append(failed, frame_count)
  /\ UNCHANGED <<gop, frame_count, coding, stage, dpb, dec>>

\* Mutant of Code: the reconstruction never enters the last slot.
CodeSevenSlots ==
  /\ stage = "decided"
  /\ dpb' = [s \in Slots |-> IF s \in coding.refresh \ {7} THEN coding.poc ELSE dpb[s]]
  /\ stage' = "coded"
  /\ UNCHANGED <<gop, frame_count, pd_ctx, coding, failed, dec>>

\* The picture is coded, and its reconstruction enters the buffer.
Code ==
  /\ stage = "decided"
  /\ dpb' = [s \in Slots |-> IF s \in coding.refresh THEN coding.poc ELSE dpb[s]]
  /\ stage' = "coded"
  /\ UNCHANGED <<gop, frame_count, pd_ctx, coding, failed, dec>>

\* The call returns the picture's packet, which the caller decodes.
Return ==
  /\ stage = "coded"
  /\ frame_count' = frame_count + 1
  /\ dec' = DecodeFrame(dec, coding)
  /\ coding' = None
  /\ stage' = "idle"
  /\ UNCHANGED <<gop, pd_ctx, dpb, failed>>

\* The call returns Err instead: a refused tool or a cancelled encode on the way
\* to the reconstruction, the cancellation and 10-bit checks behind it.
Fail ==
  /\ stage # "idle"
  /\ Len(failed) < gop.max_errors
  /\ failed' = Append(failed, frame_count)
  /\ coding' = None
  /\ stage' = "idle"
  /\ UNCHANGED <<gop, frame_count, pd_ctx, dpb, dec>>

Next == TryEncodeFrame \/ Refuse \/ Code \/ Return \/ Fail

Spec == Init /\ [][Next]_vars

-----------------------------------------------------------------------------
(* What must hold.                                                         *)

InterPicture == stage = "decided" /\ ~coding.key

\* As long as no call fails, the slot a frame header names holds the picture the
\* decision counted on, in the encoder's buffer and in the decoder's.
LdReferencesInSync ==
  failed = <<>> =>
    /\ stage = "decided" => RefsMatch(dpb, coding)
    /\ dec.damaged = {}
    /\ stage = "idle" => dec.slots = dpb

\* An inter picture predicts from earlier pictures of its own GOP only: no slot
\* of the two layer rings and no long-term reference survives a key frame.
LdRefsWithinGop ==
  InterPicture =>
    \A r \in 1..7 : /\ coding.ref_pocs[r] >= pd_ctx.last_idr
                    /\ coding.ref_pocs[r] < coding.poc \/ coding.poc \in Range(failed)

\* As long as no call fails, a picture that names the long-term slot finds a base
\* picture there, renewed every 128 pictures and late by less than a mini-GOP
\* (rps.rs:147-148).
LongTermRenewed ==
  InterPicture /\ failed = <<>> /\ LONG_BASE_IDX \in Range(coding.refs) =>
    /\ coding.poc - pd_ctx.dpb[LONG_BASE_IDX] < LONG_BASE_PIC + 2 ^ gop.hierarchical_levels
    /\ (pd_ctx.dpb[LONG_BASE_IDX] - pd_ctx.last_idr) % 2 ^ gop.hierarchical_levels = 0

\* Under ld_reduce_ref_buffs = 2 only two buffers carry references ("Only 2 DPB
\* entries used; refresh the rest", rps.rs:212): the base picture and the last
\* picture of a higher layer, neither older than a mini-GOP as long as no call fails.
TwoBuffersSuffice ==
  InterPicture /\ gop.mrp.ld_reduce_ref_buffs = 2 =>
    /\ \A r \in 1..7 : coding.refs[r] \in {0, 1}
    /\ failed = <<>> => coding.ref_pocs[LAST] >= coding.poc - 2 ^ gop.hierarchical_levels

\* Under CBR the temporal layers nest: a picture is predicted from its own layer and
\* those below, and nothing is predicted from layer 2.
CbrLayersNest ==
  InterPicture /\ gop.rc = "cbr" /\ failed = <<>> =>
    \A r \in 1..7 :
      LET age == (coding.ref_pocs[r] - pd_ctx.last_idr) % 2 ^ gop.hierarchical_levels
      IN  TemporalLayer(gop.hierarchical_levels, age) <= Smaller(coding.layer, 1)

\* CBR has references for every picture of a GOP of at most two levels ("LD CBR only
\* supports flat/1L/2L", rps.rs:345-346), wherever failed calls have left the walk.
CbrServesTwoLevels ==
  stage = "idle" /\ gop.hierarchical_levels <= 2 =>
    HasRow(gop, WalkPosition(gop, pd_ctx, frame_count).pic)

\* Damage has a cause and an end: a picture decoded from other references than the
\* encoder's follows a failed call of an inter picture of its GOP.  Repeating the
\* call of a key frame does no harm, and the next key frame repairs everything.
DamageIsLocal ==
  \A p \in dec.damaged :
    \E q \in Range(failed) :
      q <= p /\ \A k \in q..p : ~IsKeyFrame(gop, k)

\* No reference of a low-delay picture is marked as a backward one
\* (partition.rs:193-196: sign bias "1 marks a BACKWARD reference [...] All-zero
\* under low delay").
SignBiasZeroUnderLowDelay ==
  InterPicture => \A r \in 1..7 : SignBias(coding, r) = 0

\* A failed call can be repeated: "the frame counter is left un-advanced so the
\* caller can retry a supported config on the same pipeline"
\* (pack_phase.rs:1356-1357).  The picture coded then, and those behind it, decode
\* from the references the encoder used.
RetryKeepsSync == dec.damaged = {}
=============================================================================
