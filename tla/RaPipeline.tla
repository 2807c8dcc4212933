----------------------------- MODULE RaPipeline -----------------------------
(***************************************************************************)
(* The random-access pipeline end to end: RaQueue's queue and calls, with  *)
(* the decisions of PictureDecision taken at each release, the packets     *)
(* encode_ra_window writes in decode order, the encoder's own reference    *)
(* buffer, and a decoder that is fed what each call returns.               *)
(***************************************************************************)
EXTENDS PictureDecision, Decoder

\* As in RaQueue.  A configuration carries the bounds it is checked under: at most
\* max_pics input pictures, and failing calls only if may_fail.
CONSTANTS GopConfigs, MaxPics, MayFail, None

VARIABLES
  gop, ra_input, ra_display_next, delayed_intra, delayed_intra_out,
  frames, out, delivered, lost, call, flushed,  \* as in RaQueue
  pd_ctx,    \* the decision state, see PictureDecision
  emit,      \* the release's decided pictures still to be coded, decode order
  tu_open,   \* encode_ra_window's temporal unit has no shown picture yet
  dpb,       \* the encoder's DecodedPictureBuffer, by display order
  obus,      \* the OBUs of the call in progress or the last one
  dec        \* the decoder

Q == INSTANCE RaQueue

\* The configurations are those of the queue, with a mini-GOP of
\* 2 ^ hierarchical_levels pictures (GopStructure::new), the five levels the
\* tables have and an MrpCtrls row that keeps a reference in each list.
ASSUME PipelineAssumption ==
  /\ Q!GopAssumption /\ Q!BoundAssumption
  /\ \A g \in GopConfigs :
       /\ g.hierarchical_levels \in 0..5
       /\ g.mini_gop_size = 2 ^ g.hierarchical_levels
       /\ g.max_pics \in Nat
       /\ g.may_fail \in BOOLEAN
       /\ g.mrp.referencing_scheme \in 0..2
       /\ g.mrp.more_5l_refs \in Nat
       /\ g.mrp.base_ref_list0_count \in 1..4 /\ g.mrp.non_base_ref_list0_count \in 1..4
       /\ g.mrp.base_ref_list1_count \in 1..3 /\ g.mrp.non_base_ref_list1_count \in 1..3

codingVars == <<pd_ctx, emit, tu_open, dpb, obus, dec>>
vars == <<Q!queueVars, codingVars>>

Init ==
  /\ Q!Init
  /\ pd_ctx = InitDecision
  /\ emit = <<>>
  /\ tu_open = FALSE
  /\ dpb = [s \in Slots |-> Empty]
  /\ obus = <<>>
  /\ dec = InitDecoder

-----------------------------------------------------------------------------

\* DecodedPictureBuffer::refresh.
RefreshDpb(pic) == [s \in Slots |-> IF s \in pic.refresh THEN pic.poc ELSE dpb[s]]

\* A key frame's decision does not depend on anything but its display order.
KeyPicture(poc) == DecideKey(pd_ctx, [poc |-> poc, key |-> TRUE]).pic

\* try_encode_frame_420_ra and try_flush start a call with no bytes.
Submit ==
  /\ ra_display_next < gop.max_pics
  /\ Q!TryEncodeFrame
  /\ obus' = <<>>
  /\ UNCHANGED <<pd_ctx, emit, tu_open, dpb, dec>>

Flush  == Q!TryFlush /\ obus' = <<>> /\ UNCHANGED <<pd_ctx, emit, tu_open, dpb, dec>>

\* encode_ra_window up to its emit loop: run_ra_picture_decision on the release.
ReleaseWindow(m, key_member) ==
  /\ Q!EncodeRaWindow(m, key_member)
  /\ LET decided == DecideRelease(gop, pd_ctx, SubSeq(ra_input, 1, m), key_member)
     IN  pd_ctx' = decided.pd /\ emit' = decided.emit
  /\ tu_open' = FALSE
  /\ UNCHANGED <<dpb, obus, dec>>

\* encode_delayed_intra: the held key frame is a temporal unit of its own.
CodeHeldKey ==
  /\ Q!EncodeDelayedIntra
  /\ LET pic == KeyPicture(delayed_intra_out)
     IN  /\ obus' = obus \o <<TD, Frame(pic)>>
         /\ dpb' = RefreshDpb(pic)
  /\ UNCHANGED <<pd_ctx, emit, tu_open, dec>>

\* Mutant of CodeNext: no show_existing header follows a top-layer picture.
CodeNextNeverShows ==
  /\ emit # <<>>
  /\ LET pic == Head(emit)
     IN  /\ Q!EncodeMember(pic.poc)
         /\ obus' = obus \o (IF tu_open THEN <<>> ELSE <<TD>>) \o <<Frame(pic)>>
         /\ tu_open' = ~pic.show
         /\ dpb' = RefreshDpb(pic)
  /\ emit' = Tail(emit)
  /\ UNCHANGED <<pd_ctx, dec>>

\* Mutant of CodeNext: the show_existing header opens no unit of its own.
CodeNextSharesUnit ==
  /\ emit # <<>>
  /\ LET pic == Head(emit)
     IN  /\ Q!EncodeMember(pic.poc)
         /\ obus' = obus \o (IF tu_open THEN <<>> ELSE <<TD>>) \o <<Frame(pic)>>
                         \o (IF pic.show_existing # NoSlot
                               THEN <<ShowExisting(pic.show_existing)>> ELSE <<>>)
         /\ tu_open' = ~pic.show
         /\ dpb' = RefreshDpb(pic)
  /\ emit' = Tail(emit)
  /\ UNCHANGED <<pd_ctx, dec>>

\* One turn of the emit loop: the delimiter if no unit is open, the packet, and
\* the show_existing header in a unit of its own.
CodeNext ==
  /\ emit # <<>>
  /\ LET pic == Head(emit)
     IN  /\ Q!EncodeMember(pic.poc)
         /\ obus' = obus \o (IF tu_open THEN <<>> ELSE <<TD>>) \o <<Frame(pic)>>
                         \o (IF pic.show_existing # NoSlot
                               THEN <<TD, ShowExisting(pic.show_existing)>> ELSE <<>>)
         /\ tu_open' = ~pic.show
         /\ dpb' = RefreshDpb(pic)
  /\ emit' = Tail(emit)
  /\ UNCHANGED <<pd_ctx, dec>>

\* The call returns its bytes, and the caller decodes them.
Return == Q!Return /\ dec' = Decode(dec, obus) /\ UNCHANGED <<pd_ctx, emit, tu_open, dpb, obus>>

\* The call fails in coding a picture, before or after its reconstruction enters
\* the buffer: its bytes and its uncoded members are gone, everything the decisions
\* and the coded pictures have changed stays.
Fail ==
  /\ gop.may_fail
  /\ Q!Fail
  /\ LET failing == IF delayed_intra_out # None THEN KeyPicture(delayed_intra_out)
                                                ELSE Head(emit)
     IN  dpb' \in {dpb, RefreshDpb(failing)}
  /\ emit' = <<>>
  /\ obus' = <<>>
  /\ UNCHANGED <<pd_ctx, tu_open, dec>>

InCall ==
  \/ \E m \in 1..Len(ra_input), key_member \in BOOLEAN : ReleaseWindow(m, key_member)
  \/ CodeHeldKey
  \/ CodeNext
  \/ Return

Next == Submit \/ Flush \/ InCall \/ Fail

Spec == Init /\ [][Next]_vars

-----------------------------------------------------------------------------
(* What must hold.                                                         *)

\* generate_rps_info has a row and a show_existing slot for every picture a
\* release can contain, and no table is indexed past its end.
NeverRejects == pd_ctx.ok

\* As long as no call fails the decoder shows the inputs in display order, each
\* once, and after a flush all of them: every hidden picture is shown by the one
\* show_existing header whose slot still holds it.
ShownInOrder ==
  lost = {} =>
  /\ \A i \in 1..Len(dec.shown) : dec.shown[i] = i - 1
  /\ flushed /\ call = "idle" => Len(dec.shown) = ra_display_next

\* The emit order visits each member of the release exactly once
\* (ra.rs:594-596, "emit order visits each picture once").
EmitsEachOnce ==
  /\ frames = {emit[i].poc : i \in 1..Len(emit)}
  /\ Len(emit) = Cardinality(frames)

\* What a frame header says a slot holds is what it holds, when the frame is
\* coded, in the encoder's own buffer, and when it is decoded, in the decoder's;
\* the shadow DPB of picture decision agrees with both between calls, as long as
\* none of them fails.
ReferencesInSync ==
  lost = {} =>
  /\ emit # <<>> /\ delayed_intra_out = None => RefsMatch(dpb, Head(emit))
  /\ dec.damaged = {}
  /\ call = "idle" /\ delayed_intra = None =>
       dec.slots = dpb /\ (ra_display_next > Len(ra_input) => dpb = pd_ctx.dpb)

\* A B picture of a complete mini-GOP predicts from the past through LAST and
\* from the future through BWDREF; any other inter picture only from the past, one
\* that is cut short from the picture right before it.
RefsBracket ==
  \A i \in 1..Len(emit) :
    LET pic == emit[i]
    IN  ~pic.key =>
          IF pic.cut_short \/ pic.layer = 0
            THEN /\ \A r \in 1..7 : pic.ref_pocs[r] < pic.poc
                 /\ pic.cut_short => pic.ref_pocs[LAST] = pic.poc - 1
            ELSE pic.ref_pocs[LAST] < pic.poc /\ pic.poc < pic.ref_pocs[BWD]

\* A call returns whole temporal units.
UnitsWellFramed == call = "idle" => WellFramed(obus)

\* decode_base_number and picture_number_alt both count the pictures decided so
\* far, so the two arms of pass 2 number the pictures of a stream consistently
\* (ra.rs:926-953).
CountersInStep ==
  pd_ctx.base = ra_display_next - Len(ra_input) /\ pd_ctx.alt = pd_ctx.base

\* No picture references one before the last key frame in front of it.
NoRefAcrossKey ==
  \A i \in 1..Len(emit) :
    LET pic == emit[i]
    IN  ~pic.key => \A r \in 1..7 : pic.ref_pocs[r] >= pic.poc - (pic.poc % gop.intra_period)

\* A failed call damages the pictures of its own GOP only: whatever was lost, a
\* picture behind the next key frame that reaches the decoder decodes from the
\* references the encoder used.
DamageEndsAtKey ==
  \A p \in dec.damaged : \E q \in lost : q >= p - (p % gop.intra_period)
=============================================================================
