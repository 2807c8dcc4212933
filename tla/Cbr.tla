-------------------------------- MODULE Cbr --------------------------------
(***************************************************************************)
(* One-pass CBR rate control (pipeline/cbr.rs) composed with the low-delay *)
(* calls it serves.  cbr_frame_qindex runs between a call's picture        *)
(* decision and its coding, cbr_postencode between the reconstruction and  *)
(* the packet; a call may fail before, between and behind the two.         *)
(*                                                                         *)
(* A configuration adds to LowDelay's super_block_size, sb_total_count,    *)
(* target_bit_rate, avg_frame_bandwidth (new_framerate's bits per picture) *)
(* and buffer_size_ms.  The quantiser itself is left out: the model keeps  *)
(* the counters it is derived from, the refresh band and the buffer.       *)
(***************************************************************************)
EXTENDS LowDelay

CONSTANT PacketBits  \* the sizes a packet may have, in bits

VARIABLES
  rc,       \* RateControl's counters and buffer level
  cr,       \* CyclicRefresh, with the cursor cr_sb_end
  rate,     \* rate control in the call in progress: "none", "picked" or "charged"
  packet,   \* the size the call was charged for
  late,     \* history: the pictures whose call failed behind the charge
  offered,  \* history: how often each superblock was in the band of a returned packet
  channel   \* history: bits the channel carried above those of the packets returned

rateVars == <<rc, cr, rate, packet, late, offered, channel>>

ASSUME CbrAssumption ==
  /\ PacketBits \subseteq Nat
  /\ \A c \in LdConfigs :
       /\ c.sb_total_count \in Nat
       /\ c.target_bit_rate \in Nat /\ c.avg_frame_bandwidth \in Nat
       /\ c.buffer_size_ms \in Nat

-----------------------------------------------------------------------------
(* The rate control state.                                                  *)

DefaultLevelMs(c) == Smaller(600, IF c.buffer_size_ms = 0 THEN 0 ELSE c.buffer_size_ms - 1)

\* set_rc_buffer_sizes; a maximum of 0 ms stands for an eighth of a second.
StartingBufferLevel(c) == (DefaultLevelMs(c) * c.target_bit_rate) \div 1000
MaximumBufferSize(c) ==
  IF c.buffer_size_ms = 0 THEN c.target_bit_rate \div 8
                          ELSE (c.buffer_size_ms * c.target_bit_rate) \div 1000

\* apply_rc_init, of what the model keeps: percent_refresh_adjustment and
\* frames_to_key are not among what it resets.
RcInit(c, r) ==
  [r EXCEPT !.frames_since_key = 8, !.this_key_frame_forced = FALSE,
            !.buffer_level = StartingBufferLevel(c)]

\* Mutant of OnePassRtRateAlloc: the countdown starts once, at the first picture.
OnePassRtCountsOnce(c, r, display_order, key) ==
  IF ~key THEN r
  ELSE [r EXCEPT !.this_key_frame_forced = display_order # 0 /\ r.frames_to_key = 0,
                 !.frames_to_key = IF display_order = 0 THEN c.intra_period ELSE @]

\* one_pass_rt_rate_alloc; its intra_period_length is one less than the period.
OnePassRtRateAlloc(c, r, display_order, key) ==
  IF ~key THEN r
  ELSE [r EXCEPT !.this_key_frame_forced = display_order # 0 /\ r.frames_to_key = 0,
                 !.frames_to_key = c.intra_period]

\* process_rate_allocation.
ProcessRateAllocation(c, r, display_order, key) ==
  OnePassRtRateAlloc(c, IF display_order = 0 THEN RcInit(c, r) ELSE r, display_order, key)

\* The superblocks is_in_cr_band accepts.
InCrBand(c, z) ==
  {sb \in 0..(c.sb_total_count - 1) :
     IF z.sb_start <= z.sb_end THEN z.sb_start <= sb /\ sb < z.sb_end
                               ELSE z.sb_start <= sb \/ sb < z.sb_end}

\* Mutant of MoveBand: a band that ends with the frame does not send the cursor home.
MoveBandPastEnd(c, z, percent) ==
  LET end == Smaller(z.cr_sb_end + (c.sb_total_count * percent) \div 100, c.sb_total_count)
  IN  [z EXCEPT !.sb_start = z.cr_sb_end, !.sb_end = end, !.cr_sb_end = end]

\* cyclic_refresh_init's band: from where the last one ended, and from the first
\* superblock again behind the last.
MoveBand(c, z, percent) ==
  LET end == Smaller(z.cr_sb_end + (c.sb_total_count * percent) \div 100, c.sb_total_count)
  IN  [z EXCEPT !.sb_start = z.cr_sb_end, !.sb_end = end,
                !.cr_sb_end = IF end >= c.sb_total_count THEN 0 ELSE end]

\* cyclic_refresh_init's reset of the adjustment.
ResetAdjustment(r, key) == IF key THEN [r EXCEPT !.percent_refresh_adjustment = 5] ELSE r

\* cyclic_refresh_init and cyclic_refresh_setup.  eligible: the quantiser and the
\* motion of the pictures before allow a refresh; screen: sc_class1; static: some
\* superblock of the band does not move.
CyclicRefreshInit(c, r, z, pic, eligible, screen, static) ==
  LET percent == 20 + r.percent_refresh_adjustment + (IF screen THEN 5 ELSE 0)
      armed   == ~pic.key /\ pic.layer = 0 /\ c.super_block_size = 64 /\ eligible
      moved   == MoveBand(c, z, percent)
  IN  IF ~armed THEN [z EXCEPT !.armed = FALSE, !.apply = FALSE]
      ELSE [moved EXCEPT !.armed = TRUE, !.apply = static /\ InCrBand(c, moved) # {}]

\* Mutant of UpdateBufferLevel: the bucket does not overflow.
UpdateBufferLevelUnclipped(c, level, bits) == level + c.avg_frame_bandwidth - bits

\* update_buffer_level; every low-delay picture is showable.
UpdateBufferLevel(c, level, bits) ==
  Smaller(level + c.avg_frame_bandwidth - bits, MaximumBufferSize(c))

Bounded(low, v, high) == IF v < low THEN low ELSE Smaller(v, high)

\* postencode_update and update_rc_counts.  drift: the packet was far larger (-1) or
\* far smaller (1) than its quantiser promised, or neither (0).
PostencodeUpdate(c, r, z, key, bits, drift) ==
  [r EXCEPT
     !.percent_refresh_adjustment = IF z.apply THEN Bounded(-5, @ + drift, 5) ELSE @,
     !.buffer_level = UpdateBufferLevel(c, @, bits),
     !.frames_since_key = (IF key THEN 0 ELSE @) + 1,
     !.frames_to_key = @ - 1]

-----------------------------------------------------------------------------
(* One call.                                                                *)

CbrInit ==
  /\ Init
  /\ rc = [frames_since_key |-> 0, frames_to_key |-> 0, this_key_frame_forced |-> FALSE,
           percent_refresh_adjustment |-> 0, buffer_level |-> 0]
  /\ cr = [armed |-> FALSE, apply |-> FALSE, sb_start |-> 0, sb_end |-> 0, cr_sb_end |-> 0]
  /\ rate = "none"
  /\ packet = 0
  /\ late = {}
  /\ offered = [sb \in 0..(gop.sb_total_count - 1) |-> 0]
  /\ channel = 0

\* The call up to its picture decision, or its refusal there.
CbrDecide == (TryEncodeFrame \/ Refuse) /\ UNCHANGED rateVars

\* Mutant of CbrFrameQindex: a key frame takes the band back to the first superblock.
CbrFrameQindexRestartsBand ==
  /\ stage = "decided" /\ rate = "none"
  /\ rate' = "picked"
  /\ \E eligible, screen, static \in BOOLEAN :
       LET r == ResetAdjustment(ProcessRateAllocation(gop, rc, frame_count, coding.key), coding.key)
           z == IF coding.key THEN [cr EXCEPT !.cr_sb_end = 0] ELSE cr
       IN  /\ rc' = r
           /\ cr' = CyclicRefreshInit(gop, r, z, coding, eligible, screen, static)
  /\ UNCHANGED <<vars, packet, late, offered, channel>>

\* cbr_frame_qindex.
CbrFrameQindex ==
  /\ stage = "decided" /\ rate = "none"
  /\ rate' = "picked"
  /\ \E eligible, screen, static \in BOOLEAN :
       LET r == ResetAdjustment(ProcessRateAllocation(gop, rc, frame_count, coding.key), coding.key)
       IN  /\ rc' = r
           /\ cr' = CyclicRefreshInit(gop, r, cr, coding, eligible, screen, static)
  /\ UNCHANGED <<vars, packet, late, offered, channel>>

\* The picture is coded with the quantiser picked.
CbrCode == Code /\ rate = "picked" /\ UNCHANGED rateVars

\* cbr_postencode.
CbrPostencode ==
  /\ stage = "coded" /\ rate = "picked"
  /\ rate' = "charged"
  /\ \E bits \in PacketBits, drift \in -1..1 :
       /\ packet' = bits
       /\ rc' = PostencodeUpdate(gop, rc, cr, coding.key, bits, drift)
  /\ UNCHANGED <<vars, cr, late, offered, channel>>

\* The call returns the packet.
CbrReturn ==
  /\ Return /\ rate = "charged"
  /\ rate' = "none"
  /\ packet' = 0
  /\ offered' = [sb \in DOMAIN offered |->
                   offered[sb] + (IF cr.armed /\ sb \in InCrBand(gop, cr) THEN 1 ELSE 0)]
  /\ channel' = channel + gop.avg_frame_bandwidth - packet
  /\ UNCHANGED <<rc, cr, late>>

\* The call returns Err: before the quantiser, before or behind the reconstruction,
\* or behind the charge, where a 10-bit source nobody read is found.
CbrFail ==
  /\ Fail
  /\ rate' = "none"
  /\ packet' = 0
  /\ late' = IF rate = "charged" THEN late \cup {frame_count} ELSE late
  /\ UNCHANGED <<rc, cr, offered, channel>>

CbrNext ==
  CbrDecide \/ CbrFrameQindex \/ CbrCode \/ CbrPostencode \/ CbrReturn \/ CbrFail

CbrSpec == CbrInit /\ [][CbrNext]_<<vars, rateVars>>

-----------------------------------------------------------------------------
(* What must hold.                                                         *)

\* The key frame that opens the GOP of a display order other than the first's.
OpensAt(display_order) ==
  IF gop.intra_period = 0 THEN 0 ELSE (display_order \div gop.intra_period) * gop.intra_period

\* A call of an inter picture of the GOP opened at key failed behind its charge.
ChargedTwice(key) == \E p \in late : p # OpensAt(p) /\ OpensAt(p) = key

\* When a picture's quantiser is picked, the counters count what the stream holds:
\* pictures since the last key frame and to the next, and a later key frame is a
\* forced one.  What upsets them is repeating a call: of an inter picture, when it
\* failed behind its charge, until the next key frame; of a key frame, always.
RateCountersFollowGop ==
  rate = "picked" =>
    LET key == OpensAt(coding.poc)
        age == coding.poc - key
    IN  IF coding.key
          THEN coding.poc \notin Range(failed) /\ ~ChargedTwice(OpensAt(coding.poc - 1)) =>
                 (rc.this_key_frame_forced <=> coding.poc # 0)
          ELSE ~ChargedTwice(key) => /\ rc.frames_since_key = age
                                     /\ rc.frames_to_key = gop.intra_period - age

\* The refresh goes round: between two turns of a superblock every other has one,
\* whatever the percentage, key frames and skipped pictures in between, but for one
\* band per failed call; in a frame of at least 7 superblocks no band is empty.
BandsTurn ==
  /\ \A i, j \in DOMAIN offered : offered[i] <= offered[j] + 1 + Len(failed)
  /\ rate # "none" /\ cr.armed /\ gop.sb_total_count >= 7 => InCrBand(gop, cr) # {}

\* The buffer level never promises bits the channel does not have: those it started
\* with, and what the packets returned left over.  Repeating the call of a picture
\* behind the first, failed behind its charge, credits the channel twice.
BucketFollowsChannel ==
  frame_count > 0 =>
    /\ rc.buffer_level <= MaximumBufferSize(gop)
    /\ late \subseteq {0} =>
         rc.buffer_level <= StartingBufferLevel(gop) + channel
                            + (IF rate = "charged" THEN gop.avg_frame_bandwidth - packet ELSE 0)
=============================================================================
