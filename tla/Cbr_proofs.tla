----------------------------- MODULE Cbr_proofs -----------------------------
(***************************************************************************)
(* Three invariants of one-pass CBR for every frame size, bit rate, buffer,*)
(* length of the stream and number of failed calls: the refresh band goes  *)
(* round the frame (BandsTurn), the buffer level never promises more than  *)
(* the channel carried (BucketFollowsChannel), and the counters follow the *)
(* GOP (RateCountersFollowGop).                                            *)
(***************************************************************************)
EXTENDS Cbr, LowDelay_proofs

-----------------------------------------------------------------------------
(* The inductive invariant.                                                 *)

\* The counters the two invariants read.
Counters(r) ==
  /\ DOMAIN r = {"frames_since_key", "frames_to_key", "this_key_frame_forced",
                 "percent_refresh_adjustment", "buffer_level"}
  /\ r.percent_refresh_adjustment \in -5..5
  /\ r.buffer_level \in Int

\* The state the two invariants read.
CbrType ==
  /\ gop \in LdConfigs
  /\ frame_count \in Nat
  /\ failed \in Seq(Nat)
  /\ rate \in {"none", "picked", "charged"}
  /\ packet \in Int
  /\ channel \in Int
  /\ Counters(rc)
  /\ cr \in [armed : BOOLEAN, apply : BOOLEAN, sb_start : Nat, sb_end : Nat, cr_sb_end : Nat]
  /\ offered \in [0..(gop.sb_total_count - 1) -> Int]

\* The cursor stands on a superblock, and the band of an armed picture ends where
\* the next one starts.
BandKept ==
  LET sbs == gop.sb_total_count
  IN  /\ cr.cr_sb_end < sbs \/ cr.cr_sb_end = 0
      /\ cr.sb_start <= cr.sb_end /\ cr.sb_end <= sbs
      /\ rate # "none" /\ cr.armed =>
           /\ cr.cr_sb_end = IF cr.sb_end >= sbs THEN 0 ELSE cr.sb_end
           /\ sbs >= 7 => cr.sb_start < cr.sb_end

\* 1 for a superblock whose turn is in the call in progress.
Pending(sb) ==
  IF rate # "none" /\ cr.armed /\ cr.sb_start <= sb /\ sb < cr.sb_end THEN 1 ELSE 0

\* How often the cursor has given a superblock its turn, when it has gone round k
\* times, but for the call in progress.
Given(k, sb) == k + (IF sb < cr.cr_sb_end THEN 1 ELSE 0) - Pending(sb)

\* Every turn given was in a returned packet, or else in the call that failed.
Turns ==
  \E k \in Nat : \A sb \in 0..(gop.sb_total_count - 1) :
    /\ offered[sb] <= Given(k, sb)
    /\ Given(k, sb) <= offered[sb] + Len(failed)

\* The level, from the moment the first picture's quantiser is picked.
LevelKept ==
  /\ frame_count = 0 => channel = 0
  /\ frame_count > 0 \/ rate # "none" =>
       /\ rc.buffer_level <= MaximumBufferSize(gop)
       /\ late \subseteq {0} =>
            rc.buffer_level <= StartingBufferLevel(gop) + channel
                               + (IF rate = "charged" THEN gop.avg_frame_bandwidth - packet
                                                      ELSE 0)

IInv == CbrType /\ BandKept /\ Turns /\ LevelKept

-----------------------------------------------------------------------------
(* Arithmetic.                                                              *)

\* A smaller share of the bit rate is the smaller buffer.
LEMMA SharesOrdered ==
  ASSUME NEW a \in Nat, NEW b \in Nat, NEW bit_rate \in Nat, a <= b
  PROVE  /\ (a * bit_rate) \div 1000 \in Nat
         /\ (b * bit_rate) \div 1000 \in Nat
         /\ (a * bit_rate) \div 1000 <= (b * bit_rate) \div 1000
<1>1. PICK d \in Nat : b = a + d
  <2>. WITNESS b - a \in Nat
  <2>. QED  OBVIOUS
<1>2. b * bit_rate = a * bit_rate + d * bit_rate
  BY <1>1
<1>3. a * bit_rate \in Nat /\ d * bit_rate \in Nat
  BY <1>1
<1>4. ASSUME NEW x \in Nat, NEW y \in Nat
      PROVE  x \div 1000 \in Nat /\ (x + y) \div 1000 \in Nat /\ x \div 1000 <= (x + y) \div 1000
  OBVIOUS
<1>. QED
  BY <1>2, <1>3, <1>4

\* The buffer starts within its size.
LEMMA StartsWithinSize ==
  ASSUME NEW c \in LdConfigs
  PROVE  /\ StartingBufferLevel(c) \in Nat /\ MaximumBufferSize(c) \in Nat
         /\ StartingBufferLevel(c) <= MaximumBufferSize(c)
<1>. c.target_bit_rate \in Nat /\ c.buffer_size_ms \in Nat
  BY CbrAssumption
<1>1. CASE c.buffer_size_ms = 0
  <2>1. DefaultLevelMs(c) = 0
    BY <1>1 DEF DefaultLevelMs, Smaller
  <2>2. StartingBufferLevel(c) = 0
    BY <2>1 DEF StartingBufferLevel
  <2>3. MaximumBufferSize(c) \in Nat
    BY <1>1 DEF MaximumBufferSize
  <2>. QED
    BY <2>2, <2>3
<1>2. CASE c.buffer_size_ms # 0
  <2>1. DefaultLevelMs(c) \in Nat /\ DefaultLevelMs(c) <= c.buffer_size_ms
    BY <1>2 DEF DefaultLevelMs, Smaller
  <2>2. MaximumBufferSize(c) = (c.buffer_size_ms * c.target_bit_rate) \div 1000
    BY <1>2 DEF MaximumBufferSize
  <2>. QED
    BY <2>1, <2>2, SharesOrdered DEF StartingBufferLevel
<1>. QED
  BY <1>1, <1>2

\* A band of at least 15 per cent of at least 7 superblocks is not empty.
LEMMA BandLength ==
  ASSUME NEW sbs \in Nat, NEW percent \in 15..30
  PROVE  /\ (sbs * percent) \div 100 \in Nat
         /\ sbs >= 7 => (sbs * percent) \div 100 >= 1
<1>1. sbs * percent \in Nat
  OBVIOUS
<1>2. sbs >= 7 => sbs * percent >= 7 * 15
  <2>. SUFFICES ASSUME sbs >= 7 PROVE sbs * percent >= 7 * 15
    OBVIOUS
  <2>1. PICK x \in Nat, y \in Nat : sbs = 7 + x /\ percent = 15 + y
    <3>. WITNESS sbs - 7 \in Nat, percent - 15 \in Nat
    <3>. QED  OBVIOUS
  <2>2. sbs * percent = 7 * 15 + 7 * y + x * 15 + x * y
    BY <2>1
  <2>3. x * y \in Nat
    BY <2>1
  <2>. QED
    BY <2>1, <2>2, <2>3
<1>3. ASSUME NEW n \in Nat PROVE n \div 100 \in Nat /\ (n >= 105 => n \div 100 >= 1)
  OBVIOUS
<1>. QED
  BY <1>1, <1>2, <1>3

-----------------------------------------------------------------------------
(* The steps.                                                               *)

\* What the assumption says of the configuration of a run.
LEMMA ConfigFacts ==
  ASSUME CbrType
  PROVE  /\ gop.intra_period \in Nat /\ gop.sb_total_count \in Nat
         /\ gop.avg_frame_bandwidth \in Nat
         /\ StartingBufferLevel(gop) \in Nat /\ MaximumBufferSize(gop) \in Nat
         /\ StartingBufferLevel(gop) <= MaximumBufferSize(gop)
BY CbrAssumption, LdAssumption, StartsWithinSize DEF CbrType

LEMMA InitIInv == CbrInit => IInv
<1>. SUFFICES ASSUME CbrInit PROVE IInv
  OBVIOUS
<1>. USE DEF CbrInit, Init
<1>1. gop.sb_total_count \in Nat
  BY CbrAssumption
<1>2. CbrType
  <2>1. Counters(rc)
    BY DEF Counters
  <2>. QED
    BY <2>1 DEF CbrType
<1>3. BandKept
  BY <1>1 DEF BandKept
<1>4. Turns
  <2>1. \A sb \in 0..(gop.sb_total_count - 1) : Given(0, sb) = 0
    BY <1>1 DEF Given, Pending
  <2>2. \A sb \in 0..(gop.sb_total_count - 1) :
          offered[sb] <= Given(0, sb) /\ Given(0, sb) <= offered[sb] + Len(failed)
    BY <2>1, <1>1
  <2>. QED
    BY <2>2 DEF Turns
<1>5. LevelKept
  BY DEF LevelKept
<1>. QED
  BY <1>2, <1>3, <1>4, <1>5 DEF IInv

\* Steps that leave rate control alone; a refused call is one more failed call.
LEMMA CallKeeps ==
  ASSUME IInv, UNCHANGED <<gop, frame_count, rateVars>>,
         failed' \in Seq(Nat), Len(failed') >= Len(failed)
  PROVE  IInv'
<1>. USE DEF IInv, rateVars
<1>1. CbrType'
  BY DEF CbrType
<1>2. BandKept'
  BY DEF BandKept
<1>3. Turns'
  <2>1. PICK k \in Nat : \A sb \in 0..(gop.sb_total_count - 1) :
          offered[sb] <= Given(k, sb) /\ Given(k, sb) <= offered[sb] + Len(failed)
    BY DEF Turns
  <2>2. ASSUME NEW sb \in 0..(gop.sb_total_count - 1)
        PROVE  Given(k, sb)' = Given(k, sb) /\ Given(k, sb) \in Int /\ offered[sb] \in Int
    BY DEF Given, Pending, CbrType
  <2>3. Len(failed) \in Nat /\ Len(failed') \in Nat
    BY DEF CbrType
  <2>4. \A sb \in 0..(gop.sb_total_count - 1) :
          /\ offered'[sb] <= Given(k, sb)'
          /\ Given(k, sb)' <= offered'[sb] + Len(failed')
    BY <2>1, <2>2, <2>3
  <2>. QED
    BY <2>4 DEF Turns
<1>4. LevelKept'
  BY DEF LevelKept, MaximumBufferSize, StartingBufferLevel
<1>. QED
  BY <1>1, <1>2, <1>3, <1>4

LEMMA DecideKeeps == IInv /\ CbrDecide => IInv'
<1>. SUFFICES ASSUME IInv, CbrDecide PROVE IInv'
  OBVIOUS
<1>1. failed \in Seq(Nat) /\ frame_count \in Nat
  BY DEF IInv, CbrType
<1>2. /\ UNCHANGED <<gop, frame_count, rateVars>>
      /\ failed' = failed \/ failed' = Append(failed, frame_count)
  BY DEF CbrDecide, TryEncodeFrame, Refuse
<1>3. failed' \in Seq(Nat) /\ Len(failed') >= Len(failed)
  BY <1>1, <1>2
<1>. QED
  BY <1>2, <1>3, CallKeeps

LEMMA CodeKeeps == IInv /\ CbrCode => IInv'
<1>. SUFFICES ASSUME IInv, CbrCode PROVE IInv'
  OBVIOUS
<1>1. UNCHANGED <<gop, frame_count, failed, rateVars>>
  BY DEF CbrCode, Code
<1>2. failed' \in Seq(Nat) /\ Len(failed') >= Len(failed)
  BY <1>1 DEF IInv, CbrType
<1>. QED
  BY <1>1, <1>2, CallKeeps

\* What a pick does to the counters.
LEMMA PickCounts ==
  ASSUME CbrType, NEW key,
         NEW r, r = ResetAdjustment(ProcessRateAllocation(gop, rc, frame_count, key), key)
  PROVE  /\ Counters(r)
         /\ r.buffer_level = IF frame_count = 0 THEN StartingBufferLevel(gop) ELSE rc.buffer_level
<1>. DEFINE first == IF frame_count = 0 THEN RcInit(gop, rc) ELSE rc
            second == OnePassRtRateAlloc(gop, first, frame_count, key)
<1>1. StartingBufferLevel(gop) \in Int /\ Counters(rc)
  BY ConfigFacts DEF CbrType
<1>2. /\ Counters(first)
      /\ first.buffer_level = IF frame_count = 0 THEN StartingBufferLevel(gop)
                                                ELSE rc.buffer_level
  BY <1>1 DEF RcInit, Counters
<1>. HIDE DEF first
<1>3. Counters(second) /\ second.buffer_level = first.buffer_level
  BY <1>2 DEF OnePassRtRateAlloc, Counters
<1>4. r = ResetAdjustment(second, key)
  BY DEF ProcessRateAllocation, first
<1>. HIDE DEF second
<1>5. Counters(r) /\ r.buffer_level = second.buffer_level
  BY <1>3, <1>4 DEF ResetAdjustment, Counters
<1>. QED
  BY <1>2, <1>3, <1>5

\* What a pick does to the band: nothing, or it moves on from the cursor.
LEMMA PickMovesBand ==
  ASSUME CbrType, BandKept, NEW r, Counters(r), NEW pic,
         NEW eligible \in BOOLEAN, NEW screen \in BOOLEAN, NEW static \in BOOLEAN,
         NEW z, z = CyclicRefreshInit(gop, r, cr, pic, eligible, screen, static)
  PROVE  LET sbs == gop.sb_total_count
         IN  /\ z \in [armed : BOOLEAN, apply : BOOLEAN, sb_start : Nat, sb_end : Nat,
                       cr_sb_end : Nat]
             /\ \/ /\ ~z.armed
                   /\ z.sb_start = cr.sb_start /\ z.sb_end = cr.sb_end
                   /\ z.cr_sb_end = cr.cr_sb_end
                \/ /\ z.armed
                   /\ z.sb_start = cr.cr_sb_end
                   /\ z.sb_start <= z.sb_end /\ z.sb_end <= sbs
                   /\ z.cr_sb_end = IF z.sb_end >= sbs THEN 0 ELSE z.sb_end
                   /\ sbs >= 7 => z.sb_start < z.sb_end
<1>. DEFINE Bands == [armed : BOOLEAN, apply : BOOLEAN, sb_start : Nat, sb_end : Nat,
                      cr_sb_end : Nat]
            sbs == gop.sb_total_count
            percent == 20 + r.percent_refresh_adjustment + (IF screen THEN 5 ELSE 0)
            step == (sbs * percent) \div 100
            armed == ~pic.key /\ pic.layer = 0 /\ gop.super_block_size = 64 /\ eligible
            moved == MoveBand(gop, cr, percent)
            end == Smaller(cr.cr_sb_end + step, sbs)
            next == IF end >= sbs THEN 0 ELSE end
<1>1. sbs \in Nat /\ cr \in Bands
  BY ConfigFacts DEF CbrType
<1>2. percent \in 15..30
  BY DEF Counters
<1>3. step \in Nat /\ (sbs >= 7 => step >= 1)
  <2>. HIDE DEF percent, sbs
  <2>. QED
    BY <1>1, <1>2, BandLength
<1>4. /\ cr.cr_sb_end \in Nat
      /\ cr.cr_sb_end < sbs \/ cr.cr_sb_end = 0
  BY <1>1 DEF BandKept
<1>5. end \in Nat /\ cr.cr_sb_end <= end /\ end <= sbs /\ (sbs >= 7 => cr.cr_sb_end < end)
  <2>. HIDE DEF step, sbs
  <2>. QED
    BY <1>1, <1>3, <1>4 DEF Smaller
<1>6. moved = [cr EXCEPT !.sb_start = cr.cr_sb_end, !.sb_end = end, !.cr_sb_end = next]
  BY DEF MoveBand
<1>. HIDE DEF end, step, percent, sbs, moved
<1>7. next \in Nat
  BY <1>5
<1>. HIDE DEF next
<1>8. /\ moved \in Bands
      /\ moved.sb_start = cr.cr_sb_end /\ moved.sb_end = end /\ moved.cr_sb_end = next
  BY <1>1, <1>4, <1>5, <1>6, <1>7
<1>9. z = IF ~armed THEN [cr EXCEPT !.armed = FALSE, !.apply = FALSE]
          ELSE [moved EXCEPT !.armed = TRUE, !.apply = static /\ InCrBand(gop, moved) # {}]
  BY DEF CyclicRefreshInit, percent, moved
<1>10. CASE ~armed
  <2>1. z = [cr EXCEPT !.armed = FALSE, !.apply = FALSE]
    BY <1>9, <1>10
  <2>2. /\ z \in Bands /\ ~z.armed
        /\ z.sb_start = cr.sb_start /\ z.sb_end = cr.sb_end /\ z.cr_sb_end = cr.cr_sb_end
    BY <1>1, <2>1
  <2>. QED
    BY <2>2
<1>11. CASE armed
  <2>. DEFINE applied == static /\ InCrBand(gop, moved) # {}
  <2>1. z = [moved EXCEPT !.armed = TRUE, !.apply = applied]
    BY <1>9, <1>11
  <2>2. applied \in BOOLEAN
    OBVIOUS
  <2>. HIDE DEF applied
  <2>3. /\ z \in Bands /\ z.armed
        /\ z.sb_start = moved.sb_start /\ z.sb_end = moved.sb_end
        /\ z.cr_sb_end = moved.cr_sb_end
    BY <1>8, <2>1, <2>2
  <2>4. /\ z.sb_start = cr.cr_sb_end
        /\ z.sb_start <= z.sb_end /\ z.sb_end <= sbs
        /\ z.cr_sb_end = IF z.sb_end >= sbs THEN 0 ELSE z.sb_end
        /\ sbs >= 7 => z.sb_start < z.sb_end
    BY <1>5, <1>8, <2>3 DEF next
  <2>. QED
    BY <2>3, <2>4 DEF sbs
<1>. QED
  BY <1>10, <1>11

LEMMA PickKeeps == IInv /\ CbrFrameQindex => IInv'
<1>. SUFFICES ASSUME IInv, CbrFrameQindex PROVE IInv'
  OBVIOUS
<1>. USE DEF IInv
<1>. DEFINE sbs == gop.sb_total_count
<1>1. /\ rate = "none" /\ rate' = "picked"
      /\ UNCHANGED <<gop, frame_count, failed, packet, late, offered, channel>>
  BY DEF CbrFrameQindex, vars
<1>2. PICK eligible \in BOOLEAN, screen \in BOOLEAN, static \in BOOLEAN :
        /\ rc' = ResetAdjustment(ProcessRateAllocation(gop, rc, frame_count, coding.key),
                                 coding.key)
        /\ cr' = CyclicRefreshInit(gop, rc', cr, coding, eligible, screen, static)
  BY DEF CbrFrameQindex
<1>3. /\ Counters(rc')
      /\ rc'.buffer_level = IF frame_count = 0 THEN StartingBufferLevel(gop)
                                               ELSE rc.buffer_level
  BY <1>2, PickCounts
<1>4. /\ cr' \in [armed : BOOLEAN, apply : BOOLEAN, sb_start : Nat, sb_end : Nat,
                  cr_sb_end : Nat]
      /\ \/ /\ ~cr'.armed
            /\ cr'.sb_start = cr.sb_start /\ cr'.sb_end = cr.sb_end
            /\ cr'.cr_sb_end = cr.cr_sb_end
         \/ /\ cr'.armed
            /\ cr'.sb_start = cr.cr_sb_end
            /\ cr'.sb_start <= cr'.sb_end /\ cr'.sb_end <= sbs
            /\ cr'.cr_sb_end = IF cr'.sb_end >= sbs THEN 0 ELSE cr'.sb_end
            /\ sbs >= 7 => cr'.sb_start < cr'.sb_end
  BY <1>2, <1>3, PickMovesBand
<1>5. sbs \in Nat /\ cr.cr_sb_end \in Nat /\ cr.sb_start \in Nat /\ cr.sb_end \in Nat
  BY ConfigFacts DEF CbrType
<1>6. CbrType'
  BY <1>1, <1>3, <1>4 DEF CbrType
<1>7. BandKept'
  BY <1>1, <1>4, <1>5 DEF BandKept
<1>8. Turns'
  <2>1. PICK k \in Nat : \A sb \in 0..(sbs - 1) :
          offered[sb] <= Given(k, sb) /\ Given(k, sb) <= offered[sb] + Len(failed)
    BY DEF Turns
  <2>2. PICK l \in Nat : \A sb \in 0..(sbs - 1) : Given(l, sb)' = Given(k, sb)
    <3>1. CASE ~cr'.armed
      <4>1. \A sb \in 0..(sbs - 1) : Given(k, sb)' = Given(k, sb)
        BY <1>1, <1>4, <3>1 DEF Given, Pending
      <4>. QED
        BY <4>1
    <3>2. CASE cr'.armed /\ cr'.sb_end < sbs
      <4>1. \A sb \in 0..(sbs - 1) : Given(k, sb)' = Given(k, sb)
        BY <1>1, <1>4, <1>5, <3>2 DEF Given, Pending
      <4>. QED
        BY <4>1
    <3>3. CASE cr'.armed /\ cr'.sb_end = sbs
      <4>1. \A sb \in 0..(sbs - 1) : Given(k + 1, sb)' = Given(k, sb)
        BY <1>1, <1>4, <1>5, <3>3 DEF Given, Pending
      <4>. QED
        BY <4>1
    <3>. QED
      BY <1>4, <1>5, <3>1, <3>2, <3>3
  <2>3. \A sb \in 0..(sbs - 1) :
          offered'[sb] <= Given(l, sb)' /\ Given(l, sb)' <= offered'[sb] + Len(failed')
    BY <1>1, <2>1, <2>2
  <2>. QED
    BY <1>1, <2>3 DEF Turns
<1>9. LevelKept'
  <2>1. /\ StartingBufferLevel(gop)' = StartingBufferLevel(gop)
        /\ MaximumBufferSize(gop)' = MaximumBufferSize(gop)
    BY <1>1
  <2>2. /\ StartingBufferLevel(gop) \in Nat /\ MaximumBufferSize(gop) \in Nat
        /\ StartingBufferLevel(gop) <= MaximumBufferSize(gop)
    BY ConfigFacts
  <2>3. frame_count \in Nat /\ channel \in Int /\ rc.buffer_level \in Int
    BY DEF CbrType, Counters
  <2>. QED
    BY <1>1, <1>3, <2>1, <2>2, <2>3 DEF LevelKept
<1>. QED
  BY <1>6, <1>7, <1>8, <1>9

LEMMA ChargeKeeps == IInv /\ CbrPostencode => IInv'
<1>. SUFFICES ASSUME IInv, CbrPostencode PROVE IInv'
  OBVIOUS
<1>. USE DEF IInv
<1>1. /\ rate = "picked" /\ rate' = "charged"
      /\ UNCHANGED <<gop, frame_count, failed, cr, late, offered, channel>>
  BY DEF CbrPostencode, vars
<1>2. PICK bits \in PacketBits, drift \in -1..1 :
        /\ packet' = bits
        /\ rc' = PostencodeUpdate(gop, rc, cr, coding.key, bits, drift)
  BY DEF CbrPostencode
<1>3. /\ bits \in Nat /\ gop.avg_frame_bandwidth \in Nat /\ MaximumBufferSize(gop) \in Nat
      /\ Counters(rc)
  BY CbrAssumption, ConfigFacts DEF CbrType
<1>4. /\ Counters(rc')
      /\ rc'.buffer_level = UpdateBufferLevel(gop, rc.buffer_level, bits)
  <2>. DEFINE level == UpdateBufferLevel(gop, rc.buffer_level, bits)
              adjustment == IF cr.apply THEN Bounded(-5, rc.percent_refresh_adjustment + drift, 5)
                                        ELSE rc.percent_refresh_adjustment
              since == (IF coding.key THEN 0 ELSE rc.frames_since_key) + 1
              to == rc.frames_to_key - 1
  <2>1. level \in Int
    BY <1>3 DEF UpdateBufferLevel, Smaller, Counters
  <2>2. adjustment \in -5..5
    BY <1>3 DEF Bounded, Smaller, Counters
  <2>3. rc' = [rc EXCEPT !.percent_refresh_adjustment = adjustment, !.buffer_level = level,
                         !.frames_since_key = since, !.frames_to_key = to]
    BY <1>2 DEF PostencodeUpdate
  <2>. HIDE DEF level, adjustment, since, to
  <2>4. Counters(rc') /\ rc'.buffer_level = level
    BY <1>3, <2>1, <2>2, <2>3 DEF Counters
  <2>. QED
    BY <2>4 DEF level
<1>5. CbrType'
  BY <1>1, <1>2, <1>3, <1>4 DEF CbrType
<1>6. BandKept'
  BY <1>1 DEF BandKept
<1>7. Turns'
  <2>1. PICK k \in Nat : \A sb \in 0..(gop.sb_total_count - 1) :
          offered[sb] <= Given(k, sb) /\ Given(k, sb) <= offered[sb] + Len(failed)
    BY DEF Turns
  <2>2. \A sb \in 0..(gop.sb_total_count - 1) : Given(k, sb)' = Given(k, sb)
    BY <1>1 DEF Given, Pending
  <2>3. \A sb \in 0..(gop.sb_total_count - 1) :
          offered'[sb] <= Given(k, sb)' /\ Given(k, sb)' <= offered'[sb] + Len(failed')
    BY <1>1, <2>1, <2>2
  <2>. QED
    BY <1>1, <2>3 DEF Turns
<1>8. LevelKept'
  <2>1. /\ StartingBufferLevel(gop)' = StartingBufferLevel(gop)
        /\ MaximumBufferSize(gop)' = MaximumBufferSize(gop)
        /\ StartingBufferLevel(gop) \in Nat
    BY <1>1, ConfigFacts
  <2>2. frame_count \in Nat /\ channel \in Int /\ rc.buffer_level \in Int
    BY DEF CbrType, Counters
  <2>3. /\ rc'.buffer_level <= MaximumBufferSize(gop)
        /\ rc'.buffer_level <= rc.buffer_level + gop.avg_frame_bandwidth - bits
    BY <1>3, <1>4, <2>2 DEF UpdateBufferLevel, Smaller
  <2>4. rc'.buffer_level \in Int
    BY <1>4 DEF Counters
  <2>. QED
    BY <1>1, <1>2, <1>3, <2>1, <2>2, <2>3, <2>4 DEF LevelKept
<1>. QED
  BY <1>5, <1>6, <1>7, <1>8

LEMMA ReturnKeeps == IInv /\ CbrReturn => IInv'
<1>. SUFFICES ASSUME IInv, CbrReturn PROVE IInv'
  OBVIOUS
<1>. USE DEF IInv
<1>. DEFINE sbs == gop.sb_total_count
<1>1. /\ rate = "charged" /\ rate' = "none" /\ packet' = 0
      /\ frame_count' = frame_count + 1
      /\ channel' = channel + gop.avg_frame_bandwidth - packet
      /\ UNCHANGED <<gop, failed, rc, cr, late>>
  BY DEF CbrReturn, Return
<1>2. /\ sbs \in Nat /\ gop.avg_frame_bandwidth \in Nat /\ frame_count \in Nat
      /\ channel \in Int /\ packet \in Int /\ rc.buffer_level \in Int
      /\ cr.sb_start \in Nat /\ cr.sb_end \in Nat /\ cr.cr_sb_end \in Nat
      /\ cr.sb_start <= cr.sb_end
  BY ConfigFacts DEF CbrType, Counters, BandKept
<1>3. offered' = [sb \in 0..(sbs - 1) |-> offered[sb] + Pending(sb)]
  <2>1. DOMAIN offered = 0..(sbs - 1)
    BY DEF CbrType
  <2>2. \A sb \in 0..(sbs - 1) :
          (IF cr.armed /\ sb \in InCrBand(gop, cr) THEN 1 ELSE 0) = Pending(sb)
    BY <1>1, <1>2 DEF InCrBand, Pending
  <2>. QED
    BY <2>1, <2>2 DEF CbrReturn
<1>4. \A sb \in 0..(sbs - 1) : offered[sb] \in Int /\ Pending(sb) \in 0..1
  BY DEF CbrType, Pending
<1>5. CbrType'
  <2>1. offered' \in [0..(sbs - 1) -> Int]
    <3>1. \A sb \in 0..(sbs - 1) : offered[sb] + Pending(sb) \in Int
      BY <1>4
    <3>. QED
      BY <1>3, <3>1
  <2>. QED
    BY <1>1, <1>2, <2>1 DEF CbrType
<1>6. BandKept'
  BY <1>1 DEF BandKept
<1>7. Turns'
  <2>1. PICK k \in Nat : \A sb \in 0..(sbs - 1) :
          offered[sb] <= Given(k, sb) /\ Given(k, sb) <= offered[sb] + Len(failed)
    BY DEF Turns
  <2>2. ASSUME NEW sb \in 0..(sbs - 1)
        PROVE  Given(k, sb)' = Given(k, sb) + Pending(sb) /\ Given(k, sb) \in Int
    <3>1. Pending(sb)' = 0
      BY <1>1 DEF Pending
    <3>. QED
      BY <1>1, <1>2, <1>4, <3>1 DEF Given
  <2>3. Len(failed) \in Nat
    BY DEF CbrType
  <2>4. \A sb \in 0..(sbs - 1) :
          offered'[sb] <= Given(k, sb)' /\ Given(k, sb)' <= offered'[sb] + Len(failed')
    BY <1>1, <1>3, <1>4, <2>1, <2>2, <2>3
  <2>. QED
    BY <1>1, <2>4 DEF Turns
<1>8. LevelKept'
  <2>1. /\ StartingBufferLevel(gop)' = StartingBufferLevel(gop)
        /\ MaximumBufferSize(gop)' = MaximumBufferSize(gop)
        /\ StartingBufferLevel(gop) \in Nat /\ MaximumBufferSize(gop) \in Nat
    BY <1>1, ConfigFacts
  <2>. QED
    BY <1>1, <1>2, <2>1 DEF LevelKept
<1>. QED
  BY <1>5, <1>6, <1>7, <1>8

LEMMA FailKeeps == IInv /\ CbrFail => IInv'
<1>. SUFFICES ASSUME IInv, CbrFail PROVE IInv'
  OBVIOUS
<1>. USE DEF IInv
<1>. DEFINE sbs == gop.sb_total_count
<1>1. /\ rate' = "none" /\ packet' = 0
      /\ failed' = Append(failed, frame_count)
      /\ late' = IF rate = "charged" THEN late \cup {frame_count} ELSE late
      /\ UNCHANGED <<gop, frame_count, rc, cr, offered, channel>>
  BY DEF CbrFail, Fail
<1>2. /\ sbs \in Nat /\ frame_count \in Nat /\ failed \in Seq(Nat) /\ channel \in Int
      /\ cr.cr_sb_end \in Nat /\ rc.buffer_level \in Int
  BY ConfigFacts DEF CbrType, Counters
<1>3. failed' \in Seq(Nat) /\ Len(failed') = Len(failed) + 1 /\ Len(failed) \in Nat
  BY <1>1, <1>2
<1>4. CbrType'
  BY <1>1, <1>3 DEF CbrType
<1>5. BandKept'
  BY <1>1 DEF BandKept
<1>6. Turns'
  <2>1. PICK k \in Nat : \A sb \in 0..(sbs - 1) :
          offered[sb] <= Given(k, sb) /\ Given(k, sb) <= offered[sb] + Len(failed)
    BY DEF Turns
  <2>2. ASSUME NEW sb \in 0..(sbs - 1)
        PROVE  /\ offered'[sb] <= Given(k, sb)'
               /\ Given(k, sb)' <= offered'[sb] + Len(failed')
    <3>1. Pending(sb)' = 0 /\ Pending(sb) \in 0..1
      BY <1>1 DEF Pending
    <3>2. Given(k, sb)' = Given(k, sb) + Pending(sb) /\ Given(k, sb) \in Int
      BY <1>1, <1>2, <3>1 DEF Given
    <3>3. offered[sb] \in Int /\ offered'[sb] = offered[sb]
      BY <1>1 DEF CbrType
    <3>. QED
      BY <1>3, <2>1, <3>1, <3>2, <3>3
  <2>. QED
    BY <1>1, <2>2 DEF Turns
<1>7. LevelKept'
  <2>1. /\ StartingBufferLevel(gop)' = StartingBufferLevel(gop)
        /\ MaximumBufferSize(gop)' = MaximumBufferSize(gop)
        /\ StartingBufferLevel(gop) \in Nat /\ MaximumBufferSize(gop) \in Nat
    BY <1>1, ConfigFacts
  <2>2. late' \subseteq {0} /\ frame_count > 0 => rate # "charged" /\ late \subseteq {0}
    BY <1>1, <1>2
  <2>. QED
    BY <1>1, <1>2, <2>1, <2>2 DEF LevelKept
<1>. QED
  BY <1>4, <1>5, <1>6, <1>7

-----------------------------------------------------------------------------
(* Band and buffer: the theorems.                                           *)

\* Band, turns and level hang together, for every configuration and whatever fails.
THEOREM InductiveInvariant == CbrSpec => []IInv
<1>1. IInv /\ [CbrNext]_<<vars, rateVars>> => IInv'
  <2>1. IInv /\ UNCHANGED <<vars, rateVars>> => IInv'
    <3>. SUFFICES ASSUME IInv, UNCHANGED <<vars, rateVars>> PROVE IInv'
      OBVIOUS
    <3>1. UNCHANGED <<gop, frame_count, failed, rateVars>>
      BY DEF vars
    <3>2. failed' \in Seq(Nat) /\ Len(failed') >= Len(failed)
      BY <3>1 DEF IInv, CbrType
    <3>. QED
      BY <3>1, <3>2, CallKeeps
  <2>. QED
    BY <2>1, DecideKeeps, PickKeeps, CodeKeeps, ChargeKeeps, ReturnKeeps, FailKeeps DEF CbrNext
<1>. QED
  BY <1>1, InitIInv, PTL DEF CbrSpec

\* The refresh band goes round frames of any size: no superblock gets ahead of
\* another by more than one turn, and one for each failed call; from 7 superblocks
\* on no band is empty.
THEOREM RefreshGoesRound == CbrSpec => []BandsTurn
<1>1. IInv => BandsTurn
  <2>. SUFFICES ASSUME IInv PROVE BandsTurn
    OBVIOUS
  <2>. USE DEF IInv
  <2>. DEFINE sbs == gop.sb_total_count
  <2>1. /\ sbs \in Nat /\ DOMAIN offered = 0..(sbs - 1) /\ Len(failed) \in Nat
        /\ cr.sb_start \in Nat /\ cr.sb_end \in Nat /\ cr.cr_sb_end \in Nat
    BY ConfigFacts DEF CbrType
  <2>2. PICK k \in Nat : \A sb \in 0..(sbs - 1) :
          offered[sb] <= Given(k, sb) /\ Given(k, sb) <= offered[sb] + Len(failed)
    BY DEF Turns
  <2>3. ASSUME NEW i \in 0..(sbs - 1), NEW j \in 0..(sbs - 1)
        PROVE  /\ Given(k, i) <= Given(k, j) + 1
               /\ Given(k, i) \in Int /\ Given(k, j) \in Int
    BY <2>1 DEF Given, Pending, BandKept
  <2>4. \A i, j \in DOMAIN offered : offered[i] <= offered[j] + 1 + Len(failed)
    <3>. SUFFICES ASSUME NEW i \in 0..(sbs - 1), NEW j \in 0..(sbs - 1)
                  PROVE  offered[i] <= offered[j] + 1 + Len(failed)
      BY <2>1
    <3>1. offered[i] \in Int /\ offered[j] \in Int
      BY DEF CbrType
    <3>. QED
      BY <2>1, <2>2, <2>3, <3>1
  <2>5. ASSUME rate # "none", cr.armed, sbs >= 7 PROVE InCrBand(gop, cr) # {}
    <3>1. cr.sb_start \in InCrBand(gop, cr)
      BY <2>1, <2>5 DEF BandKept, InCrBand
    <3>. QED
      BY <3>1
  <2>. QED
    BY <2>4, <2>5 DEF BandsTurn
<1>. QED
  BY <1>1, InductiveInvariant, PTL

\* The buffer level keeps to its size and to what the channel carried, for every bit
\* rate, buffer size, packet size and length of the stream.
THEOREM BucketNeverOverpromises == CbrSpec => []BucketFollowsChannel
<1>1. IInv => BucketFollowsChannel
  BY DEF IInv, CbrType, LevelKept, BucketFollowsChannel
<1>. QED
  BY <1>1, InductiveInvariant, PTL

\* Rate control only watches: every step of CBR coding is a step of LowDelay, or leaves
\* its state alone.
THEOREM CbrDrivesLowDelay == CbrSpec => Spec
<1>1. CbrInit => Init
  BY DEF CbrInit
<1>2. [CbrNext]_<<vars, rateVars>> => [Next]_vars
  <2>. USE DEF Next
  <2>1. CbrDecide => Next
    BY DEF CbrDecide
  <2>2. CbrFrameQindex \/ CbrPostencode => UNCHANGED vars
    BY DEF CbrFrameQindex, CbrPostencode
  <2>3. CbrCode \/ CbrReturn \/ CbrFail => Next
    BY DEF CbrCode, CbrReturn, CbrFail
  <2>. QED
    BY <2>1, <2>2, <2>3 DEF CbrNext
<1>. QED
  BY <1>1, <1>2, PTL DEF CbrSpec, Spec

\* So under CBR too references stay in sync and inside their GOP, and damage is local,
\* wherever a call fails, behind the charge included; two buffers suffice, and the
\* layers nest.
THEOREM CbrKeepsReferences ==
  CbrSpec => [](/\ LdReferencesInSync /\ LdRefsWithinGop /\ DamageIsLocal
                /\ LongTermRenewed /\ TwoBuffersSuffice /\ CbrLayersNest)
BY CbrDrivesLowDelay, ReferencesStayInSync, NoReferenceAcrossKey, DamageStaysLocal,
   LongTermKeepsUp, TwoBuffersAreEnough, CbrLayersStayNested, PTL

-----------------------------------------------------------------------------
(* The rate counters.                                                       *)

\* The counters behind the charge of picture n.
Behind(n) ==
  /\ rc.frames_since_key = n + 1 - OpensAt(n)
  /\ rc.frames_to_key = gop.intra_period - (n + 1 - OpensAt(n))

\* The counters of a GOP in which no inter picture was charged twice: between two
\* charges they are behind the picture returned last, unless the call of a key frame
\* has been at them and failed.
CountsKept ==
  /\ rate # "none" => stage # "idle"
  /\ rate = "none" \/ (rate = "picked" /\ ~coding.key) =>
       \/ frame_count = 0
       \/ ChargedTwice(OpensAt(frame_count - 1))
       \/ IsKeyFrame(gop, frame_count) /\ frame_count \in Range(failed)
       \/ Behind(frame_count - 1)
  /\ rate = "picked" /\ coding.key =>
       /\ rc.frames_to_key = gop.intra_period
       /\ \/ frame_count \in Range(failed)
          \/ ChargedTwice(OpensAt(frame_count - 1))
          \/ rc.this_key_frame_forced <=> frame_count # 0
  /\ rate = "charged" =>
       \/ ~coding.key /\ ChargedTwice(OpensAt(frame_count))
       \/ Behind(frame_count)

\* Division leaves a remainder, and only one.
LEMMA Division ==
  ASSUME NEW p \in Nat \ {0}, NEW n \in Nat
  PROVE  /\ n \div p \in Nat /\ n % p \in 0..(p - 1)
         /\ n = (n \div p) * p + (n % p)
OBVIOUS

LEMMA QuotientUnique ==
  ASSUME NEW p \in Nat \ {0}, NEW n \in Nat, NEW q \in Nat, NEW r \in 0..(p - 1), n = q * p + r
  PROVE  n \div p = q
<1>. DEFINE d == n \div p
            s == n % p
<1>1. d \in Nat /\ s \in 0..(p - 1) /\ n = d * p + s
  BY Division
<1>. HIDE DEF d, s
<1>2. ASSUME NEW a \in Nat, NEW b \in Nat, NEW v \in 0..(p - 1), NEW w \in 0..(p - 1),
             a * p + v = b * p + w
      PROVE  ~(a < b)
  <2>. SUFFICES ASSUME a < b PROVE FALSE
    OBVIOUS
  <2>1. PICK k \in Nat : b = a + 1 + k
    <3>1. b - a - 1 \in Nat /\ b = a + 1 + (b - a - 1)
      OBVIOUS
    <3>. QED
      BY <3>1
  <2>2. b * p = a * p + p + k * p
    BY <2>1
  <2>3. k * p \in Nat /\ a * p \in Nat
    OBVIOUS
  <2>. QED
    BY <1>2, <2>2, <2>3
<1>3. d = q
  BY <1>1, <1>2
<1>. QED
  BY <1>3 DEF d

\* The GOP of a picture: its own if it is a key frame, else that of the one before; a
\* later key frame is an intra period behind the last.
LEMMA GopOpens ==
  ASSUME CbrType, NEW n \in Nat
  PROVE  /\ OpensAt(n) \in Nat
         /\ IsKeyFrame(gop, 0)
         /\ IsKeyFrame(gop, n) <=> OpensAt(n) = n
         /\ n # 0 /\ ~IsKeyFrame(gop, n) => OpensAt(n - 1) = OpensAt(n)
         /\ n # 0 /\ IsKeyFrame(gop, n) => n - OpensAt(n - 1) = gop.intra_period
<1>. DEFINE p == gop.intra_period
<1>1. p \in Nat
  BY ConfigFacts
<1>2. CASE p = 0
  BY <1>2 DEF OpensAt, IsKeyFrame
<1>3. CASE p # 0
  <2>. DEFINE q == n \div p
              r == n % p
  <2>1. p \in Nat \ {0}
    BY <1>1, <1>3
  <2>2. q \in Nat /\ r \in 0..(p - 1) /\ n = q * p + r
    BY <2>1, Division
  <2>3. OpensAt(n) = q * p /\ (IsKeyFrame(gop, n) <=> r = 0)
    BY <1>3 DEF OpensAt, IsKeyFrame
  <2>4. IsKeyFrame(gop, 0)
    <3>1. 0 % p = 0
      BY <2>1
    <3>. QED
      BY <3>1, <1>3 DEF IsKeyFrame
  <2>5. OpensAt(n - 1) = ((n - 1) \div p) * p
    BY <1>3 DEF OpensAt
  <2>. HIDE DEF p, q, r
  <2>6. q * p \in Nat
    BY <2>1, <2>2
  <2>7. ASSUME r # 0 PROVE (n - 1) \div p = q
    <3>1. n - 1 \in Nat /\ r - 1 \in 0..(p - 1) /\ n - 1 = q * p + (r - 1)
      BY <2>1, <2>2, <2>6, <2>7
    <3>. QED
      BY <3>1, <2>1, <2>2, QuotientUnique
  <2>8. ASSUME r = 0, n # 0 PROVE n - ((n - 1) \div p) * p = p
    <3>1. q # 0
      BY <2>1, <2>2, <2>8
    <3>2. q - 1 \in Nat /\ (q - 1) * p = q * p - p
      BY <3>1, <2>1, <2>2
    <3>3. n - 1 \in Nat /\ p - 1 \in 0..(p - 1) /\ n - 1 = (q - 1) * p + (p - 1)
      BY <3>2, <2>1, <2>2, <2>6, <2>8
    <3>4. (n - 1) \div p = q - 1
      BY <3>2, <3>3, <2>1, QuotientUnique
    <3>. QED
      BY <3>2, <3>4, <2>1, <2>2, <2>6, <2>8
  <2>9. n # 0 /\ ~IsKeyFrame(gop, n) => OpensAt(n - 1) = OpensAt(n)
    BY <2>3, <2>5, <2>7
  <2>10. n # 0 /\ IsKeyFrame(gop, n) => n - OpensAt(n - 1) = gop.intra_period
    BY <2>3, <2>5, <2>8 DEF p
  <2>11. OpensAt(n) \in Nat /\ (IsKeyFrame(gop, n) <=> OpensAt(n) = n)
    BY <2>1, <2>2, <2>3, <2>6
  <2>. QED
    BY <2>4, <2>9, <2>10, <2>11
<1>. QED
  BY <1>2, <1>3

\* What a pick does to the counters that follow the GOP.
LEMMA PickFollows ==
  ASSUME CbrType, NEW key \in BOOLEAN,
         NEW r, r = ResetAdjustment(ProcessRateAllocation(gop, rc, frame_count, key), key)
  PROVE  /\ ~key /\ frame_count # 0 => r = rc
         /\ key => /\ r.frames_to_key = gop.intra_period
                   /\ r.this_key_frame_forced <=> frame_count # 0 /\ rc.frames_to_key = 0
<1>1. CASE ~key
  BY <1>1 DEF ResetAdjustment, ProcessRateAllocation, OnePassRtRateAlloc
<1>2. CASE key
  <2>. DEFINE first == IF frame_count = 0 THEN RcInit(gop, rc) ELSE rc
              second == OnePassRtRateAlloc(gop, first, frame_count, key)
  <2>1. DOMAIN first = DOMAIN rc /\ first.frames_to_key = rc.frames_to_key
    BY DEF RcInit, CbrType, Counters
  <2>. HIDE DEF first
  <2>2. /\ DOMAIN second = DOMAIN rc
        /\ second.frames_to_key = gop.intra_period
        /\ second.this_key_frame_forced <=> frame_count # 0 /\ rc.frames_to_key = 0
    BY <1>2, <2>1 DEF OnePassRtRateAlloc, CbrType, Counters
  <2>3. r = ResetAdjustment(second, key)
    BY DEF ProcessRateAllocation, first
  <2>. HIDE DEF second
  <2>. QED
    BY <1>2, <2>2, <2>3 DEF ResetAdjustment, CbrType, Counters
<1>. QED
  BY <1>1, <1>2

\* Whatever a step does to the history of late failures adds to it.
LEMMA TwiceStays ==
  ASSUME NEW key, gop' = gop, late \subseteq late', ChargedTwice(key)
  PROVE  ChargedTwice(key)'
BY DEF ChargedTwice, OpensAt

\* Steps that leave rate control alone: the call's decision, its refusal, the coding.
LEMMA CallCounts ==
  ASSUME CountsKept, UNCHANGED <<gop, frame_count, rateVars>>,
         Range(failed) \subseteq Range(failed)',
         rate # "none" => coding' = coding /\ stage' # "idle"
  PROVE  CountsKept'
<1>1. rc' = rc /\ rate' = rate /\ late' = late
  BY DEF rateVars
<1>2. \A k : ChargedTwice(k)' <=> ChargedTwice(k)
  BY <1>1 DEF ChargedTwice, OpensAt
<1>3. \A n : Behind(n)' <=> Behind(n)
  BY <1>1 DEF Behind, OpensAt
<1>4. \A n : OpensAt(n)' = OpensAt(n)
  BY DEF OpensAt
<1>. QED
  BY <1>1, <1>2, <1>3, <1>4 DEF CountsKept, IsKeyFrame

LEMMA DecideCounts == CbrType /\ CountsKept /\ CbrDecide => CountsKept'
<1>. SUFFICES ASSUME CbrType, CountsKept, CbrDecide PROVE CountsKept'
  OBVIOUS
<1>1. /\ UNCHANGED <<gop, frame_count, rateVars>>
      /\ stage = "idle"
      /\ failed' = failed \/ failed' = Append(failed, frame_count)
  BY DEF CbrDecide, TryEncodeFrame, Refuse
<1>2. Range(failed) \subseteq Range(failed)'
  BY <1>1, OneMoreFailed DEF CbrType
<1>3. rate = "none"
  BY <1>1 DEF CountsKept
<1>. QED
  BY <1>1, <1>2, <1>3, CallCounts

LEMMA CodeCounts == CountsKept /\ CbrCode => CountsKept'
<1>. SUFFICES ASSUME CountsKept, CbrCode PROVE CountsKept'
  OBVIOUS
<1>1. UNCHANGED <<gop, frame_count, failed, coding, rateVars>> /\ stage' = "coded"
  BY DEF CbrCode, Code
<1>2. Range(failed) \subseteq Range(failed)'
  BY <1>1
<1>. QED
  BY <1>1, <1>2, CallCounts

LEMMA PickFollowsGop == CbrType /\ LdType /\ CountsKept /\ CbrFrameQindex => CountsKept'
<1>. SUFFICES ASSUME CbrType, LdType, CountsKept, CbrFrameQindex PROVE CountsKept'
  OBVIOUS
<1>1. /\ stage = "decided" /\ rate = "none" /\ rate' = "picked"
      /\ rc' = ResetAdjustment(ProcessRateAllocation(gop, rc, frame_count, coding.key), coding.key)
      /\ UNCHANGED <<gop, frame_count, coding, stage, failed, late>>
  BY DEF CbrFrameQindex, vars
<1>2. coding.key = IsKeyFrame(gop, frame_count) /\ coding.key \in BOOLEAN
  BY <1>1 DEF LdType, Decided, IsKeyFrame
<1>3. /\ ~coding.key /\ frame_count # 0 => rc' = rc
      /\ coding.key => /\ rc'.frames_to_key = gop.intra_period
                       /\ rc'.this_key_frame_forced <=> frame_count # 0 /\ rc.frames_to_key = 0
  BY <1>1, <1>2, PickFollows
<1>4. frame_count \in Nat
  BY DEF CbrType
<1>5. /\ \A k : ChargedTwice(k)' <=> ChargedTwice(k)
      /\ \A n : OpensAt(n)' = OpensAt(n)
      /\ IsKeyFrame(gop, frame_count)' = IsKeyFrame(gop, frame_count)
      /\ Range(failed)' = Range(failed)
  BY <1>1 DEF ChargedTwice, OpensAt
<1>6. CASE coding.key
  <2>1. \/ frame_count \in Range(failed)
        \/ ChargedTwice(OpensAt(frame_count - 1))
        \/ rc'.this_key_frame_forced <=> frame_count # 0
    <3>1. CASE frame_count = 0
      BY <3>1, <1>3, <1>6
    <3>2. CASE frame_count # 0
      <4>. SUFFICES ASSUME frame_count \notin Range(failed),
                           ~ChargedTwice(OpensAt(frame_count - 1))
                    PROVE  rc'.this_key_frame_forced <=> frame_count # 0
        OBVIOUS
      <4>1. Behind(frame_count - 1)
        BY <1>1, <3>2 DEF CountsKept
      <4>2. frame_count - OpensAt(frame_count - 1) = gop.intra_period
            /\ OpensAt(frame_count - 1) \in Nat /\ gop.intra_period \in Nat
        <5>1. frame_count - 1 \in Nat
          BY <1>4, <3>2
        <5>. QED
          BY <5>1, <1>2, <1>4, <1>6, <3>2, GopOpens, ConfigFacts
      <4>3. rc.frames_to_key = 0
        BY <4>1, <4>2, <1>4 DEF Behind
      <4>. QED
        BY <4>3, <1>3, <1>6
    <3>. QED
      BY <3>1, <3>2
  <2>. QED
    BY <1>1, <1>3, <1>5, <1>6, <2>1 DEF CountsKept
<1>7. CASE ~coding.key
  <2>1. frame_count # 0
    BY <1>2, <1>4, <1>7, GopOpens
  <2>2. rc' = rc
    BY <1>3, <1>7, <2>1
  <2>3. \A n : Behind(n)' <=> Behind(n)
    BY <1>1, <1>5, <2>2 DEF Behind
  <2>. QED
    BY <1>1, <1>5, <1>7, <2>3 DEF CountsKept
<1>. QED
  BY <1>2, <1>6, <1>7

LEMMA ChargeFollowsGop == CbrType /\ LdType /\ CountsKept /\ CbrPostencode => CountsKept'
<1>. SUFFICES ASSUME CbrType, LdType, CountsKept, CbrPostencode PROVE CountsKept'
  OBVIOUS
<1>1. /\ stage = "coded" /\ rate = "picked" /\ rate' = "charged"
      /\ UNCHANGED <<gop, frame_count, coding, stage, failed, late>>
      /\ \E bits \in PacketBits, drift \in -1..1 :
           rc' = PostencodeUpdate(gop, rc, cr, coding.key, bits, drift)
  BY DEF CbrPostencode, vars
<1>2. coding.key = IsKeyFrame(gop, frame_count)
  BY <1>1 DEF LdType, Decided
<1>3. /\ rc'.frames_since_key = (IF coding.key THEN 0 ELSE rc.frames_since_key) + 1
      /\ rc'.frames_to_key = rc.frames_to_key - 1
  BY <1>1 DEF PostencodeUpdate, CbrType, Counters
<1>4. frame_count \in Nat /\ OpensAt(frame_count) \in Nat /\ gop.intra_period \in Nat
  BY GopOpens, ConfigFacts DEF CbrType
<1>5. /\ \A k : ChargedTwice(k)' <=> ChargedTwice(k)
      /\ \A n : OpensAt(n)' = OpensAt(n)
  BY <1>1 DEF ChargedTwice, OpensAt
<1>6. ASSUME coding.key PROVE Behind(frame_count)'
  <2>1. OpensAt(frame_count) = frame_count
    BY <1>2, <1>4, <1>6, GopOpens
  <2>2. rc.frames_to_key = gop.intra_period
    BY <1>1, <1>6 DEF CountsKept
  <2>. QED
    BY <1>1, <1>3, <1>4, <1>5, <1>6, <2>1, <2>2 DEF Behind
<1>7. ASSUME ~coding.key, ~ChargedTwice(OpensAt(frame_count)) PROVE Behind(frame_count)'
  <2>1. frame_count # 0 /\ OpensAt(frame_count - 1) = OpensAt(frame_count)
    BY <1>2, <1>4, <1>7, GopOpens
  <2>2. Behind(frame_count - 1)
    BY <1>1, <1>2, <1>7, <2>1 DEF CountsKept
  <2>3. /\ rc.frames_since_key = frame_count - OpensAt(frame_count)
        /\ rc.frames_to_key = gop.intra_period - (frame_count - OpensAt(frame_count))
    BY <2>1, <2>2, <1>4 DEF Behind
  <2>. QED
    BY <1>1, <1>3, <1>4, <1>5, <1>7, <2>3 DEF Behind
<1>. QED
  BY <1>1, <1>5, <1>6, <1>7 DEF CountsKept

LEMMA ReturnCounts == CbrType /\ LdType /\ CountsKept /\ CbrReturn => CountsKept'
<1>. SUFFICES ASSUME CbrType, LdType, CountsKept, CbrReturn PROVE CountsKept'
  OBVIOUS
<1>1. /\ stage = "coded" /\ rate = "charged" /\ rate' = "none"
      /\ frame_count' = frame_count + 1
      /\ UNCHANGED <<gop, failed, rc, late>>
  BY DEF CbrReturn, Return
<1>2. /\ \A k : ChargedTwice(k)' <=> ChargedTwice(k)
      /\ \A n : OpensAt(n)' = OpensAt(n)
      /\ \A n : Behind(n)' <=> Behind(n)
  BY <1>1 DEF ChargedTwice, OpensAt, Behind
<1>3. frame_count \in Nat /\ frame_count' - 1 = frame_count
  BY <1>1 DEF CbrType
<1>4. ChargedTwice(OpensAt(frame_count)) \/ Behind(frame_count)
  BY <1>1 DEF CountsKept
<1>. QED
  BY <1>1, <1>2, <1>3, <1>4 DEF CountsKept

LEMMA FailCounts == CbrType /\ LdType /\ CountsKept /\ CbrFail => CountsKept'
<1>. SUFFICES ASSUME CbrType, LdType, CountsKept, CbrFail PROVE CountsKept'
  OBVIOUS
<1>1. /\ stage # "idle" /\ rate' = "none"
      /\ failed' = Append(failed, frame_count)
      /\ late' = IF rate = "charged" THEN late \cup {frame_count} ELSE late
      /\ UNCHANGED <<gop, frame_count, rc>>
  BY DEF CbrFail, Fail
<1>2. coding.key = IsKeyFrame(gop, frame_count)
  BY <1>1 DEF LdType, Decided
<1>3. frame_count \in Nat /\ failed \in Seq(Nat) /\ rate \in {"none", "picked", "charged"}
  BY DEF CbrType
<1>4. frame_count \in Range(failed)'
  BY <1>1, <1>3, OneMoreFailed
<1>5. /\ \A k : ChargedTwice(k) => ChargedTwice(k)'
      /\ \A n : OpensAt(n)' = OpensAt(n)
      /\ \A n : Behind(n)' <=> Behind(n)
      /\ IsKeyFrame(gop, frame_count)' = IsKeyFrame(gop, frame_count)
  BY <1>1 DEF ChargedTwice, OpensAt, Behind
<1>6. CASE coding.key
  BY <1>1, <1>2, <1>4, <1>5, <1>6 DEF CountsKept
<1>7. CASE ~coding.key
  <2>1. frame_count # 0 /\ OpensAt(frame_count - 1) = OpensAt(frame_count)
    BY <1>2, <1>3, <1>7, GopOpens
  <2>2. CASE rate = "charged"
    <3>1. OpensAt(frame_count) # frame_count
      BY <1>2, <1>3, <1>7, GopOpens
    <3>2. ChargedTwice(OpensAt(frame_count))'
      BY <1>1, <1>5, <2>2, <3>1 DEF ChargedTwice
    <3>. QED
      BY <1>1, <1>5, <2>1, <3>2 DEF CountsKept
  <2>3. CASE rate # "charged"
    BY <1>1, <1>2, <1>3, <1>5, <1>7, <2>1, <2>3 DEF CountsKept
  <2>. QED
    BY <2>2, <2>3
<1>. QED
  BY <1>2, <1>6, <1>7 DEF IsKeyFrame

\* When a quantiser is picked the counters are those of the GOP, whatever calls have
\* failed, but for the GOPs in which a repeated call was charged twice and for repeated
\* key frames (process_rate_allocation, update_rc_counts).
THEOREM CountersFollowGop == CbrSpec => []RateCountersFollowGop
<1>. DEFINE Kept == CbrType /\ LdType
<1>1. CbrInit => CountsKept
  BY DEF CbrInit, Init, CountsKept
<1>2. Kept /\ CountsKept /\ [CbrNext]_<<vars, rateVars>> => CountsKept'
  <2>1. CountsKept /\ UNCHANGED <<vars, rateVars>> => CountsKept'
    <3>. SUFFICES ASSUME CountsKept, UNCHANGED <<vars, rateVars>> PROVE CountsKept'
      OBVIOUS
    <3>1. UNCHANGED <<gop, frame_count, coding, stage, failed, rateVars>>
      BY DEF vars
    <3>2. rate # "none" => coding' = coding /\ stage' # "idle"
      BY <3>1 DEF CountsKept
    <3>. QED
      BY <3>1, <3>2, CallCounts
  <2>. QED
    BY <2>1, DecideCounts, PickFollowsGop, CodeCounts, ChargeFollowsGop, ReturnCounts, FailCounts
    DEF CbrNext
<1>3. Kept /\ CountsKept => RateCountersFollowGop
  <2>. SUFFICES ASSUME CbrType, LdType, CountsKept, rate = "picked" PROVE RateCountersFollowGop
    BY DEF RateCountersFollowGop
  <2>1. /\ coding.poc = frame_count /\ coding.key = IsKeyFrame(gop, frame_count)
        /\ frame_count \in Nat
    BY DEF CountsKept, LdType, Decided, CbrType
  <2>2. CASE coding.key
    BY <2>1, <2>2 DEF CountsKept, RateCountersFollowGop
  <2>3. CASE ~coding.key
    <3>1. frame_count # 0 /\ OpensAt(frame_count - 1) = OpensAt(frame_count)
          /\ OpensAt(frame_count) \in Nat /\ gop.intra_period \in Nat
      BY <2>1, <2>3, GopOpens, ConfigFacts
    <3>2. ChargedTwice(OpensAt(frame_count)) \/ Behind(frame_count - 1)
      BY <2>1, <2>3, <3>1 DEF CountsKept
    <3>. QED
      BY <2>1, <2>3, <3>1, <3>2 DEF Behind, RateCountersFollowGop
  <2>. QED
    BY <2>1, <2>2, <2>3 DEF IsKeyFrame
<1>4. CbrSpec => []Kept
  <2>1. IInv /\ LdIInv => Kept
    BY DEF IInv, LdIInv
  <2>. QED
    BY <2>1, InductiveInvariant, CbrDrivesLowDelay, LdInductiveInvariant, PTL
<1>. HIDE DEF Kept
<1>. QED
  BY <1>1, <1>2, <1>3, <1>4, PTL DEF CbrSpec
=============================================================================
