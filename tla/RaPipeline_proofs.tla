-------------------------- MODULE RaPipeline_proofs --------------------------
(***************************************************************************)
(* RaPipeline refines RaQueue: decisions, packets and buffers hang on the  *)
(* queue's steps and add none, so what is proved of the queue holds of the *)
(* pipeline. Then what a release decides and a call codes: the buffers     *)
(* between two releases, the links of the pictures still to be coded, the  *)
(* decoder that reads their packets, and the temporal units of a call.     *)
(***************************************************************************)
EXTENDS RaPipeline, PictureDecision_proofs

QP == INSTANCE RaQueue_proofs

\* Every step of the pipeline is a step of the queue it drives.
LEMMA StepIsQueueStep ==
  [Next]_vars => [Q!Next]_(Q!queueVars)
<1> SUFFICES ASSUME [Next]_vars PROVE [Q!Next]_(Q!queueVars)
  OBVIOUS
<1>1. CASE Submit
  BY <1>1 DEF Submit, Q!Next
<1>2. CASE Flush
  BY <1>2 DEF Flush, Q!Next
<1>3. CASE InCall
  <2>1. CASE \E m \in 1..Len(ra_input), key_member \in BOOLEAN : ReleaseWindow(m, key_member)
    BY <2>1 DEF ReleaseWindow, Q!Next, Q!InCall
  <2>2. CASE CodeHeldKey
    BY <2>2 DEF CodeHeldKey, Q!Next, Q!InCall
  <2>3. CASE CodeNext
    <3>1. Q!EncodeMember(Head(emit).poc)
      BY <2>3 DEF CodeNext
    <3>2. Head(emit).poc \in frames
      BY <3>1 DEF Q!EncodeMember
    <3> QED
      BY <3>1, <3>2 DEF Q!Next, Q!InCall
  <2>4. CASE Return
    BY <2>4 DEF Return, Q!Next, Q!InCall
  <2> QED
    BY <1>3, <2>1, <2>2, <2>3, <2>4 DEF InCall
<1>4. CASE Fail
  BY <1>4 DEF Fail, Q!Next
<1>5. CASE UNCHANGED vars
  BY <1>5 DEF vars, Q!queueVars
<1> QED
  BY <1>1, <1>2, <1>3, <1>4, <1>5 DEF Next

\* The pipeline drives its queue as RaQueue says: encode_ra_window and its two
\* drivers touch ra_input and delayed_intra nowhere else.
THEOREM PipelineDrivesQueue == Spec => Q!Spec
<1>1. Init => Q!Init
  BY DEF Init
<1> QED
  BY <1>1, StepIsQueueStep, PTL DEF Spec, Q!Spec

\* RaQueue_proofs speaks of the same queue.
LEMMA SameQueue ==
  Q!Spec => QP!Spec
<1>1. Q!Init => QP!Init
  BY DEF Q!Init, QP!Init
<1>2. [Q!Next]_(Q!queueVars) => [QP!Next]_(QP!queueVars)
  BY DEF Q!Next, Q!TryEncodeFrame, Q!TryFlush, Q!InCall, Q!Fail, Q!EncodeRaWindow,
         Q!EncodeDelayedIntra, Q!EncodeMember, Q!Return, Q!NothingPending, Q!Fire, Q!Release,
         Q!FirstKeyAt, Q!KeyFree, Q!IsDelayedIntra, Q!IsKeyFrame, Q!queueVars,
         QP!Next, QP!TryEncodeFrame, QP!TryFlush, QP!InCall, QP!Fail, QP!EncodeRaWindow,
         QP!EncodeDelayedIntra, QP!EncodeMember, QP!Return, QP!NothingPending, QP!Fire, QP!Release,
         QP!FirstKeyAt, QP!KeyFree, QP!IsDelayedIntra, QP!IsKeyFrame, QP!queueVars
<1> QED
  BY <1>1, <1>2, PTL DEF Q!Spec, QP!Spec

LEMMA QueueAssumptions == QP!GopAssumption /\ QP!BoundAssumption
BY PipelineAssumption DEF Q!GopAssumption, Q!BoundAssumption,
                          QP!GopAssumption, QP!BoundAssumption

\* No picture is dropped or coded twice between queue, hold, staging and emit loop
\* of the whole pipeline, whatever fails (pipeline/ra.rs:546-592).
THEOREM PipelineConserves == Spec => []QP!Conserved
<1>1. QP!Spec => []QP!Conserved
  BY QueueAssumptions, QP!PicturesConserved
<1> QED
  BY <1>1, PipelineDrivesQueue, SameQueue, PTL

\* The bytes of the pipeline's calls leave in display order from call to call,
\* whatever fails in between.
THEOREM PipelineInOrder == Spec => QP!NeverOutOfOrder
<1>1. QP!Spec => QP!NeverOutOfOrder
  BY QueueAssumptions, QP!CallsInOrder
<1> QED
  BY <1>1, PipelineDrivesQueue, SameQueue

\* encode_ra_window's arm for a held key frame in front of an empty queue
\* (pipeline/ra.rs:495-515) is unreachable in the whole pipeline.
THEOREM PipelineLoneKeyArmIsDead == Spec => []QP!HeldKeyHasFollowers
<1>1. QP!Spec => []QP!HeldKeyHasFollowers
  BY QueueAssumptions, QP!LoneKeyArmIsDead
<1> QED
  BY <1>1, PipelineDrivesQueue, SameQueue, PTL

\* The pipeline implements ReorderedDelivery whatever fails: what its calls
\* return or lose is a gapless prefix of the display order, and nothing is left
\* behind a flush that empties the queue.
THEOREM PipelineKeepsThePromise == Spec => QP!ImplementsPromise
<1>1. QP!Spec => QP!ImplementsPromise
  BY QueueAssumptions, QP!KeepsThePromise
<1> QED
  BY <1>1, PipelineDrivesQueue, SameQueue

-----------------------------------------------------------------------------
(* The key frames of the input.                                            *)

\* The last key frame in front of, or at, a display order under a period.
LastKey(period, p) == p - (p % period)

LEMMA LastKeyIsNat ==
  ASSUME NEW period \in Nat, period >= 2, NEW p \in Nat
  PROVE  LastKey(period, p) \in Nat /\ LastKey(period, p) <= p
BY DEF LastKey

\* A picture that is no key frame has the last key frame of the one before it.
LEMMA LastKeyStays ==
  ASSUME NEW period \in Nat, period >= 2, NEW p \in Nat, (p + 1) % period # 0
  PROVE  LastKey(period, p + 1) = LastKey(period, p)
<1>. DEFINE a == p % period
            b == (p + 1) % period
            d == p \div period
            e == (p + 1) \div period
<1>1. a \in 0..(period - 1) /\ d \in Nat /\ p = d * period + a
  OBVIOUS
<1>2. b \in 1..(period - 1) /\ e \in Nat /\ p + 1 = e * period + b
  OBVIOUS
<1>. HIDE DEF a, b, d, e
<1>3. e = d
  <2>1. e > d => e * period >= (d + 1) * period
    BY <1>1, <1>2
  <2>2. d > e => d * period >= (e + 1) * period
    BY <1>1, <1>2
  <2>3. (d + 1) * period = d * period + period /\ (e + 1) * period = e * period + period
    BY <1>1, <1>2
  <2>. DEFINE x == d * period
              y == e * period
  <2>4. x \in Nat /\ y \in Nat
    BY <1>1, <1>2
  <2>5. (e > d => y >= x + period) /\ (d > e => x >= y + period)
        /\ p = x + a /\ p + 1 = y + b
    BY <1>1, <1>2, <2>1, <2>2, <2>3
  <2>. HIDE DEF x, y
  <2>. QED
    BY <1>1, <1>2, <2>4, <2>5
<1>4. b = a + 1
  <2>. DEFINE x == d * period
  <2>1. x \in Nat /\ p = x + a /\ p + 1 = x + b
    BY <1>1, <1>2, <1>3
  <2>. HIDE DEF x
  <2>. QED
    BY <1>1, <1>2, <2>1
<1>. QED
  <2>1. LastKey(period, p + 1) = p + 1 - b /\ LastKey(period, p) = p - a
    BY DEF LastKey, a, b
  <2>. QED
    BY <1>1, <1>4, <2>1

\* ... and so has every picture behind it up to the next key frame.
LEMMA LastKeySpans ==
  ASSUME NEW period \in Nat, period >= 2, NEW from \in Nat, from >= 1, NEW end \in Nat,
         \A p \in from..end : p % period # 0
  PROVE  \A p \in (from - 1)..end : LastKey(period, p) = LastKey(period, from - 1)
<1>. DEFINE key == LastKey(period, from - 1)
            T == {k \in Nat : from - 1 + k <= end => LastKey(period, from - 1 + k) = key}
<1>1. 0 \in T
  <2>1. from - 1 + 0 = from - 1
    OBVIOUS
  <2>. QED
    BY <2>1
<1>2. ASSUME NEW k \in Nat, k \in T
      PROVE  k + 1 \in T
  <2>. SUFFICES ASSUME from - 1 + (k + 1) <= end
                PROVE  LastKey(period, from - 1 + (k + 1)) = key
    OBVIOUS
  <2>. DEFINE q == from - 1 + k
  <2>1. q \in Nat /\ q <= end /\ q + 1 \in from..end /\ from - 1 + (k + 1) = q + 1
    OBVIOUS
  <2>2. LastKey(period, q) = key
    BY <1>2, <2>1
  <2>3. (q + 1) % period # 0
    BY <2>1
  <2>. HIDE DEF q, key
  <2>4. LastKey(period, q + 1) = LastKey(period, q)
    BY <2>1, <2>3, LastKeyStays
  <2>. QED
    BY <2>1, <2>2, <2>4, Zenon
<1>. HIDE DEF T
<1>3. \A k \in Nat : k \in T
  BY <1>1, <1>2, Induction
<1>. SUFFICES ASSUME NEW p \in (from - 1)..end
              PROVE  LastKey(period, p) = key
  OBVIOUS
<1>. DEFINE k == p - (from - 1)
<1>4. k \in Nat /\ from - 1 + k = p /\ p <= end
  OBVIOUS
<1>5. k \in T
  BY <1>3, <1>4, Zenon
<1>. HIDE DEF k, key
<1>. QED
  BY <1>4, <1>5, Zenon DEF T

-----------------------------------------------------------------------------
(* What a release takes from the queue.                                    *)

\* The key frames of the queue are those of the period, and only a flush marks an
\* entry, the last one.
QueueInv ==
  /\ \A i \in 1..Len(ra_input) :
       ra_input[i].is_key <=> ra_input[i].display_order % gop.intra_period = 0
  /\ \A i \in 1..Len(ra_input) : ra_input[i].is_eos => flushed /\ i = Len(ra_input)
  /\ call = "flush" => flushed

\* The parameters of a configuration.
LEMMA GopBounds ==
  ASSUME gop \in GopConfigs
  PROVE  /\ Config(gop) /\ gop.intra_period \in Nat /\ gop.intra_period >= 2
         /\ gop.mini_gop_size \in 1..32 /\ gop.scd_delay \in Nat /\ gop.scd_delay >= 1
         /\ gop.hierarchical_levels = 0 => gop.mini_gop_size = 1
         /\ gop.mini_gop_size % 2 = 0 \/ gop.hierarchical_levels = 0
<1>1. Config(gop)
  BY PipelineAssumption, Zenon DEF Config
<1>2. gop.intra_period \in Nat \ {0, 1} /\ gop.scd_delay \in Nat \ {0}
  BY PipelineAssumption, Zenon DEF Q!GopAssumption
<1>3. /\ gop.intra_period \in Nat /\ gop.intra_period >= 2
      /\ gop.scd_delay \in Nat /\ gop.scd_delay >= 1
  BY ONLY <1>2
<1>. DEFINE h == gop.hierarchical_levels
            n == gop.mini_gop_size
<1>4. h \in 0..5 /\ n = 2 ^ h
  BY PipelineAssumption, Zenon
<1>. HIDE DEF h, n
<1>5. n \in 1..32 /\ (h = 0 => n = 1) /\ (n % 2 = 0 \/ h = 0)
  <2>1. h = 0 \/ h = 1 \/ h = 2 \/ h = 3 \/ h = 4 \/ h = 5
    BY ONLY <1>4
  <2>2. \/ (h = 0 /\ n = 1) \/ (h = 1 /\ n = 2) \/ (h = 2 /\ n = 4)
        \/ (h = 3 /\ n = 8) \/ (h = 4 /\ n = 16) \/ (h = 5 /\ n = 32)
    BY ONLY <1>4, <2>1, Powers, Zenon
  <2>. QED
    BY ONLY <2>2
<1>. QED
  BY <1>1, <1>3, <1>5, Zenon DEF h, n

\* A release takes the next m inputs, of which only the last may be a key frame.
Takes(m, key_member, from, inputs) ==
  /\ Released(inputs, from, key_member) /\ Len(inputs) = m
  /\ gop.hierarchical_levels = 0 => m = 1
  /\ \A p \in from..(from + m - 1) :
       p % gop.intra_period = 0 <=> (key_member /\ p = from + m - 1)

LEMMA ReleaseTakes ==
  ASSUME QP!IInv, QueueInv, NEW m \in 1..Len(ra_input), NEW key_member \in BOOLEAN,
         Q!EncodeRaWindow(m, key_member)
  PROVE  Takes(m, key_member, QP!Base, SubSeq(ra_input, 1, m))
<1>. DEFINE from == QP!Base
            inputs == SubSeq(ra_input, 1, m)
            period == gop.intra_period
            len == Len(ra_input)
            end == from + m - 1
<1>1. /\ gop \in GopConfigs /\ ra_input \in Seq(Input) /\ len \in Nat /\ ra_display_next \in Nat
      /\ len <= ra_display_next
      /\ \A i \in 1..len : ra_input[i].display_order = from + i - 1
  <2>1. ra_input \in Seq(QP!BufferedFrame) /\ gop \in GopConfigs /\ ra_display_next \in Nat
    BY DEF QP!IInv, QP!TypeOK
  <2>2. QP!BufferedFrame = Input
    BY DEF QP!BufferedFrame, Input
  <2>3. /\ len <= ra_display_next
        /\ \A i \in 1..len : ra_input[i].display_order = from + i - 1
    BY Zenon DEF QP!IInv, QP!Conserved, QP!QueueContiguous
  <2>. QED
    BY <2>1, <2>2, <2>3
<1>2. from \in Nat /\ from = ra_display_next - len
  BY <1>1 DEF QP!Base
<1>3. Q!Release(m, key_member)
  BY Zenon DEF Q!EncodeRaWindow
<1>4. m <= gop.mini_gop_size /\ (\A i \in 1..(m - 1) : ~ra_input[i].is_key)
      /\ (ra_input[m].is_key <=> key_member)
  <2>. DEFINE n == gop.mini_gop_size
  <2>1. n \in 1..32
    BY <1>1, GopBounds, Zenon
  <2>2. CASE key_member
    <3>1. m <= n /\ Q!FirstKeyAt(m)
      BY <1>3, <2>2, Zenon DEF Q!Release
    <3>. QED
      BY <2>2, <3>1, Zenon DEF Q!FirstKeyAt
  <2>3. CASE ~key_member
    <3>1. Q!KeyFree /\ ((m = n /\ m <= Len(ra_input)) \/ (m = Len(ra_input) /\ m < n))
      BY <1>3, <2>3, Zenon DEF Q!Release
    <3>2. \A i \in 1..Len(ra_input) : i <= n => ~ra_input[i].is_key
      BY <3>1, Zenon DEF Q!KeyFree
    <3>. HIDE DEF n
    <3>3. m <= n
      BY ONLY <2>1, <3>1, m \in 1..Len(ra_input)
    <3>4. \A i \in 1..m : i <= n /\ i \in 1..Len(ra_input)
      BY ONLY <1>1, <2>1, <3>3, m \in 1..Len(ra_input) DEF len
    <3>5. \A i \in 1..m : ~ra_input[i].is_key
      BY <3>2, <3>4, Zenon
    <3>6. m \in 1..m /\ \A i \in 1..(m - 1) : i \in 1..m
      BY ONLY <1>1, m \in 1..Len(ra_input) DEF len
    <3>. QED
      BY <2>3, <3>3, <3>5, <3>6, Zenon DEF n
  <2>. QED
    BY <2>2, <2>3
<1>5. /\ inputs \in Seq(Input) /\ Len(inputs) = m
      /\ \A i \in 1..m : inputs[i] = ra_input[i]
  BY ONLY <1>1, m \in 1..Len(ra_input)
<1>6. m \in 1..32 /\ (gop.hierarchical_levels = 0 => m = 1)
  <2>. DEFINE n == gop.mini_gop_size
              h == gop.hierarchical_levels
  <2>1. n \in 1..32 /\ (h = 0 => n = 1)
    BY <1>1, GopBounds, Zenon
  <2>2. m <= n
    BY <1>4, Zenon
  <2>. HIDE DEF n, h
  <2>3. m \in 1..32 /\ (h = 0 => m = 1)
    BY ONLY <1>1, <2>1, <2>2, m \in 1..Len(ra_input) DEF len
  <2>. QED
    BY <2>3 DEF h
<1>7. \A i \in 1..m : i \in 1..len
  BY ONLY <1>1, m \in 1..Len(ra_input) DEF len
<1>. HIDE DEF inputs, from
<1>8. \A i \in 1..m : inputs[i].is_key \in BOOLEAN
  <2>1. \A i \in 1..m : inputs[i] \in Input
    BY ONLY <1>5, <1>6
  <2>2. \A x \in Input : x.is_key \in BOOLEAN
    BY DEF Input
  <2>. QED
    BY <2>1, <2>2, Zenon
<1>9. m \in 1..m /\ \A i \in 1..(m - 1) : i \in 1..m
  BY ONLY <1>6
<1>10. Released(inputs, from, key_member)
  <2>1. \A j \in 1..m : inputs[j].display_order = from + j - 1
    BY <1>1, <1>5, <1>7, Zenon
  <2>2. \A j \in 1..(m - 1) : inputs[j].is_key = FALSE
    <3>. SUFFICES ASSUME NEW j \in 1..(m - 1) PROVE inputs[j].is_key = FALSE
      OBVIOUS
    <3>1. ~inputs[j].is_key /\ inputs[j].is_key \in BOOLEAN
      BY <1>4, <1>5, <1>8, <1>9, Zenon
    <3>. QED
      BY ONLY <3>1
  <2>3. inputs[m].is_key = key_member
    <3>1. (inputs[m].is_key <=> key_member) /\ inputs[m].is_key \in BOOLEAN
      BY <1>4, <1>5, <1>8, <1>9, Zenon
    <3>. QED
      BY ONLY <3>1, key_member \in BOOLEAN
  <2>. QED
    BY <1>5, <1>6, <2>1, <2>2, <2>3, Zenon DEF Released
<1>11. ASSUME NEW p \in from..end
       PROVE  p % period = 0 <=> (key_member /\ p = end)
  <2>. DEFINE i == p - from + 1
  <2>1. i \in 1..m /\ p = from + i - 1 /\ (p = end <=> i = m) /\ (i # m => i \in 1..(m - 1))
    BY ONLY <1>2, <1>6, p \in from..end
  <2>. HIDE DEF i, end, period
  <2>2. ra_input[i].display_order = p
    BY <1>1, <1>7, <2>1, Zenon
  <2>3. ra_input[i].is_key <=> p % period = 0
    BY <1>7, <2>1, <2>2, Zenon DEF QueueInv, period
  <2>. QED
    BY <1>4, <2>1, <2>3, Zenon
<1>. QED
  BY <1>5, <1>6, <1>10, <1>11, Zenon DEF Takes, from, inputs, end, period

-----------------------------------------------------------------------------

Closed == flushed /\ ra_input = <<>>

\* What the release leaves in the queue, the hold and the emit loop.
Leaves(m, key_member, from, inputs) ==
  /\ QP!Base' = from + m
  /\ frames' = IF KeyHeld(inputs) THEN from..(from + m - 2) ELSE from..(from + m - 1)
  /\ delayed_intra' = IF KeyHeld(inputs) THEN from + m - 1 ELSE None
  /\ delayed_intra_out' = delayed_intra
  /\ \/ Closed'
     \/ KeyHeld(inputs)
     \/ key_member = FALSE /\ (m % 2 = 0 \/ gop.hierarchical_levels = 0)

LEMMA ReleaseLeaves ==
  ASSUME QP!IInv, QueueInv, NEW m \in 1..Len(ra_input), NEW key_member \in BOOLEAN,
         Q!EncodeRaWindow(m, key_member)
  PROVE  Leaves(m, key_member, QP!Base, SubSeq(ra_input, 1, m)) /\ QueueInv'
<1>. DEFINE from == QP!Base
            inputs == SubSeq(ra_input, 1, m)
            len == Len(ra_input)
            x == ra_input[m]
            held == KeyHeld(inputs)
<1>1. /\ gop \in GopConfigs /\ ra_input \in Seq(Input) /\ len \in Nat /\ m \in Nat
      /\ call \in {"idle", "push", "flush"}
  <2>1. /\ ra_input \in Seq(QP!BufferedFrame) /\ gop \in GopConfigs
        /\ call \in {"idle", "push", "flush"}
    BY DEF QP!IInv, QP!TypeOK
  <2>2. QP!BufferedFrame = Input
    BY DEF QP!BufferedFrame, Input
  <2>. QED
    BY <2>1, <2>2
<1>2. QP!EncodeRaWindow(m, key_member)
  BY DEF Q!EncodeRaWindow, QP!EncodeRaWindow, Q!NothingPending, QP!NothingPending,
         Q!Fire, QP!Fire, Q!Release, QP!Release, Q!FirstKeyAt, QP!FirstKeyAt,
         Q!KeyFree, QP!KeyFree, Q!IsDelayedIntra, QP!IsDelayedIntra
<1>3. /\ Len(ra_input') = len - m
      /\ \A i \in 1..Len(ra_input') : ra_input'[i] = ra_input[i + m]
      /\ from \in Nat /\ QP!Base' = from + m
      /\ {ra_input[i].display_order : i \in 1..m} = from..(from + m - 1)
      /\ x.display_order = from + m - 1
  <2>1. QP!GopAssumption /\ QP!BoundAssumption
    BY QueueAssumptions
  <2>. QED
    BY <1>2, <2>1, QP!ReleasedQueue
<1>4. Takes(m, key_member, from, inputs)
  BY ReleaseTakes, Zenon
<1>5. Released(inputs, from, key_member) /\ Len(inputs) = m
  BY <1>4, Zenon DEF Takes
<1>6. m \in 1..m /\ m \in 1..len
  BY ONLY <1>1, m \in 1..Len(ra_input) DEF len
<1>7. inputs[Len(inputs)] = x
  BY ONLY <1>1, m \in 1..Len(ra_input) DEF inputs, x
<1>8. x.is_key = key_member
  BY <1>5, <1>7, Zenon DEF Released
<1>9. held = (key_member /\ ~x.is_eos)
  BY <1>7, <1>8, Zenon DEF KeyHeld
<1>10. Q!IsDelayedIntra(m, key_member) <=> held
  BY <1>9, Zenon DEF Q!IsDelayedIntra
<1>. HIDE DEF inputs, from, held, x
<1>11. /\ delayed_intra_out' = delayed_intra
       /\ frames' = IF held THEN (from..(from + m - 1)) \ {from + m - 1} ELSE from..(from + m - 1)
       /\ delayed_intra' = IF held THEN from + m - 1 ELSE None
       /\ UNCHANGED <<gop, flushed, call>>
  BY <1>3, <1>10, Zenon DEF Q!EncodeRaWindow, x
<1>12. (from..(from + m - 1)) \ {from + m - 1} = from..(from + m - 2)
  BY ONLY <1>1, <1>3
<1>13. frames' = IF held THEN from..(from + m - 2) ELSE from..(from + m - 1)
  BY <1>11, <1>12, Zenon
<1>14. \/ call = "push" /\ Q!Fire
       \/ call = "flush"
  BY Zenon DEF Q!EncodeRaWindow
<1>15. m = len => Closed'
  <2>. SUFFICES ASSUME m = len PROVE Closed'
    OBVIOUS
  <2>1. ra_input' = <<>>
    <3>1. ra_input' = SubSeq(ra_input, m + 1, len)
      BY Zenon DEF Q!EncodeRaWindow
    <3>. QED
      BY ONLY <1>1, <3>1, m = len
  <2>2. call # "push"
    <3>. SUFFICES ASSUME call = "push" PROVE FALSE
      OBVIOUS
    <3>1. QP!Fire /\ QP!Release(m, key_member)
      <4>1. Q!Fire /\ Q!Release(m, key_member)
        BY <1>14, Zenon DEF Q!EncodeRaWindow
      <4>. QED
        BY <4>1 DEF Q!Fire, QP!Fire, Q!Release, QP!Release, Q!FirstKeyAt, QP!FirstKeyAt,
                    Q!KeyFree, QP!KeyFree
    <3>2. QP!GopAssumption /\ QP!BoundAssumption /\ QP!TypeOK
      BY QueueAssumptions DEF QP!IInv
    <3>3. len - m >= gop.scd_delay
      BY <3>1, <3>2, QP!FiredReleaseLeavesLookahead DEF len
    <3>4. gop.scd_delay \in Nat /\ gop.scd_delay >= 1
      BY <1>1, GopBounds, Zenon
    <3>. DEFINE d == gop.scd_delay
    <3>. HIDE DEF d
    <3>5. d \in Nat /\ d >= 1 /\ len - m >= d
      BY <3>3, <3>4 DEF d
    <3>. QED
      BY ONLY <1>1, <3>5, m = len
  <2>. QED
    BY <1>11, <1>14, <2>1, <2>2, Zenon DEF Closed, QueueInv
<1>16. \/ Closed' \/ held
       \/ key_member = FALSE /\ (m % 2 = 0 \/ gop.hierarchical_levels = 0)
  <2>1. CASE key_member
    <3>1. CASE x.is_eos
      <4>1. m = len
        BY <1>6, <3>1, Zenon DEF QueueInv, x, len
      <4>. QED
        BY <1>15, <4>1
    <3>2. CASE ~x.is_eos
      BY <1>9, <2>1, <3>2, Zenon
    <3>. QED
      BY <3>1, <3>2, Zenon
  <2>2. CASE ~key_member
    <3>1. \/ m = gop.mini_gop_size
          \/ m = len
      BY <2>2, Zenon DEF Q!EncodeRaWindow, Q!Release, len
    <3>2. gop.mini_gop_size % 2 = 0 \/ gop.hierarchical_levels = 0
      BY <1>1, GopBounds, Zenon
    <3>3. key_member = FALSE
      BY ONLY <2>2, key_member \in BOOLEAN
    <3>. QED
      BY <1>15, <3>1, <3>2, <3>3, Zenon
  <2>. QED
    BY <2>1, <2>2, Zenon
<1>17. QueueInv'
  <2>1. \A i \in 1..Len(ra_input') : i + m \in 1..len /\ (i + m = len => i = Len(ra_input'))
    BY ONLY <1>1, <1>3, m \in 1..Len(ra_input) DEF len
  <2>2. \A i \in 1..len : ra_input[i].is_key <=> ra_input[i].display_order % gop.intra_period = 0
    BY Zenon DEF QueueInv, len
  <2>3. \A i \in 1..len : ra_input[i].is_eos => flushed /\ i = len
    BY Zenon DEF QueueInv, len
  <2>4. call = "flush" => flushed
    BY Zenon DEF QueueInv
  <2>5. ASSUME NEW i \in 1..Len(ra_input')
        PROVE  /\ ra_input'[i].is_key <=> ra_input'[i].display_order % gop'.intra_period = 0
               /\ ra_input'[i].is_eos => flushed' /\ i = Len(ra_input')
    <3>1. i + m \in 1..len /\ (i + m = len => i = Len(ra_input')) /\ ra_input'[i] = ra_input[i + m]
      BY <1>3, <2>1
    <3>2. gop' = gop /\ flushed' = flushed
      BY <1>11
    <3>. QED
      BY <2>2, <2>3, <3>1, <3>2, Zenon
  <2>6. call' = "flush" => flushed'
    BY <1>11, <2>4
  <2>. QED
    BY <2>5, <2>6, Zenon DEF QueueInv
<1>. QED
  BY <1>3, <1>11, <1>13, <1>16, <1>17, Zenon DEF Leaves, inputs, from, held

-----------------------------------------------------------------------------
(* The pictures still to be coded.                                         *)

\* The pictures of list, which are those of members, lead from the buffer x and the
\* first picture not shown yet, due, to the buffer y and the picture front, and none
\* but a key frame needs the picture before the last key frame, key.
Stream(period, list, members, front, key, x, due, y) ==
  /\ key \in Nat /\ front \in Nat
  /\ Chain(key, x, due, list, y, front)
  /\ Lists(list, members)
  /\ EndsShown(list)
  /\ \A p \in members : p \in Nat /\ key <= p
  /\ \A i \in 1..Len(list) : ~list[i].key => LastKey(period, list[i].poc) = key

\* What a release of the pictures from..end leaves.
Resolved(c, period, key, x, due, from, end, held, r) ==
  /\ r.pd \in Decision /\ r.pd.ok /\ r.pd.base = end + 1 /\ r.pd.alt = end + 1
  /\ held => Rest(c, r.pd, end, end) /\ r.pd.dpb = [s \in Slots |-> end]
  /\ \E y : /\ IF held THEN Stream(period, r.emit, from..(end - 1), end, key, x, due, y)
                       ELSE Stream(period, r.emit, from..end, end + 1, key, x, due, y)
            /\ ~held => y = r.pd.dpb

LEMMA EndedResolves ==
  ASSUME NEW c, NEW period \in Nat, period >= 2, NEW key \in Nat, NEW x, NEW due,
         NEW from \in Nat, NEW end \in Nat, from <= end, key <= from,
         NEW idr \in BOOLEAN, NEW held \in BOOLEAN, held => idr, NEW r,
         Ended(c, key, x, due, from, end, idr, held, r),
         \A p \in from..end : p % period = 0 <=> (idr /\ p = end),
         from >= 1 => key = LastKey(period, from - 1), from = 0 => idr /\ end = 0
  PROVE  Resolved(c, period, key, x, due, from, end, held, r)
<1>1. /\ r.pd \in Decision /\ r.pd.ok /\ r.pd.base = end + 1 /\ r.pd.alt = end + 1
      /\ EndsShown(r.emit)
      /\ idr => KeyOnly(end, r)
      /\ IF held THEN HeldBack(c, key, x, due, from, end, r)
                 ELSE Emits(key, x, due, r, from..end, end + 1)
  BY Zenon DEF Ended
<1>2. ASSUME NEW p \in from..end, ~(idr /\ p = end)
      PROVE  LastKey(period, p) = key
  <2>. DEFINE top == IF idr THEN end - 1 ELSE end
  <2>1. from >= 1
    <3>. SUFFICES ASSUME ~(from >= 1) PROVE FALSE
      OBVIOUS
    <3>1. from = 0
      BY ONLY from \in Nat, ~(from >= 1)
    <3>2. end = 0 /\ idr
      BY <3>1
    <3>. QED
      BY ONLY <1>2, <3>1, <3>2
  <2>2. top \in Nat /\ (\A q \in from..top : q \in from..end /\ (idr => q # end))
        /\ p \in (from - 1)..top
    BY ONLY <1>2, <2>1, from \in Nat, end \in Nat, from <= end
  <2>. HIDE DEF top
  <2>3. \A q \in from..top : q % period # 0
    BY <2>2, Zenon
  <2>4. \A q \in (from - 1)..top : LastKey(period, q) = LastKey(period, from - 1)
    BY ONLY <2>1, <2>2, <2>3, period \in Nat, period >= 2, from \in Nat, LastKeySpans, Zenon
  <2>. QED
    BY <2>1, <2>2, <2>4, Zenon
<1>3. ASSUME NEW X, Lists(r.emit, X), \A p \in X : p \in from..end /\ (held => p # end)
      PROVE  /\ \A p \in X : p \in Nat /\ key <= p
             /\ \A i \in 1..Len(r.emit) : ~r.emit[i].key => LastKey(period, r.emit[i].poc) = key
  <2>1. \A p \in from..end : p \in Nat /\ key <= p
    BY ONLY from \in Nat, end \in Nat, key \in Nat, key <= from
  <2>2. X = {r.emit[i].poc : i \in 1..Len(r.emit)}
    BY <1>3, Zenon DEF Lists
  <2>. SUFFICES ASSUME NEW i \in 1..Len(r.emit), ~r.emit[i].key
                PROVE  LastKey(period, r.emit[i].poc) = key
    BY <1>3, <2>1, Zenon
  <2>3. r.emit[i].poc \in X
    BY <2>2
  <2>4. ~(idr /\ r.emit[i].poc = end)
    BY <1>1, Zenon DEF KeyOnly
  <2>. QED
    BY <1>2, <1>3, <2>3, <2>4, Zenon
<1>4. CASE held
  <2>1. HeldBack(c, key, x, due, from, end, r)
    BY <1>1, <1>4, Zenon
  <2>2. Lists(r.emit, from..(end - 1)) /\ Rest(c, r.pd, end, end)
        /\ r.pd.dpb = [s \in Slots |-> end]
    BY <2>1, Zenon DEF HeldBack
  <2>3. PICK y : Chain(key, x, due, r.emit, y, end)
    BY <2>1, Zenon DEF HeldBack
  <2>4. \A p \in from..(end - 1) : p \in from..end /\ p # end
    BY ONLY from \in Nat, end \in Nat
  <2>5. Stream(period, r.emit, from..(end - 1), end, key, x, due, y)
    BY <1>1, <1>3, <2>2, <2>3, <2>4, Zenon DEF Stream
  <2>. QED
    BY <1>1, <1>4, <2>2, <2>5, Zenon DEF Resolved
<1>5. CASE ~held
  <2>1. Lists(r.emit, from..end) /\ Chain(key, x, due, r.emit, r.pd.dpb, end + 1)
    BY <1>1, <1>5, Zenon DEF Emits
  <2>2. end + 1 \in Nat
    OBVIOUS
  <2>3. Stream(period, r.emit, from..end, end + 1, key, x, due, r.pd.dpb)
    BY <1>1, <1>3, <1>5, <2>1, <2>2, Zenon DEF Stream
  <2>. QED
    BY <1>1, <1>5, <2>3, Zenon DEF Resolved
<1>. QED
  BY <1>4, <1>5

-----------------------------------------------------------------------------
(* The decision state between the releases.                                *)

\* It counts the inputs that have left the queue, and rests on the last key frame as
\* long as there are more to come; a held key frame is all its buffer holds.
DecisionInv ==
  /\ pd_ctx \in Decision /\ pd_ctx.ok /\ pd_ctx.base = QP!Base /\ pd_ctx.alt = QP!Base
  /\ QP!Base = 0 => pd_ctx = InitDecision
  /\ \/ QP!Base = 0
     \/ Closed
     \/ Rest(gop, pd_ctx, LastKey(gop.intra_period, QP!Base - 1), QP!Base - 1)
  /\ delayed_intra # None => /\ delayed_intra % gop.intra_period = 0
                             /\ pd_ctx.dpb = [s \in Slots |-> delayed_intra]

\* What a release decides, the first one and the others.
Decided(m, key_member, from, inputs, r) ==
  /\ from = 0 => /\ m = 1 /\ key_member = TRUE
                 /\ \A x : Resolved(gop, gop.intra_period, 0, x, 0, 0, 0, KeyHeld(inputs), r)
  /\ from # 0 => /\ Resolved(gop, gop.intra_period, LastKey(gop.intra_period, from - 1),
                             pd_ctx.dpb, from, from, from + m - 1, KeyHeld(inputs), r)
                 /\ key_member = FALSE /\ (m % 2 = 0 \/ gop.hierarchical_levels = 0)
                      => Rest(gop, r.pd, LastKey(gop.intra_period, from - 1), from + m - 1)

LEMMA KeyHeldIsBoolean == \A inputs : KeyHeld(inputs) \in BOOLEAN
BY DEF KeyHeld

LEMMA ReleaseDecides ==
  ASSUME QP!IInv, QueueInv, DecisionInv, NEW m \in 1..Len(ra_input), NEW key_member \in BOOLEAN,
         Q!EncodeRaWindow(m, key_member)
  PROVE  Decided(m, key_member, QP!Base, SubSeq(ra_input, 1, m),
                 DecideRelease(gop, pd_ctx, SubSeq(ra_input, 1, m), key_member))
<1>. DEFINE from == QP!Base
            inputs == SubSeq(ra_input, 1, m)
            period == gop.intra_period
            end == from + m - 1
            r == DecideRelease(gop, pd_ctx, inputs, key_member)
            held == KeyHeld(inputs)
            key == LastKey(period, from - 1)
<1>1. gop \in GopConfigs /\ ra_input \in Seq(QP!BufferedFrame) /\ ra_display_next \in Nat
      /\ Len(ra_input) <= ra_display_next
  BY Zenon DEF QP!IInv, QP!TypeOK, QP!Conserved, QP!QueueContiguous
<1>2. from \in Nat /\ m \in Nat /\ m >= 1 /\ ra_input # <<>> /\ end \in Nat /\ from <= end
  BY <1>1 DEF QP!Base
<1>3. Config(gop) /\ period \in Nat /\ period >= 2
  BY <1>1, GopBounds, Zenon
<1>4. Takes(m, key_member, from, inputs)
  BY ReleaseTakes, Zenon
<1>. HIDE DEF inputs, from, r
<1>5. /\ Released(inputs, from, key_member) /\ Len(inputs) = m
      /\ gop.hierarchical_levels = 0 => m = 1
      /\ \A p \in from..end : p % period = 0 <=> (key_member /\ p = end)
  BY <1>4, Zenon DEF Takes
<1>6. held \in BOOLEAN /\ (held => key_member)
  <2>1. held \in BOOLEAN
    BY KeyHeldIsBoolean, Zenon
  <2>2. inputs[Len(inputs)].is_key = key_member
    BY <1>5, Zenon DEF Released
  <2>. QED
    BY <2>1, <2>2, Zenon DEF KeyHeld
<1>7. from = 0 => m = 1 /\ key_member = TRUE
  <2>. SUFFICES ASSUME from = 0 PROVE m = 1 /\ key_member = TRUE
    OBVIOUS
  <2>1. 0 \in from..end /\ 0 % period = 0
    <3>. HIDE DEF period, end
    <3>. QED
      BY ONLY <1>2, <1>3, from = 0
  <2>2. key_member /\ 0 = end
    BY <1>5, <2>1, Zenon
  <2>. QED
    BY ONLY <1>2, <2>2, key_member \in BOOLEAN, from = 0 DEF end
<1>8. ASSUME from = 0
      PROVE  \A x : Resolved(gop, period, 0, x, 0, 0, 0, held, r)
  <2>0. m = 1 /\ key_member = TRUE
    BY <1>7, <1>8, Zenon
  <2>1. r = DecideRelease(gop, InitDecision, inputs, TRUE)
    BY <1>8, <2>0, Zenon DEF DecisionInv, from, r
  <2>2. Released(inputs, 0, TRUE) /\ Len(inputs) = 1
    BY <1>5, <1>8, <2>0, Zenon
  <2>3. Opens(gop, inputs, r)
    BY <1>3, <2>1, <2>2, FirstRelease, Zenon
  <2>. SUFFICES ASSUME NEW x PROVE Resolved(gop, period, 0, x, 0, 0, 0, held, r)
    OBVIOUS
  <2>. DEFINE zero == 0
              yes == TRUE
  <2>4. Ended(gop, zero, x, zero, zero, zero, yes, held, r)
    BY <2>3, Zenon DEF Opens
  <2>5. zero \in Nat /\ zero <= zero /\ yes \in BOOLEAN /\ ~(zero >= 1) /\ yes
    OBVIOUS
  <2>6. \A p \in zero..zero : p % period = 0 <=> (yes /\ p = zero)
    <3>1. \A p \in from..end : p % period = 0 <=> (key_member /\ p = end)
      BY <1>5, Zenon
    <3>2. from = zero /\ end = zero /\ key_member = yes
      BY ONLY <1>8, <2>0 DEF end
    <3>. HIDE DEF end, period, zero, yes
    <3>. QED
      BY <3>1, <3>2, Zenon
  <2>. HIDE DEF zero, yes, held, period
  <2>7. Resolved(gop, period, zero, x, zero, zero, zero, held, r)
    BY ONLY <1>3, <1>6, <2>4, <2>5, <2>6, EndedResolves, Zenon
  <2>. QED
    BY <2>7, Zenon DEF zero
<1>9. ASSUME from # 0
      PROVE  /\ Resolved(gop, period, key, pd_ctx.dpb, from, from, end, held, r)
             /\ key_member = FALSE /\ (m % 2 = 0 \/ gop.hierarchical_levels = 0)
                  => Rest(gop, r.pd, key, end)
  <2>1. from >= 1
    BY ONLY <1>2, <1>9
  <2>2. Rest(gop, pd_ctx, key, from - 1)
    <3>1. ~Closed
      BY <1>2, Zenon DEF Closed
    <3>. QED
      BY <1>9, <3>1, Zenon DEF DecisionInv, from
  <2>3. key \in Nat /\ key <= from
    <3>. DEFINE q == from - 1
    <3>1. q \in Nat
      BY ONLY <1>2, <2>1
    <3>. HIDE DEF q, period
    <3>2. LastKey(period, q) \in Nat /\ LastKey(period, q) <= q
      BY ONLY <1>3, <3>1, LastKeyIsNat, Zenon
    <3>. HIDE DEF key
    <3>3. key \in Nat /\ key <= q
      BY <3>2 DEF key, q
    <3>. QED
      BY ONLY <1>2, <3>3 DEF q
  <2>. HIDE DEF held, key
  <2>4. Outcome(gop, key, pd_ctx, from, inputs, r)
    <3>1. gop.hierarchical_levels = 0 => Len(inputs) = 1
      BY <1>5, Zenon
    <3>. QED
      BY <1>2, <1>3, <1>5, <2>1, <2>2, <3>1, LaterRelease, Zenon DEF r
  <2>5. inputs[Len(inputs)].is_key = key_member
    BY <1>5, Zenon DEF Released
  <2>6. /\ Ended(gop, key, pd_ctx.dpb, from, from, end, key_member, held, r)
        /\ key_member = FALSE /\ (m % 2 = 0 \/ gop.hierarchical_levels = 0)
             => Rest(gop, r.pd, key, end)
    BY <1>5, <2>4, <2>5, Zenon DEF Outcome, held
  <2>7. key = LastKey(period, from - 1)
    BY DEF key
  <2>. DEFINE x == pd_ctx.dpb
  <2>. HIDE DEF period, end, x
  <2>8. Ended(gop, key, x, from, from, end, key_member, held, r)
    BY <2>6, Zenon DEF x
  <2>9. Resolved(gop, period, key, x, from, from, end, held, r)
    <3>1. \A p \in from..end : p % period = 0 <=> (key_member /\ p = end)
      BY <1>5, Zenon
    <3>2. (from >= 1 => key = LastKey(period, from - 1))
          /\ (from = 0 => key_member /\ end = 0)
      BY <1>9, <2>7, Zenon
    <3>3. period \in Nat /\ period >= 2 /\ from \in Nat /\ end \in Nat /\ from <= end
      BY <1>2, <1>3, Zenon
    <3>. QED
      BY ONLY <1>6, <2>3, <2>8, <3>1, <3>2, <3>3, key_member \in BOOLEAN, EndedResolves, Zenon
  <2>. QED
    BY <2>6, <2>9, Zenon DEF x
<1>. QED
  BY <1>7, <1>8, <1>9, Zenon DEF Decided, from, inputs, end, r, period, held, key

-----------------------------------------------------------------------------

\* The queue is what it was, but for a mark on its last entry or a new one behind it.
SameFront ==
  /\ QueueInv' /\ QP!Base' = QP!Base
  /\ UNCHANGED <<gop, delayed_intra>>
  /\ Closed => Closed'

LEMMA SubmitKeepsFront ==
  ASSUME QP!IInv, QueueInv, Q!TryEncodeFrame
  PROVE  SameFront
<1>. DEFINE new == [display_order |-> ra_display_next,
                    is_key |-> Q!IsKeyFrame(ra_display_next),
                    is_eos |-> FALSE]
            len == Len(ra_input)
<1>1. ra_input \in Seq(QP!BufferedFrame) /\ len \in Nat /\ ra_display_next \in Nat
  BY DEF QP!IInv, QP!TypeOK
<1>2. UNCHANGED <<gop, delayed_intra, flushed>> /\ ~flushed /\ call' = "push"
      /\ ra_display_next' = ra_display_next + 1
  BY DEF Q!TryEncodeFrame
<1>3. /\ new.display_order = ra_display_next
      /\ new.is_key <=> ra_display_next % gop.intra_period = 0
      /\ ~new.is_eos
  BY DEF Q!IsKeyFrame
<1>4. /\ Len(ra_input') = len + 1
      /\ \A i \in 1..len : ra_input'[i] = ra_input[i]
      /\ ra_input'[len + 1] = new
  <2>. HIDE DEF new
  <2>1. ra_input' = Append(ra_input, new)
    BY Zenon DEF Q!TryEncodeFrame, new
  <2>. QED
    BY <1>1, <2>1
<1>. HIDE DEF new, len
<1>5. QP!Base' = QP!Base
  <2>1. QP!Base = ra_display_next - len /\ QP!Base' = ra_display_next' - Len(ra_input')
    BY DEF QP!Base, len
  <2>. QED
    BY <1>1, <1>2, <1>4, <2>1
<1>6. QueueInv'
  <2>1. \A i \in 1..Len(ra_input') : i \in 1..len \/ i = len + 1
    BY <1>1, <1>4
  <2>2. \A i \in 1..len : /\ ra_input[i].is_key <=> ra_input[i].display_order % gop.intra_period = 0
                          /\ ~ra_input[i].is_eos
    BY <1>2, Zenon DEF QueueInv, len
  <2>3. ASSUME NEW i \in 1..Len(ra_input')
        PROVE  /\ ra_input'[i].is_key <=> ra_input'[i].display_order % gop'.intra_period = 0
               /\ ~ra_input'[i].is_eos
    <3>1. gop' = gop
      BY <1>2
    <3>. QED
      BY <1>3, <1>4, <2>1, <2>2, <3>1, Zenon
  <2>4. call' # "flush"
    BY <1>2
  <2>. QED
    BY <2>3, <2>4, Zenon DEF QueueInv
<1>. QED
  BY <1>2, <1>5, <1>6, Zenon DEF SameFront, Closed

LEMMA FlushKeepsFront ==
  ASSUME QP!IInv, QueueInv, Q!TryFlush
  PROVE  SameFront
<1>. DEFINE len == Len(ra_input)
<1>1. ra_input \in Seq(QP!BufferedFrame) /\ len \in Nat
  BY DEF QP!IInv, QP!TypeOK
<1>2. UNCHANGED <<gop, delayed_intra, ra_display_next>> /\ flushed'
  BY DEF Q!TryFlush
<1>3. /\ Len(ra_input') = len /\ (ra_input = <<>> => ra_input' = <<>>)
      /\ \A i \in 1..len :
           ra_input'[i] = IF i = len THEN [ra_input[i] EXCEPT !.is_eos = TRUE] ELSE ra_input[i]
  BY <1>1 DEF Q!TryFlush
<1>4. \A i \in 1..len : ra_input[i] \in QP!BufferedFrame
  BY <1>1
<1>. HIDE DEF len
<1>5. \A i \in 1..len : /\ ra_input'[i].display_order = ra_input[i].display_order
                        /\ ra_input'[i].is_key = ra_input[i].is_key
                        /\ ra_input'[i].is_eos => i = len \/ ra_input[i].is_eos
  <2>1. \A b \in QP!BufferedFrame :
          /\ [b EXCEPT !.is_eos = TRUE].display_order = b.display_order
          /\ [b EXCEPT !.is_eos = TRUE].is_key = b.is_key
    BY Zenon DEF QP!BufferedFrame
  <2>. QED
    BY <1>3, <1>4, <2>1, Zenon
<1>6. QP!Base' = QP!Base
  BY <1>2, <1>3 DEF QP!Base, len
<1>7. QueueInv'
  <2>1. \A i \in 1..len : /\ ra_input[i].is_key <=> ra_input[i].display_order % gop.intra_period = 0
                          /\ ra_input[i].is_eos => i = len
    BY Zenon DEF QueueInv, len
  <2>2. ASSUME NEW i \in 1..Len(ra_input')
        PROVE  /\ ra_input'[i].is_key <=> ra_input'[i].display_order % gop'.intra_period = 0
               /\ ra_input'[i].is_eos => flushed' /\ i = Len(ra_input')
    <3>1. gop' = gop /\ i \in 1..len
      BY <1>2, <1>3
    <3>. QED
      BY <1>2, <1>3, <1>5, <2>1, <3>1, Zenon
  <2>. QED
    BY <1>2, <2>2, Zenon DEF QueueInv
<1>. QED
  BY <1>2, <1>3, <1>6, <1>7, Zenon DEF SameFront, Closed

\* The steps that leave the queue alone.
LEMMA QueueKeepsFront ==
  ASSUME QueueInv, UNCHANGED <<gop, ra_input, ra_display_next, delayed_intra, flushed>>,
         call' = "idle" \/ call' = call
  PROVE  SameFront
<1>1. QP!Base' = QP!Base
  BY DEF QP!Base
<1>2. QueueInv'
  BY DEF QueueInv
<1>. QED
  BY <1>1, <1>2 DEF SameFront, Closed

LEMMA FrontKeepsDecision ==
  ASSUME DecisionInv, SameFront, pd_ctx' = pd_ctx
  PROVE  DecisionInv'
<1>1. UNCHANGED <<gop, delayed_intra, pd_ctx>> /\ QP!Base' = QP!Base /\ (Closed => Closed')
  BY DEF SameFront
<1>3. /\ pd_ctx \in Decision /\ pd_ctx.ok /\ pd_ctx.base = QP!Base /\ pd_ctx.alt = QP!Base
      /\ QP!Base = 0 => pd_ctx = InitDecision
      /\ \/ QP!Base = 0
         \/ Closed
         \/ Rest(gop, pd_ctx, LastKey(gop.intra_period, QP!Base - 1), QP!Base - 1)
      /\ delayed_intra # None => /\ delayed_intra % gop.intra_period = 0
                                 /\ pd_ctx.dpb = [s \in Slots |-> delayed_intra]
  BY Zenon DEF DecisionInv
<1>. QED
  BY <1>1, <1>3, Zenon DEF DecisionInv

LEMMA ReleaseKeepsDecision ==
  ASSUME QP!IInv, QueueInv, DecisionInv, NEW m \in 1..Len(ra_input), NEW key_member \in BOOLEAN,
         ReleaseWindow(m, key_member)
  PROVE  DecisionInv' /\ QueueInv'
<1>. DEFINE from == QP!Base
            inputs == SubSeq(ra_input, 1, m)
            period == gop.intra_period
            end == from + m - 1
            r == DecideRelease(gop, pd_ctx, inputs, key_member)
            held == KeyHeld(inputs)
<1>1. Q!EncodeRaWindow(m, key_member) /\ pd_ctx' = r.pd
  BY DEF ReleaseWindow
<1>2. gop' = gop
  BY <1>1 DEF Q!EncodeRaWindow
<1>3. gop \in GopConfigs /\ ra_input \in Seq(QP!BufferedFrame) /\ ra_display_next \in Nat
      /\ Len(ra_input) <= ra_display_next
  BY Zenon DEF QP!IInv, QP!TypeOK, QP!Conserved, QP!QueueContiguous
<1>4. from \in Nat /\ m \in Nat /\ m >= 1 /\ end \in Nat /\ from <= end
  BY <1>3 DEF QP!Base
<1>5. period \in Nat /\ period >= 2
  BY <1>3, GopBounds, Zenon
<1>6. /\ Takes(m, key_member, from, inputs) /\ Leaves(m, key_member, from, inputs) /\ QueueInv'
      /\ Decided(m, key_member, from, inputs, r)
  BY <1>1, ReleaseTakes, ReleaseLeaves, ReleaseDecides, Zenon
<1>. HIDE DEF inputs, from, r, held
<1>7. /\ Released(inputs, from, key_member) /\ Len(inputs) = m
      /\ \A p \in from..end : p % period = 0 <=> (key_member /\ p = end)
  BY <1>6, Zenon DEF Takes
<1>8. /\ QP!Base' = from + m
      /\ delayed_intra' = IF held THEN end ELSE None
      /\ \/ Closed'
         \/ held
         \/ key_member = FALSE /\ (m % 2 = 0 \/ gop.hierarchical_levels = 0)
  BY <1>6, Zenon DEF Leaves, held
<1>9. held => key_member
  BY <1>7, Zenon DEF Released, KeyHeld, held
<1>10. \E key, x, due : Resolved(gop, period, key, x, due, from, end, held, r)
  <2>1. CASE from = 0
    <3>1. m = 1 /\ \A x : Resolved(gop, period, 0, x, 0, 0, 0, held, r)
      BY <1>6, <2>1, Zenon DEF Decided, held
    <3>2. end = 0
      BY ONLY <2>1, <3>1 DEF end
    <3>. HIDE DEF end
    <3>. QED
      BY <2>1, <3>1, <3>2, Zenon
  <2>2. CASE from # 0
    BY <1>6, <2>2, Zenon DEF Decided, held
  <2>. QED
    BY <2>1, <2>2, Zenon
<1>11. /\ r.pd \in Decision /\ r.pd.ok /\ r.pd.base = end + 1 /\ r.pd.alt = end + 1
       /\ held => Rest(gop, r.pd, end, end) /\ r.pd.dpb = [s \in Slots |-> end]
  BY <1>10, Zenon DEF Resolved
<1>12. from + m = end + 1 /\ end + 1 - 1 = end /\ end + 1 # 0
  BY ONLY <1>4 DEF end
<1>13. QP!Base' = end + 1 /\ QP!Base' - 1 = end /\ QP!Base' # 0
  <2>. DEFINE b == QP!Base'
  <2>1. b = from + m
    BY <1>8
  <2>. HIDE DEF b
  <2>2. b = end + 1 /\ b - 1 = end /\ b # 0
    BY ONLY <1>4, <2>1 DEF end
  <2>. QED
    BY <2>2 DEF b
<1>14. end \in from..end
  BY ONLY <1>4
<1>15. held => end % period = 0 /\ LastKey(period, end) = end
  <2>. SUFFICES ASSUME held PROVE end % period = 0 /\ LastKey(period, end) = end
    OBVIOUS
  <2>1. end % period = 0
    BY <1>7, <1>9, <1>14, Zenon
  <2>. HIDE DEF end, period
  <2>. QED
    BY ONLY <1>4, <2>1 DEF LastKey
<1>16. \/ Closed'
       \/ Rest(gop, r.pd, LastKey(period, end), end)
  <2>1. CASE held
    BY <1>11, <1>15, <2>1, Zenon
  <2>2. CASE key_member = FALSE /\ (m % 2 = 0 \/ gop.hierarchical_levels = 0)
    <3>1. from # 0
      <4>1. from = 0 => key_member = TRUE
        BY <1>6, Zenon DEF Decided
      <4>. QED
        BY <2>2, <4>1
    <3>2. Rest(gop, r.pd, LastKey(period, from - 1), end)
      BY <1>6, <2>2, <3>1, Zenon DEF Decided
    <3>3. LastKey(period, end) = LastKey(period, from - 1)
      <4>1. \A p \in from..end : p % period # 0
        BY <1>7, <2>2
      <4>2. from >= 1 /\ end \in (from - 1)..end
        BY ONLY <1>4, <3>1
      <4>. HIDE DEF end, period
      <4>. QED
        BY ONLY <1>4, <1>5, <4>1, <4>2, LastKeySpans, Zenon
    <3>. QED
      BY <3>2, <3>3, Zenon
  <2>. QED
    BY <1>8, <2>1, <2>2, Zenon
<1>17. delayed_intra' # None => /\ delayed_intra' % period = 0
                                /\ r.pd.dpb = [s \in Slots |-> delayed_intra']
  BY <1>8, <1>11, <1>15, Zenon
<1>. QED
  BY <1>1, <1>2, <1>6, <1>11, <1>13, <1>16, <1>17, Zenon DEF DecisionInv, period

-----------------------------------------------------------------------------

LEMMA QueueInvariant == Spec => []QP!IInv
<1>1. QP!Spec => []QP!IInv
  BY QueueAssumptions, QP!InductiveInvariant
<1>. QED
  BY <1>1, PipelineDrivesQueue, SameQueue, PTL

LEMMA InitDecides == Init => QueueInv /\ DecisionInv
<1>. SUFFICES ASSUME Init PROVE QueueInv /\ DecisionInv
  OBVIOUS
<1>1. /\ gop \in GopConfigs /\ ra_input = <<>> /\ ra_display_next = 0 /\ delayed_intra = None
      /\ call = "idle" /\ flushed = FALSE /\ pd_ctx = InitDecision
  BY DEF Init, Q!Init
<1>2. Len(ra_input) = 0
  BY <1>1, EmptySeq
<1>3. QueueInv
  BY <1>1, <1>2 DEF QueueInv
<1>4. QP!Base = 0
  <2>1. QP!Base = ra_display_next - Len(ra_input)
    BY DEF QP!Base
  <2>. QED
    BY <1>1, <1>2, <2>1
<1>5. InitDecision \in Decision /\ InitDecision.ok /\ InitDecision.base = 0 /\ InitDecision.alt = 0
  BY ONLY TRUE DEF InitDecision, Decision
<1>6. DecisionInv
  BY <1>1, <1>4, <1>5, Zenon DEF DecisionInv
<1>. QED
  BY <1>3, <1>6

\* A step other than a release leaves the decision state and its place alone.
LEMMA OtherSteps ==
  ASSUME QP!IInv, QueueInv, [Next]_vars,
         ~\E m \in 1..Len(ra_input), key_member \in BOOLEAN : ReleaseWindow(m, key_member)
  PROVE  SameFront /\ pd_ctx' = pd_ctx
<1>1. CASE Submit
  <2>1. Q!TryEncodeFrame /\ pd_ctx' = pd_ctx
    BY <1>1 DEF Submit
  <2>. QED
    BY <2>1, SubmitKeepsFront
<1>2. CASE Flush
  <2>1. Q!TryFlush /\ pd_ctx' = pd_ctx
    BY <1>2 DEF Flush
  <2>. QED
    BY <2>1, FlushKeepsFront
<1>3. CASE CodeHeldKey \/ CodeNext \/ Return \/ Fail \/ UNCHANGED vars
  <2>1. UNCHANGED <<gop, ra_input, ra_display_next, delayed_intra, flushed, pd_ctx>>
        /\ (call' = "idle" \/ call' = call)
    <3>1. CASE CodeHeldKey
      BY <3>1 DEF CodeHeldKey, Q!EncodeDelayedIntra
    <3>2. CASE CodeNext
      BY <3>2 DEF CodeNext, Q!EncodeMember
    <3>3. CASE Return
      BY <3>3 DEF Return, Q!Return
    <3>4. CASE Fail
      BY <3>4 DEF Fail, Q!Fail
    <3>5. CASE UNCHANGED vars
      BY <3>5 DEF vars, Q!queueVars, codingVars
    <3>. QED
      BY <1>3, <3>1, <3>2, <3>3, <3>4, <3>5
  <2>. QED
    BY <2>1, QueueKeepsFront
<1>. QED
  BY <1>1, <1>2, <1>3 DEF Next, InCall

LEMMA StepDecides ==
  QP!IInv /\ QueueInv /\ DecisionInv /\ [Next]_vars => QueueInv' /\ DecisionInv'
<1>. SUFFICES ASSUME QP!IInv, QueueInv, DecisionInv, [Next]_vars
              PROVE  QueueInv' /\ DecisionInv'
  OBVIOUS
<1>1. CASE \E m \in 1..Len(ra_input), key_member \in BOOLEAN : ReleaseWindow(m, key_member)
  BY <1>1, ReleaseKeepsDecision, Zenon
<1>2. CASE ~\E m \in 1..Len(ra_input), key_member \in BOOLEAN : ReleaseWindow(m, key_member)
  <2>1. SameFront /\ pd_ctx' = pd_ctx
    BY <1>2, OtherSteps
  <2>2. QueueInv'
    BY <2>1 DEF SameFront
  <2>. QED
    BY <2>1, <2>2, FrontKeepsDecision
<1>. QED
  BY <1>1, <1>2

\* The decisions keep in step with the queue.
THEOREM DecisionsKeepUp == Spec => [](QueueInv /\ DecisionInv)
BY InitDecides, StepDecides, QueueInvariant, PTL DEF Spec

\* generate_rps_info has a row, and a show_existing slot where one is due, for every
\* picture that any release of any configuration asks it for
\* (pipeline/ra.rs:998-1060).
THEOREM NothingRejected == Spec => []NeverRejects
<1>1. DecisionInv => NeverRejects
  BY Zenon DEF DecisionInv, NeverRejects
<1>. QED
  BY <1>1, DecisionsKeepUp, PTL

\* decode_base_number and picture_number_alt stay equal and count the pictures that
\* have left the queue (pipeline/ra.rs:926-953).
THEOREM CountersStayInStep == Spec => []CountersInStep
<1>1. DecisionInv => CountersInStep
  BY Zenon DEF DecisionInv, CountersInStep, QP!Base
<1>. QED
  BY <1>1, DecisionsKeepUp, PTL

-----------------------------------------------------------------------------
(* The pictures still to be coded, one coded after the other.              *)

LEMMA StreamOfNone ==
  ASSUME NEW period, NEW front \in Nat, NEW key \in Nat, NEW x
  PROVE  Stream(period, <<>>, {}, front, key, x, front, x)
<1>. DEFINE list == <<>>
            d == [i \in 0..0 |-> x]
            n == [i \in 0..0 |-> front]
<1>1. Len(list) = 0 /\ 1..Len(list) = {} /\ list \in Seq({})
  OBVIOUS
<1>2. d[0] = x /\ n[0] = front /\ d[Len(list)] = x /\ n[Len(list)] = front
  BY <1>1
<1>. HIDE DEF d, n, list
<1>3. Chain(key, x, front, list, x, front)
  BY <1>1, <1>2, Zenon DEF Chain
<1>4. Lists(list, {})
  BY <1>1 DEF Lists
<1>5. EndsShown(list)
  BY DEF EndsShown, list
<1>. QED
  BY <1>1, <1>3, <1>4, <1>5, Zenon DEF Stream, list

LEMMA StreamEnds ==
  ASSUME NEW period, NEW list, NEW front, NEW key, NEW x, NEW due, NEW y,
         Stream(period, list, {}, front, key, x, due, y)
  PROVE  list = <<>> /\ x = y /\ due = front
<1>1. Chain(key, x, due, list, y, front) /\ Lists(list, {})
  BY Zenon DEF Stream
<1>2. PICK S : list \in Seq(S)
  BY <1>1, Zenon DEF Lists
<1>3. {} = {list[i].poc : i \in 1..Len(list)}
  BY <1>1, Zenon DEF Lists
<1>4. Len(list) = 0 /\ list = <<>>
  <2>0. Len(list) \in Nat
    BY <1>2
  <2>1. 1 \notin 1..Len(list)
    BY <1>3
  <2>2. Len(list) = 0
    BY <2>0, <2>1
  <2>. QED
    BY <1>2, <2>2
<1>5. PICK d, n : d[0] = x /\ n[0] = due /\ d[Len(list)] = y /\ n[Len(list)] = front
  BY <1>1, Zenon DEF Chain
<1>. QED
  BY <1>4, <1>5

\* What coding the first picture leaves.
Advances(period, list, members, front, key, x, due, y) ==
  \E x1, due1 :
    /\ Links(key, Head(list), x, due, x1, due1)
    /\ Stream(period, Tail(list), members \ {Head(list).poc}, front, key, x1, due1, y)
    /\ Tail(list) # <<>> \/ Head(list).show

LEMMA StreamNext ==
  ASSUME NEW period, NEW list, list # <<>>, NEW members, NEW front, NEW key, NEW x, NEW due,
         NEW y, Stream(period, list, members, front, key, x, due, y)
  PROVE  Advances(period, list, members, front, key, x, due, y)
<1>. DEFINE len == Len(list)
            rest == Tail(list)
            p == Head(list)
            left == members \ {p.poc}
<1>1. /\ key \in Nat /\ front \in Nat /\ Chain(key, x, due, list, y, front)
      /\ Lists(list, members) /\ EndsShown(list)
      /\ \A q \in members : q \in Nat /\ key <= q
      /\ \A i \in 1..len : ~list[i].key => LastKey(period, list[i].poc) = key
  BY Zenon DEF Stream
<1>2. PICK S : list \in Seq(S)
  BY <1>1, Zenon DEF Lists
<1>3. len \in Nat /\ len >= 1 /\ p = list[1]
  BY <1>2
<1>4. /\ rest \in Seq(S) /\ Len(rest) = len - 1
      /\ \A i \in 1..(len - 1) : rest[i] = list[i + 1]
  BY <1>2
<1>5. PICK d, n :
        /\ d[0] = x /\ n[0] = due /\ d[len] = y /\ n[len] = front
        /\ \A i \in 1..len : Links(key, list[i], d[i - 1], n[i - 1], d[i], n[i])
  BY <1>1, Zenon DEF Chain
<1>. DEFINE e == [i \in 0..(len - 1) |-> d[i + 1]]
            m == [i \in 0..(len - 1) |-> n[i + 1]]
<1>. HIDE DEF len, rest, p
<1>6. Links(key, p, x, due, d[1], n[1])
  <2>1. 1 \in 1..len /\ 1 - 1 = 0
    BY ONLY <1>3
  <2>2. Links(key, list[1], d[1 - 1], n[1 - 1], d[1], n[1])
    BY <1>5, <2>1, Zenon
  <2>. QED
    BY <1>3, <1>5, <2>1, <2>2, Zenon
<1>7. Chain(key, d[1], n[1], rest, y, front)
  <2>1. e[0] = d[1] /\ m[0] = n[1] /\ e[len - 1] = d[len] /\ m[len - 1] = n[len]
    BY ONLY <1>3
  <2>2. ASSUME NEW i \in 1..(len - 1)
        PROVE  Links(key, rest[i], e[i - 1], m[i - 1], e[i], m[i])
    <3>1. /\ i + 1 \in 1..len /\ i + 1 - 1 = i
          /\ e[i - 1] = d[i] /\ m[i - 1] = n[i] /\ e[i] = d[i + 1] /\ m[i] = n[i + 1]
      BY ONLY <1>3, <2>2
    <3>2. Links(key, list[i + 1], d[i + 1 - 1], n[i + 1 - 1], d[i + 1], n[i + 1])
      <4>. DEFINE j == i + 1
      <4>1. j \in 1..len
        BY <3>1
      <4>. HIDE DEF j
      <4>2. Links(key, list[j], d[j - 1], n[j - 1], d[j], n[j])
        BY <1>5, <4>1, Zenon
      <4>. QED
        BY <4>2 DEF j
    <3>3. rest[i] = list[i + 1]
      BY <1>4, Zenon
    <3>. HIDE DEF e, m
    <3>. QED
      BY ONLY <3>1, <3>2, <3>3, Zenon
  <2>3. e[Len(rest)] = y /\ m[Len(rest)] = front
    <3>. HIDE DEF e, m
    <3>. QED
      BY <1>4, <1>5, <2>1, Zenon
  <2>. HIDE DEF e, m
  <2>. QED
    BY <1>4, <2>1, <2>2, <2>3, Zenon DEF Chain
<1>8. \A i \in 1..len : i # 1 => (i - 1 \in 1..(len - 1) /\ list[i] = rest[i - 1])
  <2>. SUFFICES ASSUME NEW i \in 1..len, i # 1
                PROVE  i - 1 \in 1..(len - 1) /\ list[i] = rest[i - 1]
    OBVIOUS
  <2>1. i - 1 \in 1..(len - 1) /\ i - 1 + 1 = i
    BY ONLY <1>3, i \in 1..len, i # 1
  <2>. QED
    BY <1>4, <2>1, Zenon
<1>9. \A i \in 1..(len - 1) : i + 1 \in 1..len /\ i + 1 # 1
  BY ONLY <1>3
<1>10. /\ members = {list[i].poc : i \in 1..len}
       /\ \A i, j \in 1..len : list[i].poc = list[j].poc => i = j
  BY <1>1, Zenon DEF Lists, len
<1>11. Lists(rest, left)
  <2>1. left = {rest[i].poc : i \in 1..(len - 1)}
    <3>1. ASSUME NEW q \in left PROVE \E i \in 1..(len - 1) : q = rest[i].poc
      <4>1. PICK i \in 1..len : q = list[i].poc
        BY <1>10, <3>1
      <4>2. i # 1
        BY <1>3, <3>1, <4>1
      <4>. QED
        BY <1>8, <4>1, <4>2, Zenon
    <3>2. ASSUME NEW i \in 1..(len - 1) PROVE rest[i].poc \in left
      <4>1. i + 1 \in 1..len /\ i + 1 # 1 /\ 1 \in 1..len /\ rest[i] = list[i + 1]
        BY <1>3, <1>4, <1>9
      <4>2. list[i + 1].poc # list[1].poc
        BY <1>10, <4>1, Zenon
      <4>3. list[i + 1].poc \in members
        BY <1>10, <4>1
      <4>. QED
        BY <1>3, <4>1, <4>2, <4>3
    <3>. QED
      BY <3>1, <3>2
  <2>2. ASSUME NEW i \in 1..(len - 1), NEW j \in 1..(len - 1), rest[i].poc = rest[j].poc
        PROVE  i = j
    <3>1. list[i + 1].poc = list[j + 1].poc
      BY <1>4, <2>2, Zenon
    <3>2. i + 1 = j + 1
      BY <1>9, <1>10, <3>1, Zenon
    <3>. QED
      BY ONLY <1>3, <3>2, i \in 1..(len - 1), j \in 1..(len - 1)
  <2>3. Len(rest) = len - 1 /\ rest \in Seq(S)
    BY <1>4, Zenon
  <2>. HIDE DEF left
  <2>. QED
    BY <2>1, <2>2, <2>3, Zenon DEF Lists
<1>12. EndsShown(rest) /\ (rest # <<>> \/ p.show)
  <2>1. list[len].show
    BY <1>1, Zenon DEF EndsShown, len
  <2>2. CASE rest = <<>>
    <3>1. len = 1
      BY <1>3, <1>4, <2>2
    <3>. QED
      BY <1>3, <2>1, <2>2, <3>1 DEF EndsShown
  <2>3. CASE rest # <<>>
    <3>1. Len(rest) # 0
      BY <1>4, <2>3
    <3>2. len \in 1..len /\ len # 1
      BY <1>3, <1>4, <3>1
    <3>3. list[len] = rest[len - 1]
      BY <1>8, <3>2, Zenon
    <3>. QED
      BY <1>4, <2>1, <2>3, <3>3, Zenon DEF EndsShown
  <2>. QED
    BY <2>2, <2>3
<1>13. Stream(period, rest, left, front, key, d[1], n[1], y)
  <2>1. \A q \in left : q \in Nat /\ key <= q
    BY <1>1
  <2>2. \A i \in 1..Len(rest) : ~rest[i].key => LastKey(period, rest[i].poc) = key
    BY <1>1, <1>4, <1>9, Zenon
  <2>. HIDE DEF left
  <2>. QED
    BY <1>1, <1>7, <1>11, <1>12, <2>1, <2>2, Zenon DEF Stream
<1>. QED
  BY <1>6, <1>12, <1>13, Zenon DEF Advances, rest, p

LEMMA ListsCount ==
  ASSUME NEW list, NEW members, Lists(list, members)
  PROVE  Len(list) = Cardinality(members)
<1>. DEFINE f == [i \in 1..Len(list) |-> list[i].poc]
<1>1. /\ \E S : list \in Seq(S)
      /\ members = {list[i].poc : i \in 1..Len(list)}
      /\ \A i, j \in 1..Len(list) : list[i].poc = list[j].poc => i = j
  BY Zenon DEF Lists
<1>2. Len(list) \in Nat
  BY <1>1
<1>3. f \in Bijection(1..Len(list), members)
  BY <1>1 DEF Bijection, Injection, Surjection, IsInjective
<1>4. Cardinality(1..Len(list)) = Len(list) /\ IsFiniteSet(1..Len(list))
  <2>1. 1 \in Int /\ Len(list) \in Int
    BY <1>2
  <2>2. /\ IsFiniteSet(1..Len(list))
        /\ Cardinality(1..Len(list)) = IF 1 > Len(list) THEN 0 ELSE Len(list) - 1 + 1
    BY <2>1, FS_Interval, Zenon
  <2>. QED
    BY <1>2, <2>2
<1>5. Cardinality(1..Len(list)) = Cardinality(members)
  <2>. HIDE DEF f
  <2>. QED
    BY <1>3, <1>4, FS_Bijection, Zenon DEF ExistsBijection
<1>. QED
  BY <1>4, <1>5, Zenon

-----------------------------------------------------------------------------
(* The decoder, one OBU after the other.                                   *)

DecodeBody(f, i, d, o) == IF i = 0 THEN d ELSE DecodeObu(f[i - 1], o[i])

LEMMA DecodeWalkUnfolds ==
  ASSUME NEW d, NEW o, Len(o) \in Nat
  PROVE  \A i \in 0..Len(o) : DecodeWalk(d, o)[i] = DecodeBody(DecodeWalk(d, o), i, d, o)
<1>. DEFINE B(f, i) == DecodeBody(f, i, d, o)
            T == {k \in Nat : \E f : f = [i \in 0..k |-> B(f, i)]}
<1>1. 0 \in T
  <2>. DEFINE f == [i \in 0..0 |-> d]
  <2>1. f = [i \in 0..0 |-> B(f, i)]
    BY DEF DecodeBody
  <2>. QED
    BY <2>1
<1>2. ASSUME NEW k \in Nat, k \in T
      PROVE  k + 1 \in T
  <2>1. PICK f : f = [i \in 0..k |-> B(f, i)]
    BY <1>2
  <2>. DEFINE ff == [i \in 0..(k + 1) |-> IF i = k + 1 THEN B(f, k + 1) ELSE f[i]]
  <2>2. \A i \in 0..k : ff[i] = f[i]
    OBVIOUS
  <2>3. \A i \in 0..(k + 1) : ff[i] = B(f, i)
    <3>1. \A i \in 0..(k + 1) : i = k + 1 \/ i \in 0..k
      OBVIOUS
    <3>. QED
      BY <2>1, <3>1, Zenon
  <2>4. ff = [i \in 0..(k + 1) |-> ff[i]]
    OBVIOUS
  <2>. HIDE DEF ff
  <2>5. ASSUME NEW i \in 0..(k + 1)
        PROVE  B(ff, i) = B(f, i)
    <3>1. i = 0 \/ ff[i - 1] = f[i - 1]
      BY <2>2
    <3>. QED
      BY <3>1, Zenon DEF DecodeBody
  <2>6. ff = [i \in 0..(k + 1) |-> B(ff, i)]
    BY <2>3, <2>4, <2>5
  <2>. QED
    BY <2>6
<1>. HIDE DEF T
<1>3. Len(o) \in T
  BY <1>1, <1>2, Induction
<1>4. \E f : f = [i \in 0..Len(o) |-> B(f, i)]
  BY <1>3 DEF T
<1>. DEFINE w == CHOOSE f : f = [i \in 0..Len(o) |-> B(f, i)]
<1>5. w = [i \in 0..Len(o) |-> B(w, i)]
  BY <1>4
<1>6. DecodeWalk(d, o) = w
  BY DEF DecodeWalk, DecodeBody
<1>. QED
  BY <1>5, <1>6

LEMMA DecodeNothing == \A d : Decode(d, <<>>) = d
<1>. SUFFICES ASSUME NEW d PROVE Decode(d, <<>>) = d
  OBVIOUS
<1>. DEFINE o == <<>>
<1>1. Len(o) = 0 /\ Len(o) \in Nat /\ 0 \in 0..Len(o)
  OBVIOUS
<1>. HIDE DEF o
<1>2. DecodeWalk(d, o)[0] = DecodeBody(DecodeWalk(d, o), 0, d, o)
  BY <1>1, DecodeWalkUnfolds, Zenon
<1>3. DecodeWalk(d, o)[0] = d
  BY <1>2, Zenon DEF DecodeBody
<1>. QED
  BY <1>1, <1>3, Zenon DEF Decode, o

LEMMA DecodeOneMore ==
  ASSUME NEW d, NEW S, NEW o \in Seq(S), NEW b \in S
  PROVE  Decode(d, o \o <<b>>) = DecodeObu(Decode(d, o), b)
<1>. DEFINE n == Len(o)
            oo == o \o <<b>>
            v == DecodeWalk(d, o)
            w == DecodeWalk(d, oo)
            T == {k \in Nat : k <= n => v[k] = w[k]}
<1>1. /\ n \in Nat /\ Len(oo) = n + 1 /\ oo[n + 1] = b
      /\ \A i \in 1..n : oo[i] = o[i]
  OBVIOUS
<1>. HIDE DEF n, oo
<1>2. /\ \A i \in 0..n : v[i] = DecodeBody(v, i, d, o)
      /\ \A i \in 0..(n + 1) : w[i] = DecodeBody(w, i, d, oo)
  <2>1. Len(o) \in Nat /\ Len(oo) \in Nat
    BY <1>1 DEF n
  <2>2. \A i \in 0..Len(o) : DecodeWalk(d, o)[i] = DecodeBody(DecodeWalk(d, o), i, d, o)
    BY <2>1, DecodeWalkUnfolds, Zenon
  <2>3. \A i \in 0..Len(oo) : DecodeWalk(d, oo)[i] = DecodeBody(DecodeWalk(d, oo), i, d, oo)
    BY <2>1, DecodeWalkUnfolds, Zenon
  <2>. QED
    BY <1>1, <2>2, <2>3, Zenon DEF n
<1>. HIDE DEF v, w
<1>3. 0 \in T
  <2>1. v[0] = d
    <3>1. 0 \in 0..n
      BY <1>1
    <3>. QED
      BY <1>2, <3>1, Zenon DEF DecodeBody
  <2>2. w[0] = d
    <3>1. 0 \in 0..(n + 1)
      BY <1>1
    <3>. QED
      BY <1>2, <3>1, Zenon DEF DecodeBody
  <2>. QED
    BY <2>1, <2>2
<1>4. ASSUME NEW k \in Nat, k \in T
      PROVE  k + 1 \in T
  <2>. SUFFICES ASSUME k + 1 <= n
                PROVE  v[k + 1] = w[k + 1]
    OBVIOUS
  <2>. DEFINE j == k + 1
  <2>1. j \in 0..n /\ j \in 0..(n + 1) /\ j \in 1..n /\ j # 0 /\ j - 1 = k /\ k <= n
    BY <1>1
  <2>. HIDE DEF j
  <2>2. v[j] = DecodeObu(v[j - 1], o[j]) /\ w[j] = DecodeObu(w[j - 1], oo[j])
    BY <1>2, <2>1, Zenon DEF DecodeBody
  <2>3. v[j - 1] = w[j - 1] /\ o[j] = oo[j]
    BY <1>1, <1>4, <2>1
  <2>4. v[j] = w[j]
    BY <2>2, <2>3, Zenon
  <2>. QED
    BY <2>4 DEF j
<1>5. v[n] = w[n]
  <2>. HIDE DEF T
  <2>1. n \in T
    BY <1>1, <1>3, <1>4, Induction
  <2>. QED
    BY <1>1, <2>1 DEF T
<1>6. w[n + 1] = DecodeObu(w[n], b)
  <2>. DEFINE j == n + 1
  <2>1. j \in 0..(n + 1) /\ j # 0 /\ j - 1 = n
    BY <1>1
  <2>2. oo[j] = b
    BY <1>1
  <2>. HIDE DEF j
  <2>3. w[j] = DecodeObu(w[n], b)
    BY <1>2, <2>1, <2>2, Zenon DEF DecodeBody
  <2>. QED
    BY <2>3 DEF j
<1>7. Decode(d, oo) = w[n + 1] /\ Decode(d, o) = v[n]
  BY <1>1, Zenon DEF Decode, v, w, n
<1>. QED
  BY <1>5, <1>6, <1>7, Zenon DEF oo

\* What each of the OBUs does.
LEMMA DecodesDelimiter == \A d : DecodeObu(d, TD) = d
BY DEF DecodeObu, TD

LEMMA DecodesFrame == \A d, pic : DecodeObu(d, Frame(pic)) = DecodeFrame(d, pic)
<1>1. \A d, pic : Frame(pic).kind = "frame" /\ Frame(pic).pic = pic
  BY DEF Frame
<1>2. "frame" # "td" /\ "frame" # "show"
  OBVIOUS
<1>. QED
  BY <1>1, <1>2 DEF DecodeObu

LEMMA DecodesShow ==
  \A d, slot : DecodeObu(d, ShowExisting(slot))
                 = [d EXCEPT !.shown = Append(@, d.slots[slot])]
<1>1. \A slot : ShowExisting(slot).kind = "show" /\ ShowExisting(slot).slot = slot
  BY DEF ShowExisting
<1>2. "show" # "td" /\ "frame" # "show"
  OBVIOUS
<1>. QED
  BY <1>1, <1>2 DEF DecodeObu

-----------------------------------------------------------------------------
(* The decoder, one turn of the emit loop after the other.                 *)

IsDecoder(d) ==
  /\ d = [slots |-> d.slots, shown |-> d.shown, damaged |-> d.damaged]
  /\ \E S : d.shown \in Seq(S)

\* It has shown the pictures in front of due, each once and in display order.
Tracks(d, due) ==
  /\ Len(d.shown) = due
  /\ \A i \in 1..Len(d.shown) : d.shown[i] = i - 1

\* The decoder after the picture and the hidden one that is shown behind it.
AfterPicture(d, pic) ==
  IF pic.show_existing # NoSlot
    THEN [DecodeFrame(d, pic) EXCEPT
            !.shown = Append(@, DecodeFrame(d, pic).slots[pic.show_existing])]
    ELSE DecodeFrame(d, pic)

LEMMA TracksOneMore ==
  ASSUME NEW s, \E S : s \in Seq(S), NEW due, Len(s) = due, \A i \in 1..Len(s) : s[i] = i - 1
  PROVE  /\ Len(Append(s, due)) = due + 1
         /\ \A i \in 1..Len(Append(s, due)) : Append(s, due)[i] = i - 1
<1>1. PICK S : s \in Seq(S)
  OBVIOUS
<1>2. due \in Nat
  BY <1>1
<1>3. /\ Len(Append(s, due)) = due + 1 /\ Append(s, due)[due + 1] = due
      /\ \A i \in 1..due : Append(s, due)[i] = s[i]
  BY <1>1
<1>. QED
  BY <1>2, <1>3

\* Appending a value keeps a sequence one.
LEMMA StaysSequence ==
  ASSUME NEW s, \E S : s \in Seq(S), NEW v
  PROVE  \E S : Append(s, v) \in Seq(S)
<1>1. PICK S : s \in Seq(S)
  OBVIOUS
<1>2. s \in Seq(S \cup {v})
  BY <1>1, SeqDef
<1>3. Append(s, v) \in Seq(S \cup {v})
  BY <1>2
<1>. QED
  BY <1>3, Zenon

\* The frame alone.
DecodedFrame(d, pic, r) ==
  /\ IsDecoder(r)
  /\ r.slots = [s \in Slots |-> IF s \in pic.refresh THEN pic.poc ELSE d.slots[s]]
  /\ r.shown = IF pic.show THEN Append(d.shown, pic.poc) ELSE d.shown
  /\ r.damaged \subseteq d.damaged \cup {pic.poc}
  /\ RefsMatch(d.slots, pic) => r.damaged = d.damaged

LEMMA FrameDecodes ==
  ASSUME NEW d, IsDecoder(d), NEW pic
  PROVE  DecodedFrame(d, pic, DecodeFrame(d, pic))
<1>. DEFINE slots == [s \in 0..7 |-> IF s \in pic.refresh THEN pic.poc ELSE d.slots[s]]
            shown == IF pic.show THEN Append(d.shown, pic.poc) ELSE d.shown
            damaged == IF RefsMatch(d.slots, pic) THEN d.damaged ELSE d.damaged \cup {pic.poc}
            r == DecodeFrame(d, pic)
<1>1. r = [slots |-> slots, shown |-> shown, damaged |-> damaged]
  BY Zenon DEF DecodeFrame
<1>. HIDE DEF r
<1>2. r.slots = slots /\ r.shown = shown /\ r.damaged = damaged
  <2>. HIDE DEF slots, shown, damaged
  <2>. QED
    BY ONLY <1>1
<1>3. \E S : d.shown \in Seq(S)
  BY Zenon DEF IsDecoder
<1>4. \E S : shown \in Seq(S)
  <2>1. CASE pic.show
    BY <1>3, <2>1, StaysSequence, Zenon
  <2>2. CASE ~pic.show
    BY <1>3, <2>2, Zenon
  <2>. QED
    BY <2>1, <2>2
<1>5. IsDecoder(r)
  <2>. HIDE DEF slots, shown, damaged
  <2>. QED
    BY <1>1, <1>2, <1>4, Zenon DEF IsDecoder
<1>6. /\ damaged \subseteq d.damaged \cup {pic.poc}
      /\ RefsMatch(d.slots, pic) => damaged = d.damaged
  OBVIOUS
<1>7. slots = [s \in Slots |-> IF s \in pic.refresh THEN pic.poc ELSE d.slots[s]]
  BY DEF Slots
<1>. HIDE DEF slots, damaged
<1>. QED
  BY <1>2, <1>5, <1>6, <1>7, Zenon DEF DecodedFrame, r

\* What a picture does to a decoder that keeps up, or does not.
Follows(pic, d, x, due, r, x1, due1) ==
  /\ IsDecoder(r)
  /\ d.slots = x \/ pic.key => r.slots = x1 /\ r.damaged = d.damaged
  /\ r.damaged \subseteq d.damaged \cup {pic.poc}
  /\ d.slots = x /\ Tracks(d, due) => Tracks(r, due1)

LEMMA PictureFollows ==
  ASSUME NEW key, NEW pic, NEW x, NEW due, NEW x1, NEW due1,
         Links(key, pic, x, due, x1, due1), NEW d, IsDecoder(d)
  PROVE  Follows(pic, d, x, due, AfterPicture(d, pic), x1, due1)
<1>. DEFINE f == DecodeFrame(d, pic)
            r == AfterPicture(d, pic)
            v == f.slots[pic.show_existing]
            shows == pic.show_existing # NoSlot
<1>1. DecodedFrame(d, pic, f)
  BY FrameDecodes, Zenon
<1>. HIDE DEF f
<1>2. /\ IsDecoder(f)
      /\ f.slots = [s \in Slots |-> IF s \in pic.refresh THEN pic.poc ELSE d.slots[s]]
      /\ f.shown = IF pic.show THEN Append(d.shown, pic.poc) ELSE d.shown
      /\ f.damaged \subseteq d.damaged \cup {pic.poc}
      /\ RefsMatch(d.slots, pic) => f.damaged = d.damaged
  BY <1>1, Zenon DEF DecodedFrame
<1>3. /\ f = [slots |-> f.slots, shown |-> f.shown, damaged |-> f.damaged]
      /\ \E S : f.shown \in Seq(S)
  BY <1>2, Zenon DEF IsDecoder
<1>4. r = IF shows THEN [f EXCEPT !.shown = Append(@, v)] ELSE f
  BY Zenon DEF AfterPicture, f
<1>. HIDE DEF r, v, shows
<1>5. /\ r.slots = f.slots /\ r.damaged = f.damaged
      /\ r.shown = IF shows THEN Append(f.shown, v) ELSE f.shown
      /\ r = [slots |-> r.slots, shown |-> r.shown, damaged |-> r.damaged]
  BY ONLY <1>3, <1>4
<1>6. IsDecoder(r)
  <2>1. \E S : r.shown \in Seq(S)
    <3>1. CASE shows
      BY <1>3, <1>5, <3>1, StaysSequence, Zenon
    <3>2. CASE ~shows
      BY <1>3, <1>5, <3>2, Zenon
    <3>. QED
      BY <3>1, <3>2
  <2>. QED
    BY <1>5, <2>1, Zenon DEF IsDecoder
<1>7. /\ pic.show \in BOOLEAN
      /\ \A i \in 1..Len(pic.refs) : x[pic.refs[i]] = pic.ref_pocs[i]
      /\ x1 = [s \in Slots |-> IF s \in pic.refresh THEN pic.poc ELSE x[s]]
      /\ pic.key => pic.refs = <<>> /\ pic.refresh = Slots
      /\ ~pic.show => pic.show_existing = NoSlot /\ due1 = due
      /\ pic.show => /\ pic.poc = due
                     /\ \/ pic.show_existing = NoSlot /\ due1 = due + 1
                        \/ pic.show_existing \in Slots /\ x1[pic.show_existing] = due + 1
                           /\ due1 = due + 2
  BY Zenon DEF Links
<1>8. d.slots = x \/ pic.key => f.slots = x1 /\ RefsMatch(d.slots, pic)
  <2>1. CASE d.slots = x
    BY <1>2, <1>7, <2>1, Zenon DEF RefsMatch
  <2>2. CASE pic.key
    <3>1. Len(pic.refs) = 0 /\ 1..Len(pic.refs) = {}
      BY <1>7, <2>2
    <3>2. RefsMatch(d.slots, pic)
      BY <3>1 DEF RefsMatch
    <3>3. f.slots = [s \in Slots |-> pic.poc] /\ x1 = [s \in Slots |-> pic.poc]
      BY <1>2, <1>7, <2>2
    <3>. QED
      BY <3>2, <3>3
  <2>. QED
    BY <2>1, <2>2
<1>9. ASSUME d.slots = x, Tracks(d, due)
      PROVE  Tracks(r, due1)
  <2>1. f.slots = x1
    BY <1>8, <1>9
  <2>2. \E S : d.shown \in Seq(S)
    BY Zenon DEF IsDecoder
  <2>3. Len(d.shown) = due /\ \A i \in 1..Len(d.shown) : d.shown[i] = i - 1
    BY <1>9, Zenon DEF Tracks
  <2>4. due \in Nat
    <3>1. PICK S : d.shown \in Seq(S)
      BY <2>2
    <3>. QED
      BY <2>3, <3>1
  <2>5. CASE ~pic.show
    <3>1. ~shows
      BY <1>7, <2>5 DEF shows
    <3>2. r.shown = d.shown /\ due1 = due
      BY <1>2, <1>5, <1>7, <2>5, <3>1
    <3>. QED
      BY <2>3, <3>2, Zenon DEF Tracks
  <2>6. CASE pic.show /\ pic.show_existing = NoSlot
    <3>0. due1 = due + 1 /\ ~shows
      <4>1. ~(NoSlot \in Slots)
        BY DEF NoSlot, Slots
      <4>. QED
        BY <1>7, <2>6, <4>1, Zenon DEF shows
    <3>1. r.shown = Append(d.shown, due)
      BY <1>2, <1>5, <1>7, <2>6, <3>0, Zenon
    <3>2. /\ Len(Append(d.shown, due)) = due + 1
          /\ \A i \in 1..Len(Append(d.shown, due)) : Append(d.shown, due)[i] = i - 1
      BY <2>2, <2>3, TracksOneMore, Zenon
    <3>. QED
      BY <3>0, <3>1, <3>2, Zenon DEF Tracks
  <2>7. CASE pic.show /\ pic.show_existing # NoSlot
    <3>. DEFINE next == due + 1
    <3>0. due1 = due + 2 /\ shows /\ v = next
      BY <1>7, <2>1, <2>7, Zenon DEF shows, v
    <3>1. f.shown = Append(d.shown, due)
      BY <1>2, <1>7, <2>7, Zenon
    <3>2. /\ Len(Append(d.shown, due)) = next
          /\ \A i \in 1..Len(Append(d.shown, due)) : Append(d.shown, due)[i] = i - 1
      BY <2>2, <2>3, TracksOneMore, Zenon
    <3>3. next + 1 = due + 2
      BY ONLY <2>4
    <3>. HIDE DEF next
    <3>4. /\ Len(f.shown) = next
          /\ \A i \in 1..Len(f.shown) : f.shown[i] = i - 1
      BY <3>1, <3>2, Zenon
    <3>5. /\ Len(Append(f.shown, next)) = next + 1
          /\ \A i \in 1..Len(Append(f.shown, next)) : Append(f.shown, next)[i] = i - 1
      BY <1>3, <3>4, TracksOneMore, Zenon
    <3>6. r.shown = Append(f.shown, next) /\ next + 1 = due1
      BY <1>5, <3>0, <3>3, Zenon
    <3>. QED
      BY <3>5, <3>6, Zenon DEF Tracks
  <2>. QED
    BY <2>5, <2>6, <2>7
<1>. QED
  BY <1>2, <1>5, <1>6, <1>8, <1>9, Zenon DEF Follows, r

-----------------------------------------------------------------------------
(* The bytes of a call.                                                    *)

\* What CodeHeldKey and CodeNext append.
KeyUnit(o, pic) == o \o <<TD, Frame(pic)>>
PictureUnits(o, open, pic) ==
  o \o (IF open THEN <<>> ELSE <<TD>>) \o <<Frame(pic)>>
    \o (IF pic.show_existing # NoSlot THEN <<TD, ShowExisting(pic.show_existing)>> ELSE <<>>)

\* The bytes r decode from d as the bytes o and then the picture.
Decodes(d, o, pic, r) ==
  /\ \E S : r \in Seq(S)
  /\ Decode(d, r) = AfterPicture(Decode(d, o), pic)

LEMMA OneMoreObu ==
  ASSUME NEW o, \E S : o \in Seq(S), NEW b, NEW d
  PROVE  /\ \E S : o \o <<b>> \in Seq(S)
         /\ Decode(d, o \o <<b>>) = DecodeObu(Decode(d, o), b)
<1>1. PICK S : o \in Seq(S)
  OBVIOUS
<1>. DEFINE R == S \cup {b}
<1>2. o \in Seq(R) /\ b \in R
  BY <1>1, SeqDef
<1>. HIDE DEF R
<1>3. o \o <<b>> \in Seq(R)
  BY <1>2
<1>4. Decode(d, o \o <<b>>) = DecodeObu(Decode(d, o), b)
  BY <1>2, DecodeOneMore, Zenon
<1>. QED
  BY <1>3, <1>4, Zenon

TwoAreOneByOne(o, a, b) == o \o <<a, b>> = (o \o <<a>>) \o <<b>>

LEMMA TwoMoreObus ==
  ASSUME NEW o, \E S : o \in Seq(S), NEW a, NEW b
  PROVE  TwoAreOneByOne(o, a, b)
<1>1. PICK S : o \in Seq(S)
  OBVIOUS
<1>. DEFINE R == S \cup {a, b}
<1>2. o \in Seq(R) /\ a \in R /\ b \in R
  BY <1>1, SeqDef
<1>. HIDE DEF R
<1>4. <<a>> \in Seq(R) /\ <<b>> \in Seq(R) /\ <<a, b>> = <<a>> \o <<b>>
  <2>1. <<a>> \in Seq(R) /\ <<b>> \in Seq(R) /\ <<a, b>> \in Seq(R)
    BY <1>2
  <2>2. /\ Len(<<a>>) = 1 /\ Len(<<b>>) = 1 /\ Len(<<a, b>>) = 2
        /\ <<a, b>>[1] = a /\ <<a, b>>[2] = b /\ <<a>>[1] = a /\ <<b>>[1] = b
    OBVIOUS
  <2>. DEFINE s == <<a>>
              t == <<b>>
              u == <<a, b>>
  <2>. HIDE DEF s, t, u
  <2>3. /\ s \in Seq(R) /\ t \in Seq(R) /\ u \in Seq(R) /\ Len(s) = 1 /\ Len(t) = 1 /\ Len(u) = 2
        /\ u[1] = s[1] /\ u[2] = t[1]
    BY <2>1, <2>2, Zenon DEF s, t, u
  <2>4. u = s \o t
    <3>. DEFINE v == s \o t
    <3>1. v \in Seq(R) /\ Len(v) = 2
      BY ONLY <2>3
    <3>2. v[1] = s[1] /\ v[2] = t[1]
      <4>. DEFINE k == Len(s) + Len(t)
      <4>1. \A i \in 1..k : (s \o t)[i] = IF i <= Len(s) THEN s[i] ELSE t[i - Len(s)]
        BY <2>3, ConcatProperties, Zenon
      <4>2. k = 2 /\ Len(s) = 1
        BY ONLY <2>3
      <4>. HIDE DEF k
      <4>3. \A i \in 1..2 : v[i] = IF i <= 1 THEN s[i] ELSE t[i - 1]
        BY <4>1, <4>2, Zenon
      <4>. HIDE DEF v
      <4>. QED
        BY ONLY <4>3
    <3>. HIDE DEF v
    <3>3. u = [i \in 1..2 |-> u[i]] /\ v = [i \in 1..2 |-> v[i]]
      BY ONLY <2>3, <3>1
    <3>4. \A i \in 1..2 : u[i] = v[i]
      <4>1. \A i \in 1..2 : i = 1 \/ i = 2
        OBVIOUS
      <4>. QED
        BY <2>3, <3>2, <4>1, Zenon
    <3>5. u = v
      BY ONLY <3>3, <3>4
    <3>. QED
      BY <3>5 DEF v
  <2>. QED
    BY <2>1, <2>4, Zenon DEF s, t, u
<1>3. (o \o <<a>>) \o <<b>> = o \o (<<a>> \o <<b>>)
  BY <1>2, <1>4
<1>. QED
  BY <1>3, <1>4, Zenon DEF TwoAreOneByOne

LEMMA NoMoreObus ==
  ASSUME NEW o, \E S : o \in Seq(S)
  PROVE  o \o <<>> = o
OBVIOUS

LEMMA PictureDecodes ==
  ASSUME NEW o, \E S : o \in Seq(S), NEW d, NEW open, NEW pic
  PROVE  Decodes(d, o, pic, PictureUnits(o, open, pic))
<1>. DEFINE shows == pic.show_existing # NoSlot
            frame == Frame(pic)
            show == ShowExisting(pic.show_existing)
            a == o \o (IF open THEN <<>> ELSE <<TD>>)
            b == a \o <<frame>>
            t == b \o <<TD>>
            r == b \o (IF shows THEN <<TD, show>> ELSE <<>>)
<1>1. (\E S : a \in Seq(S)) /\ Decode(d, a) = Decode(d, o)
  <2>1. CASE open
    <3>1. a = o \o <<>>
      BY <2>1
    <3>2. o \o <<>> = o
      BY NoMoreObus, Zenon
    <3>. HIDE DEF a
    <3>. QED
      BY <3>1, <3>2, Zenon
  <2>2. CASE ~open
    <3>1. a = o \o <<TD>>
      BY <2>2
    <3>2. (\E S : o \o <<TD>> \in Seq(S)) /\ Decode(d, o \o <<TD>>) = DecodeObu(Decode(d, o), TD)
      BY OneMoreObu, Zenon
    <3>. HIDE DEF a
    <3>. QED
      BY <3>1, <3>2, DecodesDelimiter, Zenon
  <2>. QED
    BY <2>1, <2>2
<1>. HIDE DEF a
<1>2. (\E S : b \in Seq(S)) /\ Decode(d, b) = DecodeFrame(Decode(d, o), pic)
  <2>1. (\E S : b \in Seq(S)) /\ Decode(d, b) = DecodeObu(Decode(d, a), frame)
    BY <1>1, OneMoreObu, Zenon
  <2>. QED
    BY <1>1, <2>1, DecodesFrame, Zenon
<1>. HIDE DEF b
<1>3. (\E S : t \in Seq(S)) /\ Decode(d, t) = DecodeFrame(Decode(d, o), pic)
  <2>1. (\E S : t \in Seq(S)) /\ Decode(d, t) = DecodeObu(Decode(d, b), TD)
    BY <1>2, OneMoreObu, Zenon
  <2>. QED
    BY <1>2, <2>1, DecodesDelimiter, Zenon
<1>4. PictureUnits(o, open, pic) = r
  BY Zenon DEF PictureUnits, a, b
<1>5. CASE shows
  <2>1. r = t \o <<show>>
    <3>1. b \o <<TD, show>> = (b \o <<TD>>) \o <<show>>
      <4>1. TwoAreOneByOne(b, TD, show)
        BY <1>2, TwoMoreObus, Zenon
      <4>. QED
        BY <4>1, Zenon DEF TwoAreOneByOne
    <3>2. r = b \o <<TD, show>>
      BY <1>5
    <3>. QED
      BY <3>1, <3>2, Zenon
  <2>. HIDE DEF t, r, shows
  <2>2. (\E S : t \o <<show>> \in Seq(S))
        /\ Decode(d, t \o <<show>>) = DecodeObu(Decode(d, t), show)
    BY <1>3, OneMoreObu, Zenon
  <2>. DEFINE f == DecodeFrame(Decode(d, o), pic)
  <2>3. Decode(d, r) = [f EXCEPT !.shown = Append(@, f.slots[pic.show_existing])]
    BY <1>3, <2>1, <2>2, DecodesShow, Zenon
  <2>4. Decode(d, r) = AfterPicture(Decode(d, o), pic)
    BY <1>5, <2>3, Zenon DEF AfterPicture, shows
  <2>. QED
    BY <1>4, <2>1, <2>2, <2>4, Zenon DEF Decodes
<1>6. CASE ~shows
  <2>1. r = b
    <3>1. b \o <<>> = b
      BY <1>2, NoMoreObus, Zenon
    <3>. QED
      BY <1>6, <3>1
  <2>. HIDE DEF t, r, shows
  <2>4. Decode(d, r) = AfterPicture(Decode(d, o), pic)
    BY <1>2, <1>6, <2>1, Zenon DEF AfterPicture, shows
  <2>. QED
    BY <1>2, <1>4, <2>1, <2>4, Zenon DEF Decodes
<1>. QED
  BY <1>5, <1>6

\* A held key frame, coded behind any buffer.
LEMMA KeyPictureLinks ==
  ASSUME NEW k \in Nat
  PROVE  /\ KeyPicture(k).poc = k /\ KeyPicture(k).key /\ KeyPicture(k).refresh = Slots
         /\ KeyPicture(k).show_existing = NoSlot /\ KeyPicture(k).show
         /\ \A first, d : Links(first, KeyPicture(k), d, k, [s \in Slots |-> k], k + 1)
<1>. DEFINE pic == [poc |-> k, key |-> TRUE]
            more == [refs |-> <<>>, ref_pocs |-> <<>>, list0 |-> 0, list1 |-> 0,
                     refresh |-> Slots, show |-> TRUE, show_existing |-> NoSlot]
            p == KeyPicture(k)
            nil == <<>>
<1>1. p = WithFields(pic, more)
  BY DEF KeyPicture, DecideKey
<1>2. /\ p.poc = k /\ p.key = TRUE /\ p.refs = nil
      /\ p.refresh = Slots /\ p.show = TRUE /\ p.show_existing = NoSlot
  <2>. HIDE DEF p
  <2>1. p = [f \in DOMAIN pic \cup DOMAIN more |-> IF f \in DOMAIN pic THEN pic[f] ELSE more[f]]
    BY <1>1, Zenon DEF WithFields
  <2>2. /\ DOMAIN pic = {"poc", "key"}
        /\ DOMAIN more = {"refs", "ref_pocs", "list0", "list1", "refresh", "show", "show_existing"}
    OBVIOUS
  <2>3. /\ pic["poc"] = k /\ pic["key"] = TRUE /\ more["refs"] = nil
        /\ more["refresh"] = Slots /\ more["show"] = TRUE /\ more["show_existing"] = NoSlot
    OBVIOUS
  <2>. HIDE DEF pic, more, nil
  <2>. QED
    BY ONLY <2>1, <2>2, <2>3
<1>. HIDE DEF p
<1>3. Len(p.refs) = 0 /\ 1..Len(p.refs) = {}
  BY <1>2
<1>4. ASSUME NEW first, NEW d
      PROVE  Links(first, p, d, k, [s \in Slots |-> k], k + 1)
  <2>1. \A r \in 1..Len(p.refs) : d[p.refs[r]] = p.ref_pocs[r]
    BY <1>3
  <2>2. [s \in Slots |-> k] = [s \in Slots |-> IF s \in p.refresh THEN p.poc ELSE d[s]]
    BY <1>2
  <2>. QED
    BY <1>2, <2>1, <2>2, Zenon DEF Links, nil
<1>. QED
  BY <1>2, <1>4, Zenon DEF p

LEMMA KeyDecodes ==
  ASSUME NEW o, \E S : o \in Seq(S), NEW d, NEW k \in Nat
  PROVE  Decodes(d, o, KeyPicture(k), KeyUnit(o, KeyPicture(k)))
<1>. DEFINE p == KeyPicture(k)
<1>1. p.show_existing = NoSlot
  BY KeyPictureLinks, Zenon
<1>. HIDE DEF p
<1>2. o \o <<TD, Frame(p)>> = (o \o <<TD>>) \o <<Frame(p)>>
  <2>1. TwoAreOneByOne(o, TD, Frame(p))
    BY TwoMoreObus, Zenon
  <2>. QED
    BY <2>1, Zenon DEF TwoAreOneByOne
<1>3. PictureUnits(o, FALSE, p) = (o \o <<TD>>) \o <<Frame(p)>>
  <2>. DEFINE a == (o \o <<TD>>) \o <<Frame(p)>>
  <2>1. \E S : (o \o <<TD>>) \in Seq(S)
    BY OneMoreObu, Zenon
  <2>2. \E S : a \in Seq(S)
    BY <2>1, OneMoreObu, Zenon
  <2>3. PictureUnits(o, FALSE, p) = a \o <<>>
    BY <1>1 DEF PictureUnits
  <2>. HIDE DEF a
  <2>4. a \o <<>> = a
    BY <2>2, NoMoreObus, Zenon
  <2>. QED
    BY <2>3, <2>4, Zenon DEF a
<1>4. Decodes(d, o, p, PictureUnits(o, FALSE, p))
  BY PictureDecodes, Zenon
<1>. QED
  BY <1>2, <1>3, <1>4, Zenon DEF KeyUnit, p

-----------------------------------------------------------------------------
(* The emit loop's pictures, from the buffer x of the first one to code to the *)
(* buffer y behind the last one.                                           *)

Emission(key, x, due, y) ==
  Stream(gop.intra_period, emit, frames, QP!Front, key, x, due, y)

\* They lead to what the decisions take the buffer to be, and key is the last key
\* frame in front of the pictures to come.
Anchored(key, y) ==
  /\ delayed_intra = None /\ QP!Base # 0 => y = pd_ctx.dpb
  /\ \/ Closed
     \/ QP!Front = 0
     \/ key = LastKey(gop.intra_period, QP!Front - 1)

\* What a release starts from.
ReleaseStarts(key, x, due) ==
  IF QP!Base = 0 THEN key = 0 /\ x = dpb /\ due = 0
                 ELSE /\ key = LastKey(gop.intra_period, QP!Base - 1)
                      /\ x = pd_ctx.dpb /\ due = QP!Base

LEMMA ReleaseEmits ==
  ASSUME QP!IInv, QueueInv, DecisionInv, NEW m \in 1..Len(ra_input), NEW key_member \in BOOLEAN,
         ReleaseWindow(m, key_member)
  PROVE  \E key, x, due, y :
            Emission(key, x, due, y)' /\ Anchored(key, y)' /\ ReleaseStarts(key, x, due)
<1>. DEFINE from == QP!Base
            inputs == SubSeq(ra_input, 1, m)
            period == gop.intra_period
            end == from + m - 1
            r == DecideRelease(gop, pd_ctx, inputs, key_member)
            held == KeyHeld(inputs)
            last == LastKey(period, from - 1)
<1>1. Q!EncodeRaWindow(m, key_member) /\ pd_ctx' = r.pd /\ emit' = r.emit
  BY DEF ReleaseWindow
<1>2. gop' = gop
  BY <1>1 DEF Q!EncodeRaWindow
<1>3. gop \in GopConfigs /\ ra_input \in Seq(QP!BufferedFrame) /\ ra_display_next \in Nat
      /\ Len(ra_input) <= ra_display_next
  BY Zenon DEF QP!IInv, QP!TypeOK, QP!Conserved, QP!QueueContiguous
<1>4. from \in Nat /\ m \in Nat /\ m >= 1 /\ end \in Nat /\ from <= end
  BY <1>3 DEF QP!Base
<1>5. period \in Nat /\ period >= 2
  BY <1>3, GopBounds, Zenon
<1>6. /\ Takes(m, key_member, from, inputs) /\ Leaves(m, key_member, from, inputs)
      /\ Decided(m, key_member, from, inputs, r)
  BY <1>1, ReleaseTakes, ReleaseLeaves, ReleaseDecides, Zenon
<1>. HIDE DEF inputs, from, r, held
<1>7. /\ Released(inputs, from, key_member)
      /\ \A p \in from..end : p % period = 0 <=> (key_member /\ p = end)
  BY <1>6, Zenon DEF Takes
<1>8. /\ QP!Base' = from + m
      /\ frames' = IF held THEN from..(from + m - 2) ELSE from..(from + m - 1)
      /\ delayed_intra' = IF held THEN end ELSE None
      /\ \/ Closed'
         \/ held
         \/ key_member = FALSE /\ (m % 2 = 0 \/ gop.hierarchical_levels = 0)
  BY <1>6, Zenon DEF Leaves, held
<1>9. None \notin Nat
  BY QueueAssumptions DEF QP!BoundAssumption
<1>10. /\ frames' = IF held THEN from..(end - 1) ELSE from..end
       /\ QP!Base' = end + 1 /\ QP!Base' # 0
       /\ QP!Front' = IF held THEN end ELSE end + 1
  <2>. DEFINE b == QP!Base'
  <2>1. b = from + m
    BY <1>8
  <2>2. QP!Front' = IF delayed_intra' = None THEN b ELSE b - 1
    BY DEF QP!Front
  <2>. HIDE DEF b
  <2>3. b = end + 1 /\ b # 0 /\ b - 1 = end /\ from + m - 2 = end - 1 /\ from + m - 1 = end
    BY ONLY <1>4, <2>1 DEF end
  <2>. HIDE DEF end
  <2>4. delayed_intra' = None <=> ~held
    BY <1>4, <1>8, <1>9
  <2>5. QP!Front' = IF held THEN end ELSE end + 1
    BY <2>2, <2>3, <2>4
  <2>6. frames' = IF held THEN from..(end - 1) ELSE from..end
    BY <1>8, <2>3
  <2>. QED
    BY <2>3, <2>5, <2>6 DEF b
<1>11. \E key, x, due : /\ ReleaseStarts(key, x, due)
                        /\ Resolved(gop, period, key, x, due, from, end, held, r)
                        /\ (from # 0 => key = last)
  <2>1. CASE from = 0
    <3>1. m = 1 /\ \A x : Resolved(gop, period, 0, x, 0, 0, 0, held, r)
      BY <1>6, <2>1, Zenon DEF Decided, held
    <3>2. end = 0
      BY ONLY <2>1, <3>1 DEF end
    <3>3. ReleaseStarts(0, dpb, 0)
      BY <2>1, Zenon DEF ReleaseStarts, from
    <3>. HIDE DEF end
    <3>. QED
      BY <2>1, <3>1, <3>2, <3>3, Zenon
  <2>2. CASE from # 0
    <3>1. Resolved(gop, period, last, pd_ctx.dpb, from, from, end, held, r)
      BY <1>6, <2>2, Zenon DEF Decided, held
    <3>2. ReleaseStarts(last, pd_ctx.dpb, from)
      BY <2>2, Zenon DEF ReleaseStarts, from, last, period
    <3>. QED
      BY <3>1, <3>2, Zenon
  <2>. QED
    BY <2>1, <2>2, Zenon
<1>12. PICK key, x, due : ReleaseStarts(key, x, due) /\ (from # 0 => key = last)
                          /\ Resolved(gop, period, key, x, due, from, end, held, r)
  BY <1>11, Zenon
<1>13. PICK y : /\ IF held THEN Stream(period, r.emit, from..(end - 1), end, key, x, due, y)
                           ELSE Stream(period, r.emit, from..end, end + 1, key, x, due, y)
                /\ ~held => y = r.pd.dpb
  BY <1>12, Zenon DEF Resolved
<1>14. Emission(key, x, due, y)'
  <2>. HIDE DEF end
  <2>1. CASE held
    BY <1>1, <1>2, <1>10, <1>13, <2>1, Zenon DEF Emission, period
  <2>2. CASE ~held
    BY <1>1, <1>2, <1>10, <1>13, <2>2, Zenon DEF Emission, period
  <2>. QED
    BY <2>1, <2>2
<1>15. \/ Closed' \/ QP!Front' = 0
       \/ last = LastKey(period, QP!Front' - 1) /\ from # 0
  <2>. DEFINE f == QP!Front'
  <2>1. f = IF held THEN end ELSE end + 1
    BY <1>10
  <2>. HIDE DEF f, end
  <2>2. held => key_member
    <3>1. held => inputs[Len(inputs)].is_key
      BY DEF held, KeyHeld
    <3>. QED
      BY <1>7, <3>1, Zenon DEF Released
  <2>3. CASE held /\ from # 0
    <3>1. \A p \in from..(end - 1) : p \in from..end /\ p # end
      BY ONLY <1>4
    <3>2. \A p \in from..(end - 1) : p % period # 0
      BY <1>7, <3>1
    <3>3. from >= 1 /\ end - 1 \in (from - 1)..(end - 1)
      BY ONLY <1>4, <2>3
    <3>. DEFINE e == end - 1
    <3>4. e \in Nat /\ from \in Nat /\ from >= 1
      BY ONLY <1>4, <3>3
    <3>5. (\A p \in from..e : p % period # 0) /\ e \in (from - 1)..e
      BY <3>2, <3>3
    <3>. HIDE DEF e
    <3>6. \A p \in (from - 1)..e : LastKey(period, p) = LastKey(period, from - 1)
      BY ONLY <1>5, <3>4, <3>5, LastKeySpans, Zenon
    <3>7. LastKey(period, e) = last
      BY <3>5, <3>6, Zenon DEF last
    <3>. QED
      BY <2>1, <2>3, <3>7, Zenon DEF e, f
  <2>4. CASE held /\ from = 0
    <3>1. m = 1
      BY <1>6, <2>4, Zenon DEF Decided
    <3>2. end = 0
      BY ONLY <2>4, <3>1 DEF end
    <3>. QED
      BY <2>1, <2>4, <3>2 DEF f
  <2>5. CASE ~held /\ key_member = FALSE
    <3>1. from # 0
      BY <1>6, <2>5, Zenon DEF Decided
    <3>2. \A p \in from..end : p % period # 0
      BY <1>7, <2>5
    <3>3. from >= 1 /\ end \in (from - 1)..end
      BY ONLY <1>4, <3>1
    <3>4. \A p \in (from - 1)..end : LastKey(period, p) = LastKey(period, from - 1)
      BY ONLY <1>4, <1>5, <3>2, <3>3, LastKeySpans, Zenon
    <3>5. LastKey(period, end) = last
      BY <3>3, <3>4, Zenon DEF last
    <3>7. f - 1 = end
      BY <1>4, <2>1, <2>5
    <3>. QED
      BY <3>1, <3>5, <3>7, Zenon DEF f
  <2>. QED
    BY <1>8, <2>3, <2>4, <2>5, Zenon
<1>16. Anchored(key, y)'
  <2>1. delayed_intra' = None => y = pd_ctx'.dpb
    <3>1. delayed_intra' = None => ~held
      BY <1>4, <1>8, <1>9
    <3>. QED
      BY <1>1, <1>13, <3>1, Zenon
  <2>2. Closed' \/ QP!Front' = 0 \/ key = LastKey(gop'.intra_period, QP!Front' - 1)
    BY <1>2, <1>12, <1>15, Zenon DEF period
  <2>. QED
    BY <2>1, <2>2, Zenon DEF Anchored
<1>. QED
  BY <1>12, <1>14, <1>16, Zenon

-----------------------------------------------------------------------------

LEMMA FrontStays ==
  ASSUME SameFront
  PROVE  QP!Front' = QP!Front
BY DEF SameFront, QP!Front

\* The steps that code nothing.
LEMMA QuietEmits ==
  ASSUME SameFront, UNCHANGED <<emit, frames, pd_ctx>>, NEW key, NEW x, NEW due, NEW y,
         Emission(key, x, due, y), Anchored(key, y)
  PROVE  Emission(key, x, due, y)' /\ Anchored(key, y)'
<1>1. /\ emit' = emit /\ frames' = frames /\ pd_ctx' = pd_ctx /\ gop' = gop
      /\ delayed_intra' = delayed_intra /\ QP!Base' = QP!Base /\ QP!Front' = QP!Front
      /\ Closed => Closed'
  BY FrontStays DEF SameFront
<1>2. Emission(key, x, due, y)'
  BY <1>1, Zenon DEF Emission
<1>3. Anchored(key, y)'
  BY <1>1, Zenon DEF Anchored
<1>. QED
  BY <1>2, <1>3

\* Coding the first picture.
CodesFirst(key, x, due, y) ==
  \E x1, due1 : /\ Links(key, Head(emit), x, due, x1, due1)
                /\ Emission(key, x1, due1, y)' /\ Anchored(key, y)'
                /\ emit' # <<>> \/ Head(emit).show

LEMMA NextEmits ==
  ASSUME SameFront, pd_ctx' = pd_ctx, CodeNext, NEW key, NEW x, NEW due, NEW y,
         Emission(key, x, due, y), Anchored(key, y)
  PROVE  CodesFirst(key, x, due, y)
<1>1. /\ pd_ctx' = pd_ctx /\ gop' = gop
      /\ delayed_intra' = delayed_intra /\ QP!Base' = QP!Base /\ QP!Front' = QP!Front
      /\ Closed => Closed'
  BY FrontStays DEF SameFront
<1>2. emit # <<>> /\ emit' = Tail(emit) /\ frames' = frames \ {Head(emit).poc}
  BY DEF CodeNext, Q!EncodeMember
<1>3. Advances(gop.intra_period, emit, frames, QP!Front, key, x, due, y)
  <2>1. Stream(gop.intra_period, emit, frames, QP!Front, key, x, due, y)
    BY Zenon DEF Emission
  <2>. QED
    BY <1>2, <2>1, StreamNext, Zenon
<1>4. PICK x1, due1 :
        /\ Links(key, Head(emit), x, due, x1, due1)
        /\ Stream(gop.intra_period, Tail(emit), frames \ {Head(emit).poc}, QP!Front,
                  key, x1, due1, y)
        /\ Tail(emit) # <<>> \/ Head(emit).show
  BY <1>3, Zenon DEF Advances
<1>5. Emission(key, x1, due1, y)'
  BY <1>1, <1>2, <1>4, Zenon DEF Emission
<1>6. Anchored(key, y)'
  BY <1>1, Zenon DEF Anchored
<1>. QED
  BY <1>2, <1>4, <1>5, <1>6, Zenon DEF CodesFirst

LEMMA FailEmits ==
  ASSUME SameFront, pd_ctx' = pd_ctx, Fail, NEW key, NEW x, NEW due, NEW y,
         Emission(key, x, due, y), Anchored(key, y)
  PROVE  Emission(key, y, QP!Front, y)' /\ Anchored(key, y)'
<1>1. /\ pd_ctx' = pd_ctx /\ gop' = gop
      /\ delayed_intra' = delayed_intra /\ QP!Base' = QP!Base /\ QP!Front' = QP!Front
      /\ Closed => Closed'
  BY FrontStays DEF SameFront
<1>2. emit' = <<>> /\ frames' = {}
  BY DEF Fail, Q!Fail
<1>3. key \in Nat /\ QP!Front \in Nat
  BY Zenon DEF Emission, Stream
<1>4. Stream(gop.intra_period, <<>>, {}, QP!Front, key, y, QP!Front, y)
  BY <1>3, StreamOfNone, Zenon
<1>5. Emission(key, y, QP!Front, y)'
  BY <1>1, <1>2, <1>4, Zenon DEF Emission
<1>6. Anchored(key, y)'
  BY <1>1, Zenon DEF Anchored
<1>. QED
  BY <1>5, <1>6

\* The pictures a release decided and the emit loop has not coded yet.
EmissionInv == \E key, x, due, y : Emission(key, x, due, y) /\ Anchored(key, y)

LEMMA InitEmits == Init => EmissionInv
<1>. SUFFICES ASSUME Init PROVE EmissionInv
  OBVIOUS
<1>. DEFINE zero == 0
<1>1. emit = <<>> /\ frames = {} /\ ra_input = <<>> /\ ra_display_next = 0 /\ delayed_intra = None
  BY DEF Init, Q!Init
<1>2. QP!Base = zero /\ QP!Front = zero
  <2>0. Len(ra_input) = 0
    BY <1>1, EmptySeq
  <2>1. QP!Base = ra_display_next - Len(ra_input)
    BY DEF QP!Base
  <2>2. QP!Base = zero
    BY <1>1, <2>0, <2>1
  <2>. QED
    BY <1>1, <2>2 DEF QP!Front
<1>3. zero \in Nat
  OBVIOUS
<1>. HIDE DEF zero
<1>4. Stream(gop.intra_period, <<>>, {}, zero, zero, dpb, zero, dpb)
  BY <1>3, StreamOfNone, Zenon
<1>5. Emission(zero, dpb, zero, dpb)
  BY <1>1, <1>2, <1>4, Zenon DEF Emission
<1>6. Anchored(zero, dpb)
  BY <1>2, Zenon DEF Anchored, zero
<1>. QED
  BY <1>5, <1>6, Zenon DEF EmissionInv

LEMMA StepEmits ==
  QP!IInv /\ QueueInv /\ DecisionInv /\ EmissionInv /\ [Next]_vars => EmissionInv'
<1>. SUFFICES ASSUME QP!IInv, QueueInv, DecisionInv, EmissionInv, [Next]_vars
              PROVE  EmissionInv'
  OBVIOUS
<1>1. CASE \E m \in 1..Len(ra_input), key_member \in BOOLEAN : ReleaseWindow(m, key_member)
  BY <1>1, ReleaseEmits, Zenon DEF EmissionInv
<1>2. CASE ~\E m \in 1..Len(ra_input), key_member \in BOOLEAN : ReleaseWindow(m, key_member)
  <2>1. SameFront /\ pd_ctx' = pd_ctx
    BY <1>2, OtherSteps
  <2>2. PICK key, x, due, y : Emission(key, x, due, y) /\ Anchored(key, y)
    BY Zenon DEF EmissionInv
  <2>3. CASE UNCHANGED <<emit, frames>>
    <3>1. Emission(key, x, due, y)' /\ Anchored(key, y)'
      BY <2>1, <2>2, <2>3, QuietEmits, Zenon
    <3>. QED
      BY <3>1, Zenon DEF EmissionInv
  <2>4. CASE CodeNext
    <3>1. CodesFirst(key, x, due, y)
      BY <2>1, <2>2, <2>4, NextEmits, Zenon
    <3>. QED
      BY <3>1, Zenon DEF CodesFirst, EmissionInv
  <2>5. CASE Fail
    <3>1. Emission(key, y, QP!Front, y)' /\ Anchored(key, y)'
      BY <2>1, <2>2, <2>5, FailEmits, Zenon
    <3>2. QP!Front' = QP!Front
      BY <2>1, FrontStays
    <3>. QED
      BY <3>1, <3>2, Zenon DEF EmissionInv
  <2>6. UNCHANGED <<emit, frames>> \/ CodeNext \/ Fail
    <3>1. CASE Submit
      BY <3>1 DEF Submit, Q!TryEncodeFrame
    <3>2. CASE Flush
      BY <3>2 DEF Flush, Q!TryFlush
    <3>3. CASE CodeHeldKey
      BY <3>3 DEF CodeHeldKey, Q!EncodeDelayedIntra
    <3>4. CASE Return
      BY <3>4 DEF Return, Q!Return
    <3>5. CASE UNCHANGED vars
      BY <3>5 DEF vars, Q!queueVars, codingVars
    <3>. QED
      BY <1>2, <3>1, <3>2, <3>3, <3>4, <3>5 DEF Next, InCall
  <2>. QED
    BY <2>3, <2>4, <2>5, <2>6
<1>. QED
  BY <1>1, <1>2

THEOREM EmissionHolds == Spec => []EmissionInv
BY InitEmits, StepEmits, DecisionsKeepUp, QueueInvariant, PTL DEF Spec

\* A picture still to be coded is one of a chain.
LEMMA EmittedLinks ==
  ASSUME EmissionInv, NEW i \in 1..Len(emit)
  PROVE  /\ emit[i].key \/ Brackets(emit[i])
         /\ ~emit[i].key => \A r \in 1..7 :
              emit[i].ref_pocs[r] >= LastKey(gop.intra_period, emit[i].poc)
<1>1. PICK key, x, due, y : Emission(key, x, due, y)
  BY Zenon DEF EmissionInv
<1>2. /\ key \in Nat /\ Chain(key, x, due, emit, y, QP!Front)
      /\ \A j \in 1..Len(emit) : ~emit[j].key => LastKey(gop.intra_period, emit[j].poc) = key
  BY <1>1, Zenon DEF Emission, Stream
<1>3. \E d, e, m, n : Links(key, emit[i], d, m, e, n)
  BY <1>2, Zenon DEF Chain
<1>. DEFINE pic == emit[i]
<1>. HIDE DEF pic
<1>4. ~pic.key => Brackets(pic) /\ \A r \in 1..7 : key <= pic.ref_pocs[r]
  BY <1>3, Zenon DEF Links, pic
<1>5. \A r \in 1..7 : key <= pic.ref_pocs[r] => pic.ref_pocs[r] >= key
  OBVIOUS
<1>. QED
  BY <1>2, <1>4, <1>5, Zenon DEF pic

\* The emit order has every picture of the release once (ra.rs:594-596).
THEOREM EmitOrderComplete == Spec => []EmitsEachOnce
<1>1. EmissionInv => EmitsEachOnce
  <2>. SUFFICES ASSUME EmissionInv PROVE EmitsEachOnce
    OBVIOUS
  <2>1. Lists(emit, frames)
    BY Zenon DEF EmissionInv, Emission, Stream
  <2>2. frames = {emit[i].poc : i \in 1..Len(emit)}
    BY <2>1, Zenon DEF Lists
  <2>3. Len(emit) = Cardinality(frames)
    BY <2>1, ListsCount, Zenon
  <2>. QED
    BY <2>2, <2>3, Zenon DEF EmitsEachOnce
<1>. QED
  BY <1>1, EmissionHolds, PTL

\* A B picture of a complete mini-GOP has a past LAST and a future BWDREF, any other
\* inter picture only past references.
THEOREM ReferencesBracket == Spec => []RefsBracket
<1>1. EmissionInv => RefsBracket
  BY EmittedLinks, Zenon DEF RefsBracket, Brackets
<1>. QED
  BY <1>1, EmissionHolds, PTL

\* No reference reaches across a key frame.
THEOREM KeyFramesCutReferences == Spec => []NoRefAcrossKey
<1>1. EmissionInv => NoRefAcrossKey
  BY EmittedLinks, Zenon DEF NoRefAcrossKey, LastKey
<1>. QED
  BY <1>1, EmissionHolds, PTL

-----------------------------------------------------------------------------
(* The decoder and the encoder's own buffer.                               *)

\* The decoder that has read the bytes of the call in progress.
Receiver == IF call = "idle" THEN dec ELSE Decode(dec, obus)

\* A failed call has lost a picture that is not in front of key.
Excused(key) == \E q \in lost : q >= key

\* The decoder and the encoder's buffer are where the picture to code next, or the
\* held key frame in front of it, finds them, or a call has failed since the key frame.
Synced(key, x, due) ==
  IF delayed_intra_out = None
    THEN /\ (Receiver.slots = dpb /\ dpb = x) \/ Excused(key)
         /\ lost = {} => Tracks(Receiver, due)
    ELSE /\ x = [s \in Slots |-> delayed_intra_out]
         /\ due = delayed_intra_out + 1 /\ key = delayed_intra_out
         /\ lost = {} => Tracks(Receiver, delayed_intra_out)

\* Only the pictures behind a failed call and in front of the next key frame are damaged.
Intact(d) == \A p \in d.damaged : Excused(LastKey(gop.intra_period, p))

Decoders ==
  /\ IsDecoder(dec) /\ IsDecoder(Receiver)
  /\ \E S : obus \in Seq(S)
  /\ Intact(dec) /\ Intact(Receiver)
  /\ lost = {} => \E due : Tracks(dec, due)

\* A flush that returns has drained the queue.
Drained ==
  /\ flushed /\ call = "idle" /\ lost = {} => ra_input = <<>> /\ delayed_intra = None
  /\ call = "push" => ~flushed

CodingInv ==
  /\ Decoders /\ Drained
  /\ \E key, x, due, y : Emission(key, x, due, y) /\ Anchored(key, y) /\ Synced(key, x, due)

LEMMA DecodersStay ==
  ASSUME Decoders, dec' = dec, Receiver' = Receiver, lost' = lost, gop' = gop,
         \E S : obus' \in Seq(S)
  PROVE  Decoders'
BY Zenon DEF Decoders, Intact, Excused

LEMMA SyncStays ==
  ASSUME NEW key, NEW x, NEW due, Synced(key, x, due),
         Receiver' = Receiver, lost' = lost, dpb' = dpb, delayed_intra_out' = delayed_intra_out
  PROVE  Synced(key, x, due)'
BY Zenon DEF Synced, Excused

\* Idle, nothing is staged, and no picture waits to be coded.
LEMMA IdleRests ==
  ASSUME QP!IInv, call = "idle"
  PROVE  frames = {} /\ delayed_intra_out = None
BY Zenon DEF QP!IInv, QP!Settled, QP!NothingPending

LEMMA PendingCalls ==
  ASSUME QP!IInv, frames # {} \/ delayed_intra_out # None
  PROVE  call # "idle"
BY Zenon DEF QP!IInv, QP!Settled, QP!NothingPending

-----------------------------------------------------------------------------

\* A call starts with no bytes.
LEMMA CallStarts ==
  ASSUME QP!IInv, QueueInv, CodingInv, Submit \/ Flush
  PROVE  CodingInv'
<1>1. /\ call = "idle" /\ call' # "idle" /\ obus' = <<>>
      /\ UNCHANGED <<gop, pd_ctx, emit, dpb, dec, frames, lost, delayed_intra_out>>
      /\ call' = "push" => ~flushed /\ flushed' = flushed
  <2>1. CASE Submit
    BY <2>1 DEF Submit, Q!TryEncodeFrame
  <2>2. CASE Flush
    BY <2>2 DEF Flush, Q!TryFlush
  <2>. QED
    BY <2>1, <2>2
<1>2. SameFront
  <2>1. CASE Submit
    <3>1. Q!TryEncodeFrame
      BY <2>1 DEF Submit
    <3>. QED
      BY <3>1, SubmitKeepsFront
  <2>2. CASE Flush
    <3>1. Q!TryFlush
      BY <2>2 DEF Flush
    <3>. QED
      BY <3>1, FlushKeepsFront
  <2>. QED
    BY <2>1, <2>2
<1>3. Receiver' = Receiver
  <2>1. Receiver = dec
    BY <1>1 DEF Receiver
  <2>2. Receiver' = Decode(dec', obus')
    BY <1>1 DEF Receiver
  <2>3. Decode(dec, <<>>) = dec
    BY DecodeNothing
  <2>. QED
    BY <1>1, <2>1, <2>2, <2>3
<1>4. \E S : obus' \in Seq(S)
  <2>1. obus' \in Seq({})
    BY <1>1
  <2>. QED
    BY <2>1, Zenon
<1>5. Decoders'
  BY <1>1, <1>3, <1>4, DecodersStay, Zenon DEF CodingInv
<1>6. Drained'
  BY <1>1 DEF Drained
<1>7. PICK key, x, due, y : Emission(key, x, due, y) /\ Anchored(key, y) /\ Synced(key, x, due)
  BY Zenon DEF CodingInv
<1>8. Emission(key, x, due, y)' /\ Anchored(key, y)'
  BY <1>1, <1>2, <1>7, QuietEmits, Zenon
<1>9. Synced(key, x, due)'
  BY <1>1, <1>3, <1>7, SyncStays, Zenon
<1>. QED
  BY <1>5, <1>6, <1>8, <1>9, Zenon DEF CodingInv

LEMMA CallReturns ==
  ASSUME QP!IInv, QueueInv, CodingInv, Return
  PROVE  CodingInv'
<1>1. /\ call # "idle" /\ call' = "idle" /\ dec' = Decode(dec, obus)
      /\ UNCHANGED <<gop, pd_ctx, emit, dpb, obus, frames, lost, delayed_intra_out,
                     ra_input, ra_display_next, delayed_intra, flushed>>
      /\ frames = {} /\ delayed_intra_out = None
      /\ call = "push" \/ (ra_input = <<>> /\ delayed_intra = None)
  BY DEF Return, Q!Return, Q!NothingPending
<1>2. SameFront
  BY <1>1, QueueKeepsFront
<1>3. Receiver' = Receiver /\ dec' = Receiver
  BY <1>1 DEF Receiver
<1>4. PICK key, x, due, y : Emission(key, x, due, y) /\ Anchored(key, y) /\ Synced(key, x, due)
  BY Zenon DEF CodingInv
<1>5. Decoders'
  <2>1. lost = {} => \E n : Tracks(Receiver, n)
    BY <1>1, <1>4, Zenon DEF Synced
  <2>. QED
    BY <1>1, <1>3, <2>1, Zenon DEF CodingInv, Decoders, Intact, Excused
<1>6. Drained'
  <2>1. call = "push" => ~flushed
    BY Zenon DEF CodingInv, Drained
  <2>. QED
    BY <1>1, <2>1 DEF Drained
<1>7. Emission(key, x, due, y)' /\ Anchored(key, y)'
  BY <1>1, <1>2, <1>4, QuietEmits, Zenon
<1>8. Synced(key, x, due)'
  BY <1>1, <1>3, <1>4, SyncStays, Zenon
<1>. QED
  BY <1>5, <1>6, <1>7, <1>8, Zenon DEF CodingInv

-----------------------------------------------------------------------------

\* No picture was lost before the first release.
LEMMA NothingLostYet ==
  ASSUME QP!IInv, QP!Base = 0
  PROVE  lost = {} /\ delayed_intra = None
<1>1. /\ delivered \cup lost \cup out \cup QP!Staged \cup frames = 0..(QP!Front - 1)
      /\ delayed_intra # None => QP!Base > 0
  BY Zenon DEF QP!IInv, QP!Conserved, QP!QueueContiguous
<1>2. delayed_intra = None
  BY <1>1
<1>3. QP!Front = 0
  BY <1>2 DEF QP!Front
<1>4. 0..(QP!Front - 1) = {}
  BY <1>3
<1>. QED
  BY <1>1, <1>2, <1>4

\* A release with nothing pending: the pictures decided before are all coded.
LEMMA WindowOpens ==
  ASSUME QP!IInv, QueueInv, DecisionInv, CodingInv,
         NEW m \in 1..Len(ra_input), NEW key_member \in BOOLEAN, ReleaseWindow(m, key_member)
  PROVE  CodingInv'
<1>1. /\ frames = {} /\ delayed_intra_out = None /\ delayed_intra_out' = delayed_intra
      /\ UNCHANGED <<gop, call, dpb, obus, dec, lost, flushed>> /\ call # "idle"
  BY DEF ReleaseWindow, Q!EncodeRaWindow, Q!NothingPending
<1>2. Receiver' = Receiver
  BY <1>1 DEF Receiver
<1>3. Decoders'
  <2>1. Decoders /\ \E S : obus \in Seq(S)
    BY Zenon DEF CodingInv, Decoders
  <2>. QED
    BY <1>1, <1>2, <2>1, DecodersStay, Zenon
<1>4. Drained'
  BY <1>1 DEF CodingInv, Drained
<1>5. PICK k, z, n, y : Emission(k, z, n, y) /\ Anchored(k, y) /\ Synced(k, z, n)
  BY Zenon DEF CodingInv
<1>6. z = y /\ n = QP!Front
  <2>1. Stream(gop.intra_period, emit, {}, QP!Front, k, z, n, y)
    BY <1>1, <1>5, Zenon DEF Emission
  <2>. QED
    BY <2>1, StreamEnds, Zenon
<1>7. /\ (Receiver.slots = dpb /\ dpb = z) \/ Excused(k)
      /\ lost = {} => Tracks(Receiver, n)
  BY <1>1, <1>5, Zenon DEF Synced
<1>8. PICK key, x, due, v :
        Emission(key, x, due, v)' /\ Anchored(key, v)' /\ ReleaseStarts(key, x, due)
  BY ReleaseEmits, Zenon
<1>9. QP!Base \in Nat /\ gop.intra_period \in Nat /\ gop.intra_period >= 2
  <2>1. gop \in GopConfigs /\ ra_input \in Seq(QP!BufferedFrame) /\ ra_display_next \in Nat
        /\ Len(ra_input) <= ra_display_next
    BY Zenon DEF QP!IInv, QP!TypeOK, QP!Conserved, QP!QueueContiguous
  <2>2. QP!Base \in Nat
    BY <2>1 DEF QP!Base
  <2>. QED
    BY <2>1, <2>2, GopBounds, Zenon
<1>10. Synced(key, x, due)'
  <2>1. CASE QP!Base = 0
    <3>1. lost = {} /\ delayed_intra = None
      BY <2>1, NothingLostYet
    <3>2. ~Excused(k)
      BY <3>1 DEF Excused
    <3>3. key = 0 /\ x = dpb /\ due = 0
      BY <1>8, <2>1, Zenon DEF ReleaseStarts
    <3>4. n = due
      BY <1>6, <2>1, <3>1, <3>3 DEF QP!Front
    <3>5. Receiver.slots = dpb /\ dpb = x /\ Tracks(Receiver, due)
      BY <1>7, <3>1, <3>2, <3>3, <3>4, Zenon
    <3>6. delayed_intra_out' = None
      BY <1>1, <3>1
    <3>. QED
      BY <1>1, <1>2, <3>5, <3>6, Zenon DEF Synced
  <2>2. CASE QP!Base # 0 /\ delayed_intra = None
    <3>1. key = LastKey(gop.intra_period, QP!Base - 1) /\ x = pd_ctx.dpb /\ due = QP!Base
      BY <1>8, <2>2, Zenon DEF ReleaseStarts
    <3>2. QP!Front = QP!Base
      BY <2>2 DEF QP!Front
    <3>3. y = pd_ctx.dpb
      BY <1>5, <2>2, Zenon DEF Anchored
    <3>4. ~Closed
      <4>1. ra_input # <<>>
        <5>1. ra_input \in Seq(QP!BufferedFrame)
          BY Zenon DEF QP!IInv, QP!TypeOK
        <5>2. Len(ra_input) # 0
          BY <5>1
        <5>. QED
          BY <5>2, EmptySeq
      <4>. QED
        BY <4>1 DEF Closed
    <3>5. k = LastKey(gop.intra_period, QP!Front - 1)
      BY <1>5, <2>2, <3>2, <3>4, Zenon DEF Anchored
    <3>6. k = key /\ n = due /\ z = x
      BY <1>6, <3>1, <3>2, <3>3, <3>5, Zenon
    <3>7. /\ (Receiver.slots = dpb /\ dpb = x) \/ Excused(key)
          /\ lost = {} => Tracks(Receiver, due)
      BY <1>7, <3>6, Zenon
    <3>8. delayed_intra_out' = None
      BY <1>1, <2>2
    <3>. QED
      BY <1>1, <1>2, <3>7, <3>8, Zenon DEF Synced, Excused
  <2>3. CASE QP!Base # 0 /\ delayed_intra # None
    <3>. DEFINE held == delayed_intra
                period == gop.intra_period
    <3>1. held \in Nat /\ held = QP!Base - 1
      <4>1. /\ delayed_intra \in Nat \cup {None}
            /\ delayed_intra # None => delayed_intra = QP!Base - 1
        BY Zenon DEF QP!IInv, QP!TypeOK, QP!Conserved, QP!QueueContiguous
      <4>. QED
        BY <2>3, <4>1
    <3>2. held % period = 0 /\ pd_ctx.dpb = [s \in Slots |-> held]
      BY <2>3, Zenon DEF DecisionInv
    <3>3. key = LastKey(period, QP!Base - 1) /\ x = pd_ctx.dpb /\ due = QP!Base
      BY <1>8, <2>3, Zenon DEF ReleaseStarts
    <3>4. QP!Front = QP!Base - 1
      BY <2>3 DEF QP!Front
    <3>. HIDE DEF held, period
    <3>5. key = held
      <4>1. key = LastKey(period, held)
        BY <3>1, <3>3, Zenon
      <4>2. period \in Nat /\ period >= 2
        BY <1>9 DEF period
      <4>. QED
        BY ONLY <3>1, <3>2, <4>1, <4>2 DEF LastKey
    <3>6. due = held + 1
      BY ONLY <1>9, <3>1, <3>3
    <3>7. n = held
      BY <1>6, <3>1, <3>4, Zenon
    <3>8. lost = {} => Tracks(Receiver, held)
      BY <1>7, <3>7, Zenon
    <3>9. delayed_intra_out' = held /\ held # None
      BY <1>1, <2>3 DEF held
    <3>10. x = [s \in Slots |-> held]
      BY <3>2, <3>3, Zenon
    <3>11. lost' = lost /\ Receiver' = Receiver
      BY <1>1, <1>2
    <3>. QED
      BY <3>5, <3>6, <3>8, <3>9, <3>10, <3>11, Zenon DEF Synced
  <2>. QED
    BY <2>1, <2>2, <2>3
<1>. QED
  BY <1>3, <1>4, <1>8, <1>10, Zenon DEF CodingInv

\* What a coded picture does to both decoders.
LEMMA DecodersRead ==
  ASSUME QP!IInv, Decoders, call # "idle",
         UNCHANGED <<gop, call, dec, lost>>, NEW pic, Decodes(dec, obus, pic, obus'),
         NEW key, NEW x, NEW due, NEW x1, NEW due1, Links(key, pic, x, due, x1, due1),
         Receiver.slots = x \/ pic.key \/ Excused(LastKey(gop.intra_period, pic.poc))
  PROVE  Decoders' /\ Follows(pic, Receiver, x, due, Receiver', x1, due1)
<1>1. Receiver = Decode(dec, obus) /\ Receiver' = Decode(dec', obus')
  BY DEF Receiver
<1>2. Receiver' = AfterPicture(Receiver, pic) /\ \E S : obus' \in Seq(S)
  BY <1>1, Zenon DEF Decodes
<1>3. IsDecoder(Receiver)
  BY Zenon DEF Decoders
<1>. DEFINE d == Receiver
            r == Receiver'
<1>4. Follows(pic, d, x, due, r, x1, due1)
  <2>1. Follows(pic, d, x, due, AfterPicture(d, pic), x1, due1)
    BY <1>3, PictureFollows, Zenon
  <2>. QED
    BY <1>2, <2>1, Zenon
<1>5. IsDecoder(r) /\ r.damaged \subseteq d.damaged \cup {pic.poc}
      /\ (d.slots = x \/ pic.key => r.damaged = d.damaged)
  BY <1>4, Zenon DEF Follows
<1>6. Intact(dec) /\ Intact(d)
  BY Zenon DEF Decoders
<1>7. \A p \in r.damaged : Excused(LastKey(gop.intra_period, p))
  <2>1. \A p \in d.damaged : Excused(LastKey(gop.intra_period, p))
    BY <1>6, Zenon DEF Intact
  <2>. HIDE DEF r, d
  <2>2. CASE d.slots = x \/ pic.key
    BY <1>5, <2>1, <2>2, Zenon
  <2>3. CASE ~(d.slots = x \/ pic.key)
    <3>1. Excused(LastKey(gop.intra_period, pic.poc))
      BY <2>3, Zenon DEF d
    <3>. QED
      BY <1>5, <2>1, <3>1
  <2>. QED
    BY <2>2, <2>3
<1>8. Intact(Receiver)' /\ Intact(dec)'
  <2>1. gop' = gop /\ lost' = lost /\ dec' = dec
    OBVIOUS
  <2>. QED
    BY <1>6, <1>7, <2>1, Zenon DEF Intact, Excused
<1>9. Decoders'
  BY <1>2, <1>5, <1>8, Zenon DEF Decoders
<1>. QED
  BY <1>4, <1>9

-----------------------------------------------------------------------------

LEMMA HeldKeyCodes ==
  ASSUME QP!IInv, QueueInv, CodingInv, CodeHeldKey
  PROVE  CodingInv'
<1>. DEFINE k == delayed_intra_out
            pic == KeyPicture(k)
            all == [s \in Slots |-> k]
            next == k + 1
<1>1. /\ k # None /\ delayed_intra_out' = None
      /\ obus' = obus \o <<TD, Frame(pic)>> /\ dpb' = RefreshDpb(pic)
      /\ UNCHANGED <<gop, pd_ctx, emit, dec, frames, lost, ra_input, ra_display_next,
                     delayed_intra, flushed, call>>
  BY DEF CodeHeldKey, Q!EncodeDelayedIntra
<1>2. k \in Nat
  <2>1. delayed_intra_out \in Nat \cup {None}
    BY Zenon DEF QP!IInv, QP!TypeOK
  <2>. QED
    BY <1>1, <2>1
<1>3. call # "idle"
  BY <1>1, PendingCalls
<1>4. SameFront
  BY <1>1, QueueKeepsFront
<1>5. /\ pic.poc = k /\ pic.key /\ pic.refresh = Slots
      /\ \A first, d : Links(first, pic, d, k, all, next)
  BY <1>2, KeyPictureLinks, Zenon
<1>6. PICK key, x, due, y : Emission(key, x, due, y) /\ Anchored(key, y) /\ Synced(key, x, due)
  BY Zenon DEF CodingInv
<1>7. Decodes(dec, obus, pic, obus')
  <2>1. \E S : obus \in Seq(S)
    BY Zenon DEF CodingInv, Decoders
  <2>2. Decodes(dec, obus, KeyPicture(k), KeyUnit(obus, KeyPicture(k)))
    BY <1>2, <2>1, KeyDecodes, Zenon
  <2>. QED
    BY <1>1, <2>2, Zenon DEF KeyUnit
<1>. HIDE DEF pic, k, all, next
<1>8. Decoders' /\ Follows(pic, Receiver, Receiver.slots, k, Receiver', all, next)
  <2>1. Links(key, pic, Receiver.slots, k, all, next)
    BY <1>5, Zenon
  <2>2. Decoders /\ pic.key
    BY <1>5, Zenon DEF CodingInv
  <2>3. UNCHANGED <<gop, call, dec, lost>>
    BY <1>1
  <2>. QED
    BY <1>3, <1>7, <2>1, <2>2, <2>3, DecodersRead, Zenon
<1>9. /\ Receiver'.slots = all
      /\ Tracks(Receiver, k) => Tracks(Receiver', next)
  BY <1>5, <1>8, Zenon DEF Follows
<1>10. dpb' = all
  <2>1. dpb' = [s \in Slots |-> IF s \in pic.refresh THEN pic.poc ELSE dpb[s]]
    BY <1>1, Zenon DEF RefreshDpb
  <2>. QED
    BY <1>5, <2>1 DEF all
<1>11. x = all /\ due = next /\ (lost = {} => Tracks(Receiver, k))
  BY <1>1, <1>6, Zenon DEF Synced, k, all, next
<1>12. Synced(key, x, due)'
  <2>1. lost' = {} => Tracks(Receiver', due)
    BY <1>1, <1>9, <1>11, Zenon
  <2>2. Receiver'.slots = dpb' /\ dpb' = x
    BY <1>9, <1>10, <1>11, Zenon
  <2>. QED
    BY <1>1, <2>1, <2>2, Zenon DEF Synced
<1>13. Drained'
  BY <1>1, <1>3 DEF CodingInv, Drained
<1>14. Emission(key, x, due, y)' /\ Anchored(key, y)'
  <2>1. UNCHANGED <<emit, frames, pd_ctx>>
    BY <1>1
  <2>. QED
    BY <1>4, <1>6, <2>1, QuietEmits, Zenon
<1>. QED
  BY <1>8, <1>12, <1>13, <1>14, Zenon DEF CodingInv

LEMMA NextCodes ==
  ASSUME QP!IInv, QueueInv, CodingInv, CodeNext
  PROVE  CodingInv'
<1>. DEFINE pic == Head(emit)
            period == gop.intra_period
<1>1. /\ emit # <<>> /\ delayed_intra_out = None /\ delayed_intra_out' = None
      /\ obus' = PictureUnits(obus, tu_open, pic) /\ dpb' = RefreshDpb(pic)
      /\ pic.poc \in frames
      /\ UNCHANGED <<gop, pd_ctx, dec, lost, ra_input, ra_display_next,
                     delayed_intra, flushed, call>>
  BY DEF CodeNext, Q!EncodeMember, PictureUnits
<1>2. call # "idle"
  BY <1>1, PendingCalls
<1>3. SameFront
  BY <1>1, QueueKeepsFront
<1>4. PICK key, x, due, y : Emission(key, x, due, y) /\ Anchored(key, y) /\ Synced(key, x, due)
  BY Zenon DEF CodingInv
<1>5. PICK x1, due1 :
        /\ Links(key, pic, x, due, x1, due1)
        /\ Emission(key, x1, due1, y)' /\ Anchored(key, y)'
  <2>1. pd_ctx' = pd_ctx
    BY <1>1
  <2>2. CodesFirst(key, x, due, y)
    BY <1>3, <1>4, <2>1, NextEmits, Zenon
  <2>. QED
    BY <2>2, Zenon DEF CodesFirst
<1>6. /\ (Receiver.slots = dpb /\ dpb = x) \/ Excused(key)
      /\ lost = {} => Tracks(Receiver, due)
  BY <1>1, <1>4, Zenon DEF Synced
<1>7. ~pic.key => LastKey(period, pic.poc) = key
  <2>1. \A i \in 1..Len(emit) : ~emit[i].key => LastKey(period, emit[i].poc) = key
    BY <1>4, Zenon DEF Emission, Stream
  <2>2. \E S : emit \in Seq(S)
    BY <1>4, Zenon DEF Emission, Stream, Lists
  <2>3. 1 \in 1..Len(emit) /\ pic = emit[1]
    BY <1>1, <2>2
  <2>. QED
    BY <2>1, <2>3, Zenon
<1>8. Decodes(dec, obus, pic, obus')
  <2>1. \E S : obus \in Seq(S)
    BY Zenon DEF CodingInv, Decoders
  <2>. QED
    BY <1>1, <2>1, PictureDecodes, Zenon
<1>. HIDE DEF pic, period
<1>9. Decoders' /\ Follows(pic, Receiver, x, due, Receiver', x1, due1)
  <2>1. Receiver.slots = x \/ pic.key \/ Excused(LastKey(gop.intra_period, pic.poc))
    BY <1>6, <1>7, Zenon DEF period
  <2>2. Decoders
    BY Zenon DEF CodingInv
  <2>3. UNCHANGED <<gop, call, dec, lost>>
    BY <1>1
  <2>. QED
    BY <1>2, <1>5, <1>8, <2>1, <2>2, <2>3, DecodersRead, Zenon
<1>10. /\ Receiver.slots = x => Receiver'.slots = x1
       /\ Receiver.slots = x /\ Tracks(Receiver, due) => Tracks(Receiver', due1)
  BY <1>9, Zenon DEF Follows
<1>11. dpb = x => dpb' = x1
  <2>1. dpb' = [s \in Slots |-> IF s \in pic.refresh THEN pic.poc ELSE dpb[s]]
    BY <1>1, Zenon DEF RefreshDpb
  <2>2. x1 = [s \in Slots |-> IF s \in pic.refresh THEN pic.poc ELSE x[s]]
    BY <1>5, Zenon DEF Links
  <2>. QED
    BY <2>1, <2>2
<1>12. Synced(key, x1, due1)'
  <2>1. lost' = {} => Tracks(Receiver', due1)
    <3>. SUFFICES ASSUME lost' = {} PROVE Tracks(Receiver', due1)
      OBVIOUS
    <3>1. lost = {}
      BY <1>1
    <3>2. ~Excused(key)
      BY <3>1 DEF Excused
    <3>. QED
      BY <1>6, <1>10, <3>1, <3>2, Zenon
  <2>2. (Receiver'.slots = dpb' /\ dpb' = x1) \/ Excused(key)'
    <3>1. Excused(key) => Excused(key)'
      BY <1>1 DEF Excused
    <3>. QED
      BY <1>6, <1>10, <1>11, <3>1, Zenon
  <2>. QED
    BY <1>1, <2>1, <2>2, Zenon DEF Synced
<1>13. Drained'
  BY <1>1, <1>2 DEF CodingInv, Drained
<1>. QED
  BY <1>5, <1>9, <1>12, <1>13, Zenon DEF CodingInv

LEMMA CallFails ==
  ASSUME QP!IInv, QueueInv, CodingInv, Fail
  PROVE  CodingInv'
<1>1. /\ frames # {} \/ delayed_intra_out # None
      /\ call' = "idle" /\ obus' = <<>> /\ delayed_intra_out' = None
      /\ lost' = lost \cup out \cup frames \cup ({delayed_intra_out} \ {None})
      /\ UNCHANGED <<gop, pd_ctx, dec, ra_input, ra_display_next, delayed_intra, flushed>>
  BY DEF Fail, Q!Fail, Q!NothingPending
<1>2. SameFront
  BY <1>1, QueueKeepsFront
<1>3. PICK key, x, due, y : Emission(key, x, due, y) /\ Anchored(key, y) /\ Synced(key, x, due)
  BY Zenon DEF CodingInv
<1>4. Emission(key, y, QP!Front, y)' /\ Anchored(key, y)'
  <2>1. pd_ctx' = pd_ctx
    BY <1>1
  <2>. QED
    BY <1>2, <1>3, <2>1, FailEmits, Zenon
<1>5. \E q \in lost' : q >= key
  <2>0. key \in Nat
    BY <1>3, Zenon DEF Emission, Stream
  <2>1. CASE frames # {}
    <3>1. \A p \in frames : p \in Nat /\ key <= p
      BY <1>3, Zenon DEF Emission, Stream
    <3>2. PICK p \in frames : TRUE
      BY <2>1
    <3>3. p >= key
      BY <2>0, <3>1
    <3>. QED
      BY <1>1, <3>3
  <2>2. CASE delayed_intra_out # None
    <3>1. key = delayed_intra_out
      BY <1>3, <2>2, Zenon DEF Synced
    <3>2. delayed_intra_out \in lost' /\ key >= key
      BY <1>1, <2>0, <2>2
    <3>. QED
      BY <3>1, <3>2
  <2>. QED
    BY <1>1, <2>1, <2>2
<1>6. Receiver' = dec
  BY <1>1 DEF Receiver
<1>8. lost' # {} /\ \A k : Excused(k) => Excused(k)'
  <2>1. lost' # {}
    BY <1>5
  <2>2. lost \subseteq lost'
    BY <1>1
  <2>3. ASSUME NEW k, Excused(k)
        PROVE  Excused(k)'
    BY <2>2, <2>3 DEF Excused
  <2>. QED
    BY <2>1, <2>3
<1>9. Synced(key, y, QP!Front)'
  BY <1>1, <1>5, <1>8, Zenon DEF Synced, Excused
<1>10. Decoders'
  <2>1. IsDecoder(dec) /\ Intact(dec)
    BY Zenon DEF CodingInv, Decoders
  <2>2. \E S : obus' \in Seq(S)
    <3>1. obus' \in Seq({})
      BY <1>1
    <3>. QED
      BY <3>1, Zenon
  <2>3. Intact(dec)'
    BY <1>1, <1>8, <2>1, Zenon DEF Intact
  <2>4. Intact(Receiver)'
    BY <1>1, <1>6, <2>3, Zenon DEF Intact
  <2>. QED
    BY <1>1, <1>6, <1>8, <2>1, <2>2, <2>3, <2>4, Zenon DEF Decoders
<1>11. Drained'
  BY <1>1, <1>8 DEF Drained
<1>. QED
  BY <1>4, <1>9, <1>10, <1>11, Zenon DEF CodingInv

-----------------------------------------------------------------------------

LEMMA InitCodes == Init => CodingInv
<1>. SUFFICES ASSUME Init PROVE CodingInv
  OBVIOUS
<1>. DEFINE zero == 0
<1>1. /\ emit = <<>> /\ frames = {} /\ ra_input = <<>> /\ ra_display_next = 0
      /\ delayed_intra = None /\ delayed_intra_out = None /\ call = "idle"
      /\ flushed = FALSE /\ obus = <<>> /\ dpb = [s \in Slots |-> Empty] /\ dec = InitDecoder
  BY DEF Init, Q!Init
<1>2. Receiver = dec
  BY <1>1 DEF Receiver
<1>3. /\ dec.slots = dpb /\ dec.shown = <<>> /\ dec.damaged = {}
      /\ dec = [slots |-> dec.slots, shown |-> dec.shown, damaged |-> dec.damaged]
  <2>. DEFINE slots == [s \in 0..7 |-> Empty]
              shown == <<>>
              damaged == {}
  <2>1. dec = [slots |-> slots, shown |-> shown, damaged |-> damaged] /\ slots = dpb
    BY <1>1 DEF InitDecoder, Slots
  <2>. HIDE DEF slots, shown, damaged
  <2>2. dec.slots = slots /\ dec.shown = shown /\ dec.damaged = damaged
    BY ONLY <2>1
  <2>3. dec = [slots |-> dec.slots, shown |-> dec.shown, damaged |-> dec.damaged]
    BY <2>1, <2>2, Zenon
  <2>4. shown = <<>> /\ damaged = {}
    BY DEF shown, damaged
  <2>. QED
    BY <2>1, <2>2, <2>3, <2>4, Zenon
<1>4. Len(dec.shown) = zero /\ 1..Len(dec.shown) = {} /\ dec.shown \in Seq({})
  BY <1>3
<1>5. IsDecoder(dec)
  BY <1>3, <1>4, Zenon DEF IsDecoder
<1>6. Tracks(dec, zero)
  <2>1. Len(dec.shown) = zero /\ \A i \in 1..Len(dec.shown) : dec.shown[i] = i - 1
    BY <1>4
  <2>. QED
    BY <2>1, Zenon DEF Tracks
<1>7. Intact(dec)
  BY <1>3 DEF Intact
<1>8. Decoders
  <2>1. obus \in Seq({})
    BY <1>1
  <2>. QED
    BY <1>2, <1>5, <1>6, <1>7, <2>1, Zenon DEF Decoders
<1>9. QP!Base = zero /\ QP!Front = zero
  <2>0. Len(ra_input) = 0
    BY <1>1, EmptySeq
  <2>1. QP!Base = ra_display_next - Len(ra_input)
    BY DEF QP!Base
  <2>2. QP!Base = zero
    BY <1>1, <2>0, <2>1
  <2>. QED
    BY <1>1, <2>2 DEF QP!Front
<1>10. Drained
  BY <1>1 DEF Drained
<1>11. zero \in Nat
  OBVIOUS
<1>. HIDE DEF zero
<1>12. Emission(zero, dpb, zero, dpb)
  <2>1. Stream(gop.intra_period, <<>>, {}, zero, zero, dpb, zero, dpb)
    BY <1>11, StreamOfNone, Zenon
  <2>. QED
    BY <1>1, <1>9, <2>1, Zenon DEF Emission
<1>13. Anchored(zero, dpb)
  BY <1>9, Zenon DEF Anchored, zero
<1>14. Synced(zero, dpb, zero)
  BY <1>1, <1>2, <1>3, <1>6, Zenon DEF Synced
<1>. QED
  BY <1>8, <1>10, <1>12, <1>13, <1>14, Zenon DEF CodingInv

LEMMA Stutters ==
  ASSUME CodingInv, UNCHANGED vars
  PROVE  CodingInv'
<1>1. UNCHANGED <<gop, ra_input, ra_display_next, delayed_intra, delayed_intra_out, frames,
                  lost, call, flushed, pd_ctx, emit, dpb, obus, dec>>
  BY DEF vars, Q!queueVars, codingVars
<1>2. Receiver' = Receiver
  BY <1>1 DEF Receiver
<1>3. QP!Base' = QP!Base /\ QP!Front' = QP!Front
  BY <1>1 DEF QP!Base, QP!Front
<1>4. Decoders'
  <2>1. Decoders /\ \E S : obus \in Seq(S)
    BY Zenon DEF CodingInv, Decoders
  <2>. QED
    BY <1>1, <1>2, <2>1, DecodersStay, Zenon
<1>5. Drained'
  BY <1>1 DEF CodingInv, Drained
<1>6. PICK key, x, due, y : Emission(key, x, due, y) /\ Anchored(key, y) /\ Synced(key, x, due)
  BY Zenon DEF CodingInv
<1>7. Emission(key, x, due, y)' /\ Anchored(key, y)'
  BY <1>1, <1>3, <1>6, Zenon DEF Emission, Anchored, Closed
<1>8. Synced(key, x, due)'
  BY <1>1, <1>2, <1>6, SyncStays, Zenon
<1>. QED
  BY <1>4, <1>5, <1>7, <1>8, Zenon DEF CodingInv

LEMMA StepCodes ==
  QP!IInv /\ QueueInv /\ DecisionInv /\ CodingInv /\ [Next]_vars => CodingInv'
<1>. SUFFICES ASSUME QP!IInv, QueueInv, DecisionInv, CodingInv, [Next]_vars
              PROVE  CodingInv'
  OBVIOUS
<1>1. CASE Submit \/ Flush
  BY <1>1, CallStarts
<1>2. CASE \E m \in 1..Len(ra_input), key_member \in BOOLEAN : ReleaseWindow(m, key_member)
  BY <1>2, WindowOpens, Zenon
<1>3. CASE CodeHeldKey
  BY <1>3, HeldKeyCodes
<1>4. CASE CodeNext
  BY <1>4, NextCodes
<1>5. CASE Return
  BY <1>5, CallReturns
<1>6. CASE Fail
  BY <1>6, CallFails
<1>7. CASE UNCHANGED vars
  BY <1>7, Stutters
<1>. QED
  BY <1>1, <1>2, <1>3, <1>4, <1>5, <1>6, <1>7 DEF Next, InCall

\* The emit loop, the encoder's buffer and the decoder stay together.
THEOREM CodingHolds == Spec => []CodingInv
BY InitCodes, StepCodes, DecisionsKeepUp, QueueInvariant, PTL DEF Spec

-----------------------------------------------------------------------------

\* A decoder shows the inputs in display order, and after a flush all of them.
THEOREM DecoderShowsInOrder == Spec => []ShownInOrder
<1>1. QP!IInv /\ CodingInv => ShownInOrder
  <2>. SUFFICES ASSUME QP!IInv, CodingInv, lost = {}
                PROVE  /\ \A i \in 1..Len(dec.shown) : dec.shown[i] = i - 1
                       /\ flushed /\ call = "idle" => Len(dec.shown) = ra_display_next
    BY Zenon DEF ShownInOrder
  <2>1. \A i \in 1..Len(dec.shown) : dec.shown[i] = i - 1
    BY Zenon DEF CodingInv, Decoders, Tracks
  <2>2. ASSUME flushed, call = "idle"
        PROVE  Len(dec.shown) = ra_display_next
    <3>1. frames = {} /\ delayed_intra_out = None
      BY <2>2, IdleRests
    <3>2. ra_input = <<>> /\ delayed_intra = None
      BY <2>2 DEF CodingInv, Drained
    <3>3. PICK key, x, due, y : Emission(key, x, due, y) /\ Synced(key, x, due)
      BY Zenon DEF CodingInv
    <3>4. due = QP!Front
      <4>1. Stream(gop.intra_period, emit, {}, QP!Front, key, x, due, y)
        BY <3>1, <3>3, Zenon DEF Emission
      <4>. QED
        BY <4>1, StreamEnds, Zenon
    <3>5. Len(dec.shown) = due
      <4>1. Tracks(Receiver, due)
        BY <3>1, <3>3, Zenon DEF Synced
      <4>2. Receiver = dec
        BY <2>2 DEF Receiver
      <4>. QED
        BY <4>1, <4>2, Zenon DEF Tracks
    <3>6. QP!Front = ra_display_next
      <4>1. Len(ra_input) = 0 /\ ra_display_next \in Nat
        BY <3>2, EmptySeq DEF QP!IInv, QP!TypeOK
      <4>2. QP!Base = ra_display_next - Len(ra_input)
        BY DEF QP!Base
      <4>3. QP!Base = ra_display_next
        BY <4>1, <4>2
      <4>. QED
        BY <3>2, <4>3 DEF QP!Front
    <3>. QED
      BY <3>4, <3>5, <3>6
  <2>. QED
    BY <2>1, <2>2
<1>. QED
  BY <1>1, CodingHolds, QueueInvariant, PTL

\* Frame headers, the encoder's buffer, the decoder's and the shadow one of picture
\* decision agree as long as no call fails.
THEOREM BuffersAgree == Spec => []ReferencesInSync
<1>1. QP!IInv /\ CodingInv => ReferencesInSync
  <2>. SUFFICES ASSUME QP!IInv, CodingInv, lost = {}
                PROVE  /\ emit # <<>> /\ delayed_intra_out = None => RefsMatch(dpb, Head(emit))
                       /\ dec.damaged = {}
                       /\ call = "idle" /\ delayed_intra = None =>
                            /\ dec.slots = dpb
                            /\ ra_display_next > Len(ra_input) => dpb = pd_ctx.dpb
    BY Zenon DEF ReferencesInSync
  <2>1. \A k : ~Excused(k)
    BY DEF Excused
  <2>2. dec.damaged = {}
    <3>1. \A p \in dec.damaged : FALSE
      BY <2>1, Zenon DEF CodingInv, Decoders, Intact
    <3>. QED
      BY <3>1
  <2>3. PICK key, x, due, y : Emission(key, x, due, y) /\ Anchored(key, y) /\ Synced(key, x, due)
    BY Zenon DEF CodingInv
  <2>4. delayed_intra_out = None => Receiver.slots = dpb /\ dpb = x
    BY <2>1, <2>3, Zenon DEF Synced
  <2>5. ASSUME emit # <<>>, delayed_intra_out = None
        PROVE  RefsMatch(dpb, Head(emit))
    <3>1. Advances(gop.intra_period, emit, frames, QP!Front, key, x, due, y)
      BY <2>3, <2>5, StreamNext, Zenon DEF Emission
    <3>2. \E x1, due1 : Links(key, Head(emit), x, due, x1, due1)
      BY <3>1, Zenon DEF Advances
    <3>. DEFINE pic == Head(emit)
    <3>. HIDE DEF pic
    <3>3. \A r \in 1..Len(pic.refs) : x[pic.refs[r]] = pic.ref_pocs[r]
      BY <3>2, Zenon DEF Links, pic
    <3>4. RefsMatch(dpb, pic)
      BY <2>4, <2>5, <3>3, Zenon DEF RefsMatch
    <3>. QED
      BY <3>4 DEF pic
  <2>6. ASSUME call = "idle", delayed_intra = None
        PROVE  /\ dec.slots = dpb
               /\ ra_display_next > Len(ra_input) => dpb = pd_ctx.dpb
    <3>1. frames = {} /\ delayed_intra_out = None
      BY <2>6, IdleRests
    <3>2. Receiver = dec
      BY <2>6 DEF Receiver
    <3>3. x = y
      <4>1. Stream(gop.intra_period, emit, {}, QP!Front, key, x, due, y)
        BY <2>3, <3>1, Zenon DEF Emission
      <4>. QED
        BY <4>1, StreamEnds, Zenon
    <3>4. ASSUME ra_display_next > Len(ra_input)
          PROVE  y = pd_ctx.dpb
      <4>1. QP!Base # 0
        <5>1. ra_display_next \in Nat /\ Len(ra_input) \in Nat
          BY DEF QP!IInv, QP!TypeOK
        <5>2. QP!Base = ra_display_next - Len(ra_input)
          BY DEF QP!Base
        <5>. QED
          BY <3>4, <5>1, <5>2
      <4>. QED
        BY <2>3, <2>6, <4>1, Zenon DEF Anchored
    <3>. QED
      BY <2>4, <3>1, <3>2, <3>3, <3>4
  <2>. QED
    BY <2>2, <2>5, <2>6
<1>. QED
  BY <1>1, CodingHolds, QueueInvariant, PTL

\* What a failed call damages ends with its GOP.
THEOREM DamageIsContained == Spec => []DamageEndsAtKey
<1>1. CodingInv => DamageEndsAtKey
  BY Zenon DEF CodingInv, Decoders, Intact, Excused, LastKey, DamageEndsAtKey
<1>. QED
  BY <1>1, CodingHolds, PTL

-----------------------------------------------------------------------------
(* Temporal units.                                                         *)

\* The bytes so far are whole units but for the last one, which is open.
Framed(o, open) ==
  /\ open => o # <<>>
  /\ o # <<>> => o[1].kind = "td"
  /\ \A i \in 1..(Len(o) - 1) : Shows(o[i]) <=> o[i + 1].kind = "td"
  /\ o # <<>> => (Shows(o[Len(o)]) <=> ~open)

LEMMA NothingFramed == Framed(<<>>, FALSE)
<1>. DEFINE o == <<>>
<1>1. Len(o) = 0 /\ 1..(Len(o) - 1) = {}
  OBVIOUS
<1>. QED
  BY <1>1 DEF Framed

LEMMA SameOpen ==
  ASSUME NEW o, NEW a, NEW b, Framed(o, a), a <=> b
  PROVE  Framed(o, b)
BY Zenon DEF Framed

\* A delimiter where no unit is open, anything else where one is.
MayFollow(b, open) == b.kind = "td" <=> ~open

LEMMA FramesOneMore ==
  ASSUME NEW o, \E S : o \in Seq(S), NEW open, Framed(o, open), NEW b, MayFollow(b, open)
  PROVE  Framed(o \o <<b>>, ~Shows(b))
<1>1. PICK S : o \in Seq(S)
  OBVIOUS
<1>. DEFINE R == S \cup {b}
            n == Len(o)
            r == o \o <<b>>
<1>2. o \in Seq(R) /\ b \in R
  BY <1>1, SeqDef
<1>. HIDE DEF R
<1>3. /\ n \in Nat /\ Len(r) = n + 1 /\ r[n + 1] = b
      /\ \A i \in 1..n : r[i] = o[i]
      /\ r # <<>> /\ (o = <<>> <=> n = 0)
  <2>1. /\ n \in Nat /\ Len(r) = n + 1 /\ r[n + 1] = b
        /\ \A i \in 1..n : r[i] = o[i]
    BY <1>2
  <2>2. r # <<>>
    BY <1>2
  <2>3. o = <<>> <=> n = 0
    BY <1>2
  <2>. QED
    BY <2>1, <2>2, <2>3
<1>4. /\ open => o # <<>>
      /\ o # <<>> => o[1].kind = "td"
      /\ \A i \in 1..(n - 1) : Shows(o[i]) <=> o[i + 1].kind = "td"
      /\ o # <<>> => (Shows(o[n]) <=> ~open)
      /\ b.kind = "td" <=> ~open
  BY Zenon DEF Framed, MayFollow
<1>. HIDE DEF n, r
<1>5. r[1].kind = "td"
  <2>1. CASE o = <<>>
    <3>1. n + 1 = 1
      BY <1>3, <2>1
    <3>2. r[1] = b
      BY <1>3, <3>1, Zenon
    <3>. QED
      BY <1>4, <2>1, <3>2, Zenon
  <2>2. CASE o # <<>>
    <3>1. 1 \in 1..n
      BY <1>3, <2>2
    <3>2. r[1] = o[1]
      BY <1>3, <3>1, Zenon
    <3>. QED
      BY <1>4, <2>2, <3>2, Zenon
  <2>. QED
    BY <2>1, <2>2
<1>6. ASSUME NEW i \in 1..n
      PROVE  Shows(r[i]) <=> r[i + 1].kind = "td"
  <2>1. CASE i = n
    <3>1. o # <<>> /\ r[i] = o[n] /\ r[i + 1] = b
      <4>1. n # 0
        BY <1>3, <1>6
      <4>. QED
        BY <1>3, <1>6, <2>1, <4>1, Zenon
    <3>. QED
      BY <1>4, <3>1, Zenon
  <2>2. CASE i # n
    <3>1. i \in 1..(n - 1) /\ i + 1 \in 1..n
      BY <1>3, <2>2
    <3>2. r[i] = o[i] /\ r[i + 1] = o[i + 1]
      <4>. DEFINE j == i + 1
      <4>1. j \in 1..n
        BY <3>1
      <4>. HIDE DEF j
      <4>2. r[j] = o[j]
        BY <1>3, <4>1, Zenon
      <4>. QED
        BY <1>3, <1>6, <4>2, Zenon DEF j
    <3>. QED
      BY <1>4, <3>1, <3>2, Zenon
  <2>. QED
    BY <2>1, <2>2
<1>7. Len(r) - 1 = n /\ r[Len(r)] = b
  <2>1. Len(r) - 1 = n
    BY <1>3
  <2>. QED
    BY <1>3, <2>1, Zenon
<1>. DEFINE shut == ~Shows(b)
<1>8. Shows(b) <=> ~shut
  OBVIOUS
<1>. HIDE DEF shut
<1>9. Framed(r, shut)
  BY <1>3, <1>5, <1>6, <1>7, <1>8, Zenon DEF Framed
<1>. QED
  BY <1>9 DEF r, shut

LEMMA ObuKinds ==
  /\ TD.kind = "td" /\ ~Shows(TD)
  /\ \A pic : Frame(pic).kind # "td" /\ (Shows(Frame(pic)) <=> pic.show)
  /\ \A slot : ShowExisting(slot).kind # "td" /\ Shows(ShowExisting(slot))
<1>1. TD.kind = "td"
  BY DEF TD
<1>2. \A pic : Frame(pic).kind = "frame" /\ Frame(pic).pic = pic
  BY DEF Frame
<1>3. \A slot : ShowExisting(slot).kind = "show"
  BY DEF ShowExisting
<1>4. "td" # "frame" /\ "td" # "show" /\ "frame" # "show"
  OBVIOUS
<1>. QED
  BY <1>1, <1>2, <1>3, <1>4 DEF Shows

LEMMA PictureFramed ==
  ASSUME NEW o, \E S : o \in Seq(S), NEW open, Framed(o, open), NEW pic,
         pic.show_existing # NoSlot => pic.show
  PROVE  Framed(PictureUnits(o, open, pic), ~pic.show)
<1>. DEFINE shows == pic.show_existing # NoSlot
            frame == Frame(pic)
            show == ShowExisting(pic.show_existing)
            a == o \o (IF open THEN <<>> ELSE <<TD>>)
            b == a \o <<frame>>
            t == b \o <<TD>>
            yes == TRUE
<1>1. (\E S : a \in Seq(S)) /\ Framed(a, yes)
  <2>1. CASE open
    <3>1. a = o \o <<>>
      BY <2>1
    <3>2. o \o <<>> = o
      BY NoMoreObus, Zenon
    <3>3. Framed(o, yes)
      BY <2>1, SameOpen, Zenon
    <3>. HIDE DEF a, yes
    <3>. QED
      BY <3>1, <3>2, <3>3, Zenon
  <2>2. CASE ~open
    <3>1. a = o \o <<TD>>
      BY <2>2
    <3>2. \E S : o \o <<TD>> \in Seq(S)
      BY OneMoreObu, Zenon
    <3>3. MayFollow(TD, open)
      BY <2>2, ObuKinds DEF MayFollow
    <3>4. Framed(o \o <<TD>>, ~Shows(TD))
      <4>1. Framed(o, open) /\ \E S : o \in Seq(S)
        OBVIOUS
      <4>. QED
        BY ONLY <3>3, <4>1, FramesOneMore, Zenon
    <3>5. Framed(o \o <<TD>>, yes)
      BY <3>4, ObuKinds, SameOpen, Zenon
    <3>. HIDE DEF a, yes
    <3>. QED
      BY <3>1, <3>2, <3>5, Zenon
  <2>. QED
    BY <2>1, <2>2
<1>. HIDE DEF a
<1>2. (\E S : b \in Seq(S)) /\ Framed(b, ~pic.show)
  <2>1. \E S : b \in Seq(S)
    BY <1>1, OneMoreObu, Zenon
  <2>2. MayFollow(frame, yes)
    BY ObuKinds DEF MayFollow
  <2>. HIDE DEF frame, yes
  <2>3. Framed(b, ~Shows(frame))
    BY ONLY <1>1, <2>2, FramesOneMore, Zenon
  <2>4. ~Shows(frame) <=> ~pic.show
    BY ObuKinds, Zenon DEF frame
  <2>5. Framed(b, ~pic.show)
    BY <2>3, <2>4, SameOpen, Zenon
  <2>. QED
    BY <2>1, <2>5
<1>. HIDE DEF b
<1>3. CASE shows
  <2>1. Framed(t, ~Shows(TD)) /\ \E S : t \in Seq(S)
    <3>1. MayFollow(TD, ~pic.show)
      BY <1>3, ObuKinds DEF MayFollow
    <3>2. Framed(t, ~Shows(TD))
      BY <1>2, <3>1, FramesOneMore, Zenon
    <3>3. \E S : t \in Seq(S)
      BY <1>2, OneMoreObu, Zenon
    <3>. QED
      BY <3>2, <3>3
  <2>2. PictureUnits(o, open, pic) = t \o <<show>>
    <3>1. TwoAreOneByOne(b, TD, show)
      BY <1>2, TwoMoreObus, Zenon
    <3>2. PictureUnits(o, open, pic) = b \o <<TD, show>>
      BY <1>3 DEF PictureUnits, a, b
    <3>. QED
      BY <3>1, <3>2, Zenon DEF TwoAreOneByOne
  <2>. HIDE DEF t
  <2>3. MayFollow(show, ~Shows(TD))
    BY ObuKinds DEF MayFollow
  <2>4. ~Shows(show) <=> ~pic.show
    BY <1>3, ObuKinds
  <2>. HIDE DEF show
  <2>5. Framed(t \o <<show>>, ~Shows(show))
    BY <2>1, <2>3, FramesOneMore, Zenon
  <2>6. Framed(t \o <<show>>, ~pic.show)
    BY <2>4, <2>5, SameOpen, Zenon
  <2>. QED
    BY <2>2, <2>6, Zenon
<1>4. CASE ~shows
  <2>1. PictureUnits(o, open, pic) = b \o <<>>
    BY <1>4 DEF PictureUnits, a, b
  <2>2. b \o <<>> = b
    BY <1>2, NoMoreObus, Zenon
  <2>. QED
    BY <1>2, <2>1, <2>2, Zenon
<1>. QED
  BY <1>3, <1>4

-----------------------------------------------------------------------------

\* A call has written whole units, but for the one the next picture continues.
FramingInv ==
  \/ obus = <<>> /\ emit = <<>> /\ delayed_intra_out = None
  \/ /\ Framed(obus, tu_open)
     /\ emit = <<>> \/ delayed_intra_out # None => ~tu_open

\* Between releases no picture waits to be coded.
LEMMA NothingToCode ==
  ASSUME EmissionInv, frames = {}
  PROVE  emit = <<>>
<1>1. PICK key, x, due, y : Stream(gop.intra_period, emit, {}, QP!Front, key, x, due, y)
  BY Zenon DEF EmissionInv, Emission
<1>. QED
  BY <1>1, StreamEnds, Zenon

LEMMA StepFrames ==
  QP!IInv /\ QueueInv /\ EmissionInv /\ CodingInv /\ FramingInv /\ [Next]_vars => FramingInv'
<1>. SUFFICES ASSUME QP!IInv, QueueInv, EmissionInv, CodingInv, FramingInv, [Next]_vars
              PROVE  FramingInv'
  OBVIOUS
<1>0. \E S : obus \in Seq(S)
  BY Zenon DEF CodingInv, Decoders
<1>1. CASE Submit \/ Flush
  <2>1. /\ obus' = <<>> /\ emit' = emit /\ delayed_intra_out' = delayed_intra_out
        /\ call = "idle"
    BY <1>1 DEF Submit, Flush, Q!TryEncodeFrame, Q!TryFlush
  <2>2. frames = {} /\ delayed_intra_out = None
    BY <2>1, IdleRests
  <2>3. emit = <<>>
    BY <2>2, NothingToCode
  <2>. QED
    BY <2>1, <2>2, <2>3 DEF FramingInv
<1>2. CASE \E m \in 1..Len(ra_input), key_member \in BOOLEAN : ReleaseWindow(m, key_member)
  <2>1. obus' = obus /\ tu_open' = FALSE /\ frames = {} /\ delayed_intra_out = None
    BY <1>2 DEF ReleaseWindow, Q!EncodeRaWindow, Q!NothingPending
  <2>2. emit = <<>>
    BY <2>1, NothingToCode
  <2>3. Framed(obus, FALSE)
    <3>. DEFINE no == FALSE
    <3>1. CASE obus = <<>>
      BY <3>1, NothingFramed
    <3>2. CASE obus # <<>>
      <4>1. Framed(obus, tu_open) /\ (tu_open <=> no)
        BY <2>2, <3>2, Zenon DEF FramingInv
      <4>. HIDE DEF no
      <4>2. Framed(obus, no)
        BY ONLY <4>1, Zenon DEF Framed
      <4>. QED
        BY <4>2 DEF no
    <3>. QED
      BY <3>1, <3>2
  <2>4. Framed(obus', tu_open') /\ ~tu_open'
    BY <2>1, <2>3, Zenon
  <2>. QED
    BY <2>4, Zenon DEF FramingInv
<1>3. CASE CodeHeldKey
  <2>. DEFINE k == delayed_intra_out
              pic == KeyPicture(k)
  <2>1. /\ k # None /\ obus' = obus \o <<TD, Frame(pic)>> /\ tu_open' = tu_open
    BY <1>3 DEF CodeHeldKey, Q!EncodeDelayedIntra
  <2>2. Framed(obus, tu_open) /\ ~tu_open
    BY <2>1, Zenon DEF FramingInv
  <2>3. k \in Nat
    <3>1. delayed_intra_out \in Nat \cup {None}
      BY Zenon DEF QP!IInv, QP!TypeOK
    <3>. QED
      BY <2>1, <3>1
  <2>4. pic.show_existing = NoSlot /\ pic.show
    BY <2>3, KeyPictureLinks, Zenon
  <2>. HIDE DEF pic
  <2>5. Framed(PictureUnits(obus, tu_open, pic), ~pic.show)
    BY <1>0, <2>2, <2>4, PictureFramed, Zenon
  <2>6. PictureUnits(obus, tu_open, pic) = obus'
    <3>. DEFINE a == obus \o <<TD>>
                b == a \o <<Frame(pic)>>
    <3>1. PictureUnits(obus, tu_open, pic) = b \o <<>>
      BY <2>2, <2>4 DEF PictureUnits
    <3>2. \E S : a \in Seq(S)
      BY <1>0, OneMoreObu, Zenon
    <3>. HIDE DEF a
    <3>3. \E S : b \in Seq(S)
      BY <3>2, OneMoreObu, Zenon
    <3>. HIDE DEF b
    <3>4. b \o <<>> = b
      BY <3>3, NoMoreObus, Zenon
    <3>5. TwoAreOneByOne(obus, TD, Frame(pic))
      BY <1>0, TwoMoreObus, Zenon
    <3>. QED
      BY <2>1, <3>1, <3>4, <3>5, Zenon DEF TwoAreOneByOne, a, b
  <2>7. ~pic.show <=> tu_open'
    BY <2>1, <2>2, <2>4
  <2>8. Framed(obus', tu_open')
    <3>. DEFINE open == tu_open'
                o == obus'
    <3>1. Framed(o, ~pic.show) /\ (~pic.show <=> open)
      BY <2>5, <2>6, <2>7
    <3>. HIDE DEF open, o
    <3>2. Framed(o, open)
      BY ONLY <3>1, Zenon DEF Framed
    <3>. QED
      BY <3>2 DEF open, o
  <2>9. ~tu_open'
    BY <2>1, <2>2
  <2>. QED
    BY <2>8, <2>9, Zenon DEF FramingInv
<1>4. CASE CodeNext
  <2>. DEFINE pic == Head(emit)
  <2>1. /\ emit # <<>> /\ delayed_intra_out = None /\ delayed_intra_out' = None
        /\ obus' = PictureUnits(obus, tu_open, pic) /\ tu_open' = ~pic.show
        /\ emit' = Tail(emit)
    BY <1>4 DEF CodeNext, Q!EncodeMember, PictureUnits
  <2>2. Framed(obus, tu_open)
    BY <2>1, Zenon DEF FramingInv
  <2>3. PICK key, x, due, y : Stream(gop.intra_period, emit, frames, QP!Front, key, x, due, y)
    BY Zenon DEF EmissionInv, Emission
  <2>4. Advances(gop.intra_period, emit, frames, QP!Front, key, x, due, y)
    BY <2>1, <2>3, StreamNext, Zenon
  <2>5. /\ \E x1, due1 : Links(key, pic, x, due, x1, due1)
        /\ Tail(emit) # <<>> \/ pic.show
    BY <2>4, Zenon DEF Advances
  <2>. HIDE DEF pic
  <2>6. pic.show_existing # NoSlot => pic.show
    BY <2>5, Zenon DEF Links
  <2>7. Framed(PictureUnits(obus, tu_open, pic), ~pic.show)
    BY <1>0, <2>2, <2>6, PictureFramed, Zenon
  <2>8. Framed(obus', tu_open')
    BY <2>1, <2>7, Zenon
  <2>9. emit' = <<>> => ~tu_open'
    BY <2>1, <2>5
  <2>. QED
    BY <2>1, <2>8, <2>9, Zenon DEF FramingInv
<1>5. CASE Return
  BY <1>5 DEF Return, Q!Return, FramingInv
<1>6. CASE Fail
  BY <1>6 DEF Fail, Q!Fail, FramingInv
<1>7. CASE UNCHANGED vars
  BY <1>7 DEF vars, Q!queueVars, codingVars, FramingInv
<1>. QED
  BY <1>1, <1>2, <1>3, <1>4, <1>5, <1>6, <1>7 DEF Next, InCall

\* A call returns whole temporal units, each opened by a delimiter and closed by its
\* one shown picture.
THEOREM CallsReturnWholeUnits == Spec => []UnitsWellFramed
<1>1. Init => FramingInv
  BY DEF Init, Q!Init, FramingInv
<1>2. Spec => []FramingInv
  BY <1>1, StepFrames, EmissionHolds, CodingHolds, DecisionsKeepUp, QueueInvariant, PTL DEF Spec
<1>3. QP!IInv /\ EmissionInv /\ CodingInv /\ FramingInv => UnitsWellFramed
  <2>. SUFFICES ASSUME QP!IInv, EmissionInv, CodingInv, FramingInv, call = "idle"
                PROVE  WellFramed(obus)
    BY Zenon DEF UnitsWellFramed
  <2>1. emit = <<>>
    BY IdleRests, NothingToCode
  <2>2. CASE obus = <<>>
    <3>1. Len(obus) = 0 /\ 1..Len(obus) = {}
      BY <2>2
    <3>. QED
      BY <2>2, <3>1 DEF WellFramed
  <2>3. CASE obus # <<>>
    <3>. DEFINE n == Len(obus)
    <3>1. Framed(obus, tu_open) /\ ~tu_open
      BY <2>1, <2>3, Zenon DEF FramingInv
    <3>2. n \in Nat
      <4>1. \E S : obus \in Seq(S)
        BY Zenon DEF CodingInv, Decoders
      <4>. QED
        BY <4>1
    <3>3. /\ obus[1].kind = "td"
          /\ \A i \in 1..(n - 1) : Shows(obus[i]) <=> obus[i + 1].kind = "td"
          /\ Shows(obus[n])
      BY <2>3, <3>1, Zenon DEF Framed
    <3>. HIDE DEF n
    <3>4. \A i \in 1..n : i = n \/ i \in 1..(n - 1)
      BY <3>2
    <3>5. \A i \in 1..n : Shows(obus[i]) <=> (i = n \/ obus[i + 1].kind = "td")
      <4>. SUFFICES ASSUME NEW i \in 1..n
                    PROVE  Shows(obus[i]) <=> (i = n \/ obus[i + 1].kind = "td")
        OBVIOUS
      <4>1. CASE i = n
        BY <3>3, <4>1, Zenon
      <4>2. CASE i # n
        BY <3>3, <3>4, <4>2, Zenon
      <4>. QED
        BY <4>1, <4>2
    <3>. QED
      BY <3>3, <3>5, Zenon DEF WellFramed, n
  <2>. QED
    BY <2>2, <2>3
<1>. QED
  BY <1>2, <1>3, EmissionHolds, CodingHolds, QueueInvariant, PTL
=============================================================================
