--------------------------- MODULE RaQueue_proofs ---------------------------
(***************************************************************************)
(* Proofs about RaQueue, for every set of configurations and every bound.  *)
(* The inductive invariant adds to the properties of RaQueue what they     *)
(* rest on: which queue entries are marked as the last input, that a call  *)
(* has settled its bytes when it returns, and that whatever is on its way  *)
(* out is behind everything that has left.  On top of it, which members of *)
(* a release are key frames.                                               *)
(***************************************************************************)
EXTENDS RaQueue, SequenceTheorems, WellFoundedInduction, TLAPS

-----------------------------------------------------------------------------
(* The inductive invariant.                                                *)

\* Only try_flush marks an entry, the last one, and no push follows it.
QueueMarks ==
  /\ call = "push" => ~flushed
  /\ ~flushed => \A i \in 1..Len(ra_input) : ~ra_input[i].is_eos
  /\ call = "flush" /\ ra_input # <<>> => ra_input[Len(ra_input)].is_eos

\* A call holds pictures in flight only while it runs, and only after a release.
Settled ==
  /\ call = "idle" => NothingPending /\ out = {}
  /\ ~NothingPending => Len(ra_input) < gop.mini_gop_size + gop.scd_delay

InFlight == out \cup Staged \cup frames

\* Everything in flight follows everything that has left.
InFlightFollows ==
  \A q \in delivered \cup lost, p \in InFlight : q < p

IInv ==
  /\ TypeOK
  /\ Conserved
  /\ QueueMarks
  /\ Settled
  /\ InFlightFollows
  /\ HeldKeyHasFollowers
  /\ Latency

-----------------------------------------------------------------------------
(* Which releases there are.                                               *)

\* The parameters of a configuration.
LEMMA GopParameters ==
  ASSUME TypeOK
  PROVE  /\ gop.mini_gop_size \in Nat /\ gop.mini_gop_size >= 1
         /\ gop.scd_delay \in Nat /\ gop.scd_delay >= 1
         /\ gop.intra_period \in Nat /\ gop.intra_period >= 2
BY GopAssumption DEF TypeOK

\* A queue with a key frame has a first one.
LEMMA FirstKeyExists ==
  ASSUME TypeOK, NEW i \in 1..Len(ra_input), ra_input[i].is_key
  PROVE  \E k \in 1..i : FirstKeyAt(k)
<1>. DEFINE keys == {k \in 1..Len(ra_input) : ra_input[k].is_key}
            less == {ss \in Nat \X Nat : ss[1] < ss[2]}
<1>1. Len(ra_input) \in Nat
  BY DEF TypeOK
<1>2. keys \subseteq Nat /\ keys # {}
  BY <1>1
<1>3. IsWellFoundedOn(less, Nat)
  BY NatLessThanWellFounded, Zenon DEF OpToRel
<1>4. PICK k \in keys : \A j \in keys : ~(<<j, k>> \in less)
  <2>. HIDE DEF keys, less
  <2>. QED
    BY <1>2, <1>3, WFMin, Zenon
<1>5. \A j \in keys : ~(j < k)
  BY <1>2, <1>4
<1>6. k \in 1..Len(ra_input) /\ ra_input[k].is_key /\ k <= i
  BY <1>1, <1>5
<1>7. \A j \in 1..(k - 1) : ~ra_input[j].is_key
  BY <1>1, <1>5, <1>6
<1>. QED
  BY <1>1, <1>6, <1>7 DEF FirstKeyAt

\* ... and only one.
LEMMA FirstKeyUnique ==
  ASSUME TypeOK, NEW k, NEW m, FirstKeyAt(k), FirstKeyAt(m)
  PROVE  k = m
BY DEF FirstKeyAt, TypeOK

\* The queue is long enough to release unless it is shorter than a mini-GOP and
\* its lookahead.
LEMMA LongQueueFires ==
  ASSUME TypeOK, Len(ra_input) >= gop.mini_gop_size + gop.scd_delay
  PROVE  Fire
<1>1. Len(ra_input) \in Nat
  BY DEF TypeOK
<1>2. CASE KeyFree
  BY <1>2 DEF Fire
<1>3. CASE ~KeyFree
  <2>1. PICK i \in 1..Len(ra_input) : i <= gop.mini_gop_size /\ ra_input[i].is_key
    BY <1>3 DEF KeyFree
  <2>2. PICK k \in 1..i : FirstKeyAt(k)
    BY <2>1, FirstKeyExists
  <2>3. k \in 1..gop.mini_gop_size /\ Len(ra_input) >= k + gop.scd_delay
    BY <1>1, <2>1, <2>2, GopParameters
  <2>. QED
    BY <2>2, <2>3 DEF Fire
<1>. QED
  BY <1>2, <1>3

\* A release that ra_try_release has fired leaves its lookahead queued.
LEMMA FiredReleaseLeavesLookahead ==
  ASSUME TypeOK, Fire, NEW m \in 1..Len(ra_input), NEW key_member \in BOOLEAN,
         Release(m, key_member)
  PROVE  Len(ra_input) - m >= gop.scd_delay
<1>1. Len(ra_input) \in Nat
  BY DEF TypeOK
<1>2. CASE key_member
  <2>1. FirstKeyAt(m) /\ m <= gop.mini_gop_size
    BY <1>2 DEF Release
  <2>2. ~KeyFree
    BY <2>1 DEF KeyFree, FirstKeyAt
  <2>3. PICK k \in 1..gop.mini_gop_size : FirstKeyAt(k) /\ Len(ra_input) >= k + gop.scd_delay
    BY <2>2 DEF Fire
  <2>4. k = m
    BY <2>1, <2>3, FirstKeyUnique
  <2>. QED
    BY <1>1, <2>3, <2>4, GopParameters
<1>3. CASE ~key_member
  <2>1. KeyFree
    BY <1>3 DEF Release
  <2>2. \A k \in 1..gop.mini_gop_size : ~FirstKeyAt(k)
    BY <1>1, <2>1, GopParameters DEF KeyFree, FirstKeyAt
  <2>3. Len(ra_input) >= gop.mini_gop_size + gop.scd_delay
    BY <2>2 DEF Fire
  <2>4. m <= gop.mini_gop_size
    BY <1>1, <1>3, <2>3, GopParameters DEF Release
  <2>. QED
    BY <1>1, <2>3, <2>4, GopParameters
<1>. QED
  BY <1>2, <1>3

-----------------------------------------------------------------------------
(* Type correctness.                                                       *)

\* Every variable has its type in every reachable state.
THEOREM TypeCorrect == Spec => []TypeOK
<1>1. Init => TypeOK
  <2>1. <<>> \in Seq(BufferedFrame)
    BY EmptySeq, Zenon
  <2>2. ASSUME Init
        PROVE  TypeOK
    BY <2>1, <2>2, Zenon DEF Init, TypeOK
  <2>. QED
    BY <2>2
<1>2. TypeOK /\ [Next]_queueVars => TypeOK'
  <2>. SUFFICES ASSUME TypeOK, [Next]_queueVars
               PROVE  TypeOK'
    OBVIOUS
  <2>. USE DEF TypeOK
  <2>1. CASE TryEncodeFrame
    <3>1. [display_order |-> ra_display_next, is_key |-> IsKeyFrame(ra_display_next),
           is_eos |-> FALSE] \in BufferedFrame
      BY GopParameters DEF BufferedFrame, IsKeyFrame
    <3>2. ra_input' \in Seq(BufferedFrame)
      BY <2>1, <3>1 DEF TryEncodeFrame
    <3>. QED
      BY <2>1, <3>2 DEF TryEncodeFrame
  <2>2. CASE TryFlush
    <3>1. \A i \in 1..Len(ra_input) : ra_input[i] \in BufferedFrame
      OBVIOUS
    <3>2. \A i \in 1..Len(ra_input) :
            /\ ra_input[i] \in BufferedFrame
            /\ [ra_input[i] EXCEPT !.is_eos = TRUE] \in BufferedFrame
      BY <3>1 DEF BufferedFrame
    <3>3. ra_input' \in Seq(BufferedFrame)
      BY <2>2, <3>2, IsASeq DEF TryFlush
    <3>. QED
      BY <2>2, <3>3 DEF TryFlush
  <2>3. ASSUME NEW m \in 1..Len(ra_input), NEW key_member \in BOOLEAN,
               EncodeRaWindow(m, key_member)
        PROVE  TypeOK'
    <3>1. ra_input' \in Seq(BufferedFrame)
      BY <2>3 DEF EncodeRaWindow
    <3>2. \A i \in 1..m : ra_input[i] \in BufferedFrame
      BY <2>3
    <3>3. \A i \in 1..m : ra_input[i].display_order \in Nat
      BY <2>3, <3>2 DEF BufferedFrame
    <3>4. delayed_intra' \in Nat \cup {None} /\ frames' \subseteq Nat
      BY <2>3, <3>3 DEF EncodeRaWindow
    <3>. QED
      BY <2>3, <3>1, <3>4 DEF EncodeRaWindow
  <2>4. CASE EncodeDelayedIntra
    BY <2>4 DEF EncodeDelayedIntra
  <2>5. ASSUME NEW p \in frames, EncodeMember(p)
        PROVE  TypeOK'
    BY <2>5 DEF EncodeMember
  <2>6. CASE Return
    BY <2>6 DEF Return
  <2>7. CASE Fail
    BY <2>7 DEF Fail
  <2>8. CASE UNCHANGED queueVars
    BY <2>8 DEF queueVars
  <2>. QED
    BY <2>1, <2>2, <2>3, <2>4, <2>5, <2>6, <2>7, <2>8 DEF Next, InCall
<1>. QED
  BY <1>1, <1>2, PTL DEF Spec

-----------------------------------------------------------------------------
(* The inductive invariant is preserved, action by action.                 *)

\* What a release does to the queue.
LEMMA ReleasedQueue ==
  ASSUME IInv, NEW m \in 1..Len(ra_input), NEW key_member \in BOOLEAN,
         EncodeRaWindow(m, key_member)
  PROVE  /\ Len(ra_input') = Len(ra_input) - m
         /\ \A i \in 1..Len(ra_input') : ra_input'[i] = ra_input[i + m]
         /\ Base \in Nat /\ Base' = Base + m
         /\ {ra_input[i].display_order : i \in 1..m} = Base..(Base + m - 1)
         /\ ra_input[m].display_order = Base + m - 1
<1>1. ra_input \in Seq(BufferedFrame) /\ Len(ra_input) \in Nat /\ ra_display_next \in Nat
  BY DEF IInv, TypeOK
<1>2. ra_input' = SubSeq(ra_input, m + 1, Len(ra_input)) /\ ra_display_next' = ra_display_next
  BY DEF EncodeRaWindow
<1>3. /\ Len(ra_input') = Len(ra_input) - m
      /\ \A i \in 1..Len(ra_input') : ra_input'[i] = ra_input[i + m]
  BY <1>1, <1>2
<1>4. /\ Len(ra_input) <= ra_display_next
      /\ \A i \in 1..Len(ra_input) : ra_input[i].display_order = Base + i - 1
  BY DEF IInv, Conserved, QueueContiguous
<1>5. Base \in Nat /\ Base' = Base + m
  <2>1. Base = ra_display_next - Len(ra_input) /\ Base' = ra_display_next' - Len(ra_input')
    BY DEF Base
  <2>. QED
    BY <1>1, <1>2, <1>3, <1>4, <2>1
<1>6. ra_input[m].display_order = Base + m - 1
  BY <1>4
<1>7. \A i \in 1..m : ra_input[i].display_order = Base + i - 1
  BY <1>1, <1>4
<1>8. {ra_input[i].display_order : i \in 1..m} = Base..(Base + m - 1)
  <2>1. \A p \in Base..(Base + m - 1) : p - Base + 1 \in 1..m /\ p = Base + (p - Base + 1) - 1
    BY <1>1, <1>5
  <2>2. \A p \in Base..(Base + m - 1) : \E i \in 1..m : p = ra_input[i].display_order
    BY <1>7, <2>1
  <2>3. \A i \in 1..m : Base + i - 1 \in Base..(Base + m - 1)
    BY <1>1, <1>5
  <2>. QED
    BY <1>7, <2>2, <2>3
<1>. QED
  BY <1>3, <1>5, <1>6, <1>8

\* A key frame is held only in front of a queue that is not empty: it is not the
\* last input, or has its lookahead queued behind it.
LEMMA DelayedKeyIsNotLast ==
  ASSUME IInv, NEW m \in 1..Len(ra_input), NEW key_member \in BOOLEAN,
         EncodeRaWindow(m, key_member), IsDelayedIntra(m, key_member)
  PROVE  m < Len(ra_input)
<1>1. TypeOK /\ Len(ra_input) \in Nat
  BY DEF IInv, TypeOK
<1>2. CASE call = "push" /\ Fire
  <2>1. Len(ra_input) - m >= gop.scd_delay
    BY <1>1, <1>2, FiredReleaseLeavesLookahead DEF EncodeRaWindow
  <2>. QED
    BY <1>1, <2>1, GopParameters
<1>3. CASE call = "flush" /\ ra_input # <<>>
  <2>1. ra_input[Len(ra_input)].is_eos
    BY <1>3 DEF IInv, QueueMarks
  <2>2. ~ra_input[m].is_eos
    BY DEF IsDelayedIntra
  <2>. QED
    BY <1>1, <2>1, <2>2
<1>. QED
  BY <1>2, <1>3 DEF EncodeRaWindow

\* A release splits the front of the queue into the staged key frame, the
\* members to code and the key frame held for the next release.
LEMMA ReleaseStep ==
  ASSUME IInv, TypeOK', NEW m \in 1..Len(ra_input), NEW key_member \in BOOLEAN,
         EncodeRaWindow(m, key_member)
  PROVE  IInv'
<1>. DEFINE members == Base..(Base + m - 1)
            key     == Base + m - 1
<1>1. /\ Len(ra_input) \in Nat /\ Len(ra_input') \in Nat /\ ra_display_next \in Nat
      /\ delayed_intra \in Nat \cup {None} /\ None \notin Nat
  BY BoundAssumption DEF IInv, TypeOK
<1>2. /\ Len(ra_input') = Len(ra_input) - m
      /\ \A i \in 1..Len(ra_input') : ra_input'[i] = ra_input[i + m]
      /\ Base \in Nat /\ Base' = Base + m
  BY ReleasedQueue
<1>3. /\ frames = {} /\ delayed_intra_out = None
      /\ delayed_intra_out' = delayed_intra
      /\ \/ delayed_intra' = key /\ frames' = members \ {key} /\ m < Len(ra_input)
         \/ delayed_intra' = None /\ frames' = members
  BY ReleasedQueue, DelayedKeyIsNotLast DEF EncodeRaWindow, NothingPending
<1>4. UNCHANGED <<gop, ra_display_next, out, delivered, lost, call, flushed>>
  BY DEF EncodeRaWindow
<1>5. delayed_intra # None => Base > 0 /\ delayed_intra = Base - 1
  BY DEF IInv, Conserved, QueueContiguous
<1>6. QueueContiguous'
  <2>1. Len(ra_input') <= ra_display_next'
    BY <1>1, <1>2, <1>4 DEF IInv, Conserved, QueueContiguous
  <2>2. ASSUME NEW i \in 1..Len(ra_input')
        PROVE  ra_input'[i].display_order = Base' + i - 1
    <3>1. i + m \in 1..Len(ra_input)
      BY <1>1, <1>2
    <3>2. ra_input[i + m].display_order = Base + (i + m) - 1
      BY <3>1 DEF IInv, Conserved, QueueContiguous
    <3>. QED
      BY <1>2, <3>2
  <2>3. delayed_intra' # None => Base' > 0 /\ delayed_intra' = Base' - 1
    BY <1>2, <1>3
  <2>. QED
    BY <2>1, <2>2, <2>3 DEF QueueContiguous
<1>7. Front' = IF delayed_intra' = None THEN Base + m ELSE Base + m - 1
  BY <1>2 DEF Front
<1>8. Staged = {} /\ Staged' = {delayed_intra} \ {None} /\ Front \in Nat
  BY <1>1, <1>2, <1>3, <1>5 DEF Staged, Front
<1>9. Staged' \cup frames' = Front..(Front' - 1)
  <2>1. Staged' \cup members = Front..(Base + m - 1)
    BY <1>1, <1>2, <1>5, <1>8 DEF Front
  <2>2. key \notin Staged'
    BY <1>1, <1>2, <1>5, <1>8
  <2>3. CASE delayed_intra' = key /\ frames' = members \ {key}
    <3>1. Front' = Base + m - 1
      BY <1>1, <1>2, <1>7, <2>3
    <3>2. Staged' \cup frames' = (Front..(Base + m - 1)) \ {key}
      BY <2>1, <2>2, <2>3
    <3>3. Front \in Nat /\ key \in Int
      BY <1>1, <1>2, <1>8
    <3>4. (Front..key) \ {key} = Front..(key - 1)
      <4>. HIDE DEF key
      <4>. QED
        BY <3>3
    <3>. QED
      BY <3>1, <3>2, <3>4, Zenon
  <2>4. CASE delayed_intra' = None /\ frames' = members
    <3>1. Front' = Base + m
      BY <1>7, <2>4, Zenon
    <3>2. Front' - 1 = Base + m - 1
      BY <1>1, <1>2, <3>1
    <3>. QED
      BY <2>1, <2>4, <3>2, Zenon
  <2>. HIDE DEF members, key
  <2>. QED
    BY <1>3, <2>3, <2>4, Zenon
<1>10. Front' \in Nat /\ Front' >= Front
  BY <1>1, <1>2, <1>3, <1>5, <1>7, <1>8 DEF Front
<1>11. delivered \cup lost \cup out = 0..(Front - 1)
  BY <1>3, <1>8 DEF IInv, Conserved
<1>12. Conserved'
  <2>1. (Staged' \cup frames') \cap (delivered \cup lost \cup out) = {}
    BY <1>8, <1>9, <1>11
  <2>2. delivered' \cup lost' \cup out' \cup Staged' \cup frames' = 0..(Front' - 1)
    BY <1>4, <1>8, <1>9, <1>10, <1>11
  <2>3. Staged' \cap frames' = {}
    BY <1>1, <1>2, <1>3, <1>5, <1>8
  <2>4. delivered \cap (lost \cup out) = {} /\ lost \cap out = {}
    BY DEF IInv, Conserved
  <2>. QED
    BY <1>4, <1>6, <2>1, <2>2, <2>3, <2>4 DEF Conserved
<1>13. QueueMarks'
  <2>1. \A i \in 1..Len(ra_input') : i + m \in 1..Len(ra_input)
    BY <1>1, <1>2
  <2>2. ~flushed => \A i \in 1..Len(ra_input') : ~ra_input'[i].is_eos
    BY <1>2, <2>1 DEF IInv, QueueMarks
  <2>3. ASSUME call = "flush", ra_input' # <<>>
        PROVE  ra_input'[Len(ra_input')].is_eos
    <3>1. Len(ra_input') \in 1..Len(ra_input') /\ ra_input # <<>>
      BY <1>1, <1>2, <2>3, EmptySeq DEF TypeOK
    <3>2. ra_input'[Len(ra_input')] = ra_input[Len(ra_input)]
      BY <1>1, <1>2, <3>1
    <3>. QED
      BY <2>3, <3>1, <3>2 DEF IInv, QueueMarks
  <2>. QED
    BY <1>4, <2>2, <2>3 DEF IInv, QueueMarks
<1>14. Settled'
  <2>1. call # "idle"
    BY DEF EncodeRaWindow
  <2>2. Len(ra_input') < gop.mini_gop_size + gop.scd_delay
    BY <1>1, <1>2, GopParameters DEF IInv, Latency
  <2>. QED
    BY <1>4, <2>1, <2>2 DEF Settled
<1>15. InFlightFollows'
  <2>1. \A q \in delivered \cup lost, p \in out : q < p
    BY DEF IInv, InFlightFollows, InFlight
  <2>2. \A q \in delivered \cup lost, p \in Staged' \cup frames' : q < p
    BY <1>8, <1>9, <1>10, <1>11
  <2>. QED
    BY <1>4, <2>1, <2>2 DEF InFlightFollows, InFlight
<1>16. HeldKeyHasFollowers'
  <2>1. delayed_intra' # None => Len(ra_input') > 0
    BY <1>1, <1>2, <1>3
  <2>. QED
    BY <2>1 DEF HeldKeyHasFollowers
<1>17. Latency'
  <2>1. Len(ra_input') <= gop.mini_gop_size + gop.scd_delay /\ call # "idle"
    BY <1>1, <1>2, GopParameters DEF IInv, Latency, EncodeRaWindow
  <2>. QED
    BY <1>4, <2>1 DEF Latency
<1>. QED
  BY <1>12, <1>13, <1>14, <1>15, <1>16, <1>17 DEF IInv

\* A new input goes to the end of the queue; a push never follows a flush.
LEMMA PushStep ==
  ASSUME IInv, TypeOK', TryEncodeFrame
  PROVE  IInv'
<1>. DEFINE new == [display_order |-> ra_display_next,
                    is_key |-> IsKeyFrame(ra_display_next),
                    is_eos |-> FALSE]
<1>1. /\ ra_input \in Seq(BufferedFrame) /\ Len(ra_input) \in Nat
      /\ ra_display_next \in Nat
      /\ delayed_intra \in Nat \cup {None}
  BY DEF IInv, TypeOK
<1>2. /\ Len(ra_input') = Len(ra_input) + 1
      /\ \A i \in 1..Len(ra_input) : ra_input'[i] = ra_input[i]
      /\ ra_input'[Len(ra_input) + 1] = new
      /\ ra_display_next' = ra_display_next + 1
  <2>. HIDE DEF new
  <2>1. ra_input' = Append(ra_input, new) /\ ra_display_next' = ra_display_next + 1
    BY Zenon DEF TryEncodeFrame, new
  <2>. QED
    BY <1>1, <2>1
<1>3. /\ UNCHANGED <<gop, delayed_intra, delayed_intra_out, frames, out, delivered, lost, flushed>>
      /\ call = "idle" /\ call' = "push" /\ ~flushed
  BY DEF TryEncodeFrame
<1>4. NothingPending /\ out = {}
  BY <1>3 DEF IInv, Settled
<1>5. QueueContiguous /\ Base \in Nat /\ Base = ra_display_next - Len(ra_input)
  BY <1>1 DEF IInv, Conserved, QueueContiguous, Base
<1>6. Base' = Base
  <2>1. Base' = ra_display_next' - Len(ra_input')
    BY DEF Base
  <2>. QED
    BY <1>1, <1>2, <1>5, <2>1
<1>7. Front' = Front /\ Staged' = Staged
  BY <1>3, <1>6 DEF Front, Staged
<1>8. QueueContiguous'
  <2>1. Len(ra_input') <= ra_display_next'
    BY <1>1, <1>2, <1>5 DEF QueueContiguous
  <2>2. ASSUME NEW i \in 1..Len(ra_input')
        PROVE  ra_input'[i].display_order = Base' + i - 1
    <3>1. CASE i \in 1..Len(ra_input)
      BY <1>2, <1>5, <1>6, <3>1 DEF QueueContiguous
    <3>2. CASE i = Len(ra_input) + 1
      BY <1>1, <1>2, <1>5, <1>6, <3>2
    <3>. QED
      BY <1>1, <1>2, <3>1, <3>2
  <2>3. delayed_intra' # None => Base' > 0 /\ delayed_intra' = Base' - 1
    BY <1>3, <1>5, <1>6 DEF QueueContiguous
  <2>. QED
    BY <2>1, <2>2, <2>3 DEF QueueContiguous
<1>9. Conserved'
  BY <1>3, <1>7, <1>8 DEF IInv, Conserved
<1>10. QueueMarks'
  <2>1. \A i \in 1..Len(ra_input) : ~ra_input[i].is_eos
    BY <1>3 DEF IInv, QueueMarks
  <2>2. \A i \in 1..Len(ra_input') : ~ra_input'[i].is_eos
    BY <1>1, <1>2, <2>1
  <2>. QED
    BY <1>3, <2>2 DEF QueueMarks
<1>11. Settled'
  BY <1>3, <1>4 DEF Settled, NothingPending
<1>12. InFlightFollows'
  BY <1>3, <1>7 DEF IInv, InFlightFollows, InFlight
<1>13. HeldKeyHasFollowers'
  BY <1>1, <1>2 DEF HeldKeyHasFollowers
<1>14. Latency'
  BY <1>1, <1>2, <1>3, GopParameters DEF IInv, Latency
<1>. QED
  BY <1>9, <1>10, <1>11, <1>12, <1>13, <1>14 DEF IInv

\* try_flush only marks the last entry of the queue.
LEMMA FlushStep ==
  ASSUME IInv, TypeOK', TryFlush
  PROVE  IInv'
<1>1. /\ ra_input \in Seq(BufferedFrame) /\ Len(ra_input) \in Nat
      /\ ra_display_next \in Nat
  BY DEF IInv, TypeOK
<1>2. /\ Len(ra_input') = Len(ra_input)
      /\ \A i \in 1..Len(ra_input) :
           ra_input'[i] = IF i = Len(ra_input) THEN [ra_input[i] EXCEPT !.is_eos = TRUE]
                                               ELSE ra_input[i]
  BY <1>1 DEF TryFlush
<1>3. \A i \in 1..Len(ra_input) : /\ ra_input'[i].display_order = ra_input[i].display_order
                                  /\ i = Len(ra_input) => ra_input'[i].is_eos
  <2>1. \A i \in 1..Len(ra_input) : ra_input[i] \in BufferedFrame
    BY <1>1
  <2>2. \A b \in BufferedFrame :
          /\ [b EXCEPT !.is_eos = TRUE].display_order = b.display_order
          /\ [b EXCEPT !.is_eos = TRUE].is_eos
    BY Zenon DEF BufferedFrame
  <2>. QED
    BY <1>2, <2>1, <2>2
<1>4. /\ UNCHANGED <<gop, ra_display_next, delayed_intra, delayed_intra_out, frames, out,
                     delivered, lost>>
      /\ call = "idle" /\ call' = "flush" /\ flushed'
  BY DEF TryFlush
<1>5. NothingPending /\ out = {}
  BY <1>4 DEF IInv, Settled
<1>6. Base' = Base
  BY <1>2, <1>4 DEF Base
<1>7. Front' = Front /\ Staged' = Staged
  BY <1>4, <1>6 DEF Front, Staged
<1>8. QueueContiguous'
  <2>1. \A i \in 1..Len(ra_input') : ra_input'[i].display_order = Base' + i - 1
    BY <1>2, <1>3, <1>6 DEF IInv, Conserved, QueueContiguous
  <2>. QED
    BY <1>2, <1>4, <1>6, <2>1 DEF IInv, Conserved, QueueContiguous
<1>9. Conserved'
  BY <1>4, <1>7, <1>8 DEF IInv, Conserved
<1>10. QueueMarks'
  <2>1. ra_input' # <<>> => Len(ra_input') \in 1..Len(ra_input)
    BY <1>1, <1>2, EmptySeq DEF TypeOK
  <2>2. ra_input' # <<>> => ra_input'[Len(ra_input')].is_eos
    BY <1>2, <1>3, <2>1
  <2>. QED
    BY <1>4, <2>2 DEF QueueMarks
<1>11. Settled'
  BY <1>4, <1>5 DEF Settled, NothingPending
<1>12. InFlightFollows'
  BY <1>4, <1>7 DEF IInv, InFlightFollows, InFlight
<1>13. HeldKeyHasFollowers'
  <2>1. delayed_intra' # None => Len(ra_input') > 0
    BY <1>1, <1>2, <1>4, EmptySeq DEF IInv, HeldKeyHasFollowers
  <2>. QED
    BY <2>1 DEF HeldKeyHasFollowers
<1>14. Latency'
  BY <1>2, <1>4 DEF IInv, Latency
<1>. QED
  BY <1>9, <1>10, <1>11, <1>12, <1>13, <1>14 DEF IInv

\* The conjuncts that only read the queue, the held key frame and the counters
\* survive a step that leaves those alone.
LEMMA QueueUntouched ==
  ASSUME IInv, UNCHANGED <<gop, ra_input, ra_display_next, delayed_intra, call, flushed>>
  PROVE  /\ Front' = Front
         /\ QueueContiguous'
         /\ QueueMarks'
         /\ HeldKeyHasFollowers'
         /\ Latency'
<1>1. Base' = Base
  BY DEF Base
<1>2. Front' = Front
  BY <1>1 DEF Front
<1>3. QueueContiguous'
  BY <1>1 DEF IInv, Conserved, QueueContiguous
<1>4. QueueMarks' /\ HeldKeyHasFollowers' /\ Latency'
  BY DEF IInv, QueueMarks, HeldKeyHasFollowers, Latency
<1>. QED
  BY <1>2, <1>3, <1>4

\* A picture in flight moves to the bytes of the call: which pictures are in
\* flight does not change.
LEMMA EmitStep ==
  ASSUME IInv, TypeOK', \/ EncodeDelayedIntra
                        \/ \E p \in frames : EncodeMember(p)
  PROVE  IInv'
<1>1. UNCHANGED <<gop, ra_input, ra_display_next, delayed_intra, delivered, lost, call, flushed>>
  BY DEF EncodeDelayedIntra, EncodeMember
<1>2. /\ Front' = Front /\ QueueContiguous' /\ QueueMarks'
      /\ HeldKeyHasFollowers' /\ Latency'
  BY <1>1, QueueUntouched
<1>3. /\ out' \cup Staged' \cup frames' = out \cup Staged \cup frames
      /\ out' \cap (Staged' \cup frames') = {}
      /\ Staged' \cap frames' = {}
      /\ Staged' \subseteq Staged /\ frames' \subseteq frames
      /\ ~NothingPending
  <2>1. out \cap (Staged \cup frames) = {} /\ Staged \cap frames = {}
    BY DEF IInv, Conserved
  <2>2. CASE EncodeDelayedIntra
    <3>1. Staged = {delayed_intra_out} /\ Staged' = {}
      BY <2>2 DEF EncodeDelayedIntra, Staged
    <3>. QED
      BY <2>1, <2>2, <3>1 DEF EncodeDelayedIntra, NothingPending
  <2>3. CASE \E p \in frames : EncodeMember(p)
    <3>1. PICK p \in frames : EncodeMember(p)
      BY <2>3
    <3>2. Staged = {} /\ Staged' = {}
      BY <3>1 DEF EncodeMember, Staged
    <3>. QED
      BY <2>1, <3>1, <3>2 DEF EncodeMember, NothingPending
  <2>. QED
    BY <2>2, <2>3
<1>4. Conserved'
  <2>1. /\ delivered \cup lost \cup (out \cup Staged \cup frames) = 0..(Front - 1)
        /\ (delivered \cup lost) \cap (out \cup Staged \cup frames) = {}
        /\ delivered \cap lost = {}
    BY DEF IInv, Conserved
  <2>. HIDE DEF Front, Staged
  <2>. QED
    BY <1>1, <1>2, <1>3, <2>1 DEF Conserved
<1>5. Settled'
  <2>1. call # "idle" /\ Len(ra_input) < gop.mini_gop_size + gop.scd_delay
    BY <1>3 DEF IInv, Settled
  <2>. QED
    BY <1>1, <2>1 DEF Settled
<1>6. InFlightFollows'
  BY <1>1, <1>3 DEF IInv, InFlightFollows, InFlight
<1>. QED
  BY <1>2, <1>4, <1>5, <1>6 DEF IInv

\* A call returns with nothing in flight: its bytes are delivered.
LEMMA ReturnStep ==
  ASSUME IInv, TypeOK', Return
  PROVE  IInv'
<1>1. /\ UNCHANGED <<gop, ra_input, ra_display_next, delayed_intra, delayed_intra_out,
                     frames, lost, flushed>>
      /\ frames = {} /\ delayed_intra_out = None
      /\ delivered' = delivered \cup out /\ out' = {} /\ call' = "idle"
  BY DEF Return, NothingPending
<1>2. Base' = Base
  BY <1>1 DEF Base
<1>3. Front' = Front /\ Staged = {} /\ Staged' = {}
  BY <1>1, <1>2 DEF Front, Staged
<1>4. Conserved'
  <2>1. QueueContiguous'
    BY <1>1, <1>2 DEF IInv, Conserved, QueueContiguous
  <2>2. /\ delivered \cup lost \cup out = 0..(Front - 1)
        /\ lost \cap (delivered \cup out) = {}
    BY <1>1, <1>3 DEF IInv, Conserved
  <2>. QED
    BY <1>1, <1>3, <2>1, <2>2 DEF Conserved
<1>5. QueueMarks' /\ HeldKeyHasFollowers'
  BY <1>1 DEF IInv, QueueMarks, HeldKeyHasFollowers
<1>6. Settled'
  BY <1>1 DEF Settled, NothingPending
<1>7. InFlightFollows'
  BY <1>1, <1>3 DEF InFlightFollows, InFlight
<1>8. Latency'
  <2>1. TypeOK /\ Len(ra_input) \in Nat
    BY DEF IInv, TypeOK
  <2>2. Len(ra_input) < gop.mini_gop_size + gop.scd_delay
    <3>1. CASE call = "push" /\ ~Fire
      BY <2>1, <3>1, LongQueueFires, GopParameters
    <3>2. CASE call = "flush" /\ ra_input = <<>>
      BY <2>1, <3>2, EmptySeq, GopParameters
    <3>. QED
      BY <3>1, <3>2 DEF Return
  <2>. QED
    BY <1>1, <2>1, <2>2, GopParameters DEF Latency
<1>. QED
  BY <1>4, <1>5, <1>6, <1>7, <1>8 DEF IInv

\* A call fails: everything in flight is lost, nothing else moves.
LEMMA FailStep ==
  ASSUME IInv, TypeOK', Fail
  PROVE  IInv'
<1>1. /\ UNCHANGED <<gop, ra_input, ra_display_next, delayed_intra, delivered, flushed>>
      /\ frames' = {} /\ delayed_intra_out' = None /\ out' = {} /\ call' = "idle"
      /\ lost' = lost \cup out \cup frames \cup Staged
      /\ ~NothingPending
  BY DEF Fail, Staged
<1>2. Base' = Base
  BY <1>1 DEF Base
<1>3. Front' = Front /\ Staged' = {}
  BY <1>1, <1>2 DEF Front, Staged
<1>4. Conserved'
  <2>1. QueueContiguous'
    BY <1>1, <1>2 DEF IInv, Conserved, QueueContiguous
  <2>2. /\ delivered \cup lost \cup out \cup Staged \cup frames = 0..(Front - 1)
        /\ delivered \cap (lost \cup out \cup Staged \cup frames) = {}
    BY DEF IInv, Conserved
  <2>. QED
    BY <1>1, <1>3, <2>1, <2>2 DEF Conserved
<1>5. QueueMarks' /\ HeldKeyHasFollowers'
  BY <1>1 DEF IInv, QueueMarks, HeldKeyHasFollowers
<1>6. Settled'
  BY <1>1 DEF Settled, NothingPending
<1>7. InFlightFollows'
  BY <1>1, <1>3 DEF InFlightFollows, InFlight
<1>8. Latency'
  BY <1>1 DEF IInv, Latency, Settled
<1>. QED
  BY <1>4, <1>5, <1>6, <1>7, <1>8 DEF IInv

-----------------------------------------------------------------------------
(* The invariant and what follows from it.                                 *)

LEMMA InitIInv == Init => IInv
<1>. SUFFICES ASSUME Init
              PROVE  IInv
  OBVIOUS
<1>1. /\ ra_input = <<>> /\ ra_display_next = 0 /\ delayed_intra = None
      /\ delayed_intra_out = None /\ frames = {} /\ out = {} /\ delivered = {}
      /\ lost = {} /\ call = "idle" /\ flushed = FALSE /\ gop \in GopConfigs
  BY DEF Init
<1>2. TypeOK
  <2>1. <<>> \in Seq(BufferedFrame)
    BY EmptySeq, Zenon
  <2>. QED
    BY <2>1, Zenon DEF Init, TypeOK
<1>3. Len(ra_input) = 0
  BY <1>1, EmptySeq
<1>4. Base = 0 /\ Front = 0 /\ Staged = {}
  <2>1. Base = 0
    <3>1. Base = ra_display_next - Len(ra_input) /\ ra_display_next = 0
      BY <1>1, Zenon DEF Base
    <3>. QED
      BY <1>3, <3>1
  <2>2. Front = 0
    BY <1>1, <2>1, Zenon DEF Front
  <2>. QED
    BY <1>1, <2>1, <2>2 DEF Staged
<1>5. Conserved
  BY <1>1, <1>3, <1>4 DEF Conserved, QueueContiguous
<1>6. QueueMarks /\ Settled /\ InFlightFollows /\ HeldKeyHasFollowers
  BY <1>1, <1>3 DEF QueueMarks, Settled, NothingPending, InFlightFollows,
                    HeldKeyHasFollowers
<1>7. Latency
  BY <1>2, <1>3, GopParameters DEF Latency
<1>. QED
  BY <1>2, <1>5, <1>6, <1>7 DEF IInv

\* IInv holds in every reachable state.
THEOREM InductiveInvariant == Spec => []IInv
<1>1. IInv /\ TypeOK' /\ [Next]_queueVars => IInv'
  <2>. SUFFICES ASSUME IInv, TypeOK', [Next]_queueVars
                PROVE  IInv'
    OBVIOUS
  <2>1. CASE TryEncodeFrame
    BY <2>1, PushStep
  <2>2. CASE TryFlush
    BY <2>2, FlushStep
  <2>3. ASSUME NEW m \in 1..Len(ra_input), NEW key_member \in BOOLEAN,
               EncodeRaWindow(m, key_member)
        PROVE  IInv'
    BY <2>3, ReleaseStep
  <2>4. CASE EncodeDelayedIntra
    BY <2>4, EmitStep
  <2>5. CASE \E p \in frames : EncodeMember(p)
    BY <2>5, EmitStep
  <2>6. CASE Return
    BY <2>6, ReturnStep
  <2>7. CASE Fail
    BY <2>7, FailStep
  <2>8. CASE UNCHANGED queueVars
    BY <2>8 DEF queueVars, IInv, TypeOK, Conserved, QueueContiguous, QueueMarks, Settled,
                NothingPending, InFlightFollows, InFlight, HeldKeyHasFollowers,
                Latency, Front, Base, Staged
  <2>. QED
    BY <2>1, <2>2, <2>3, <2>4, <2>5, <2>6, <2>7, <2>8 DEF Next, InCall
<1>. QED
  BY <1>1, InitIInv, TypeCorrect, PTL DEF Spec

\* Every accepted picture is in exactly one place: queued, held, staged, being
\* coded, produced, delivered or lost (ra.rs:546-592).
THEOREM PicturesConserved == Spec => []Conserved
<1>1. IInv => Conserved
  BY DEF IInv
<1>. QED
  BY <1>1, InductiveInvariant, PTL

\* The queue never outgrows a mini-GOP and its lookahead (ra.rs:268-289).
THEOREM BoundedLatency == Spec => []Latency
<1>1. IInv => Latency
  BY DEF IInv
<1>. QED
  BY <1>1, InductiveInvariant, PTL

\* encode_ra_window never finds a held key frame and an empty queue, so its arm
\* for a lone key frame (ra.rs:495-515) is dead code.
THEOREM LoneKeyArmIsDead == Spec => []HeldKeyHasFollowers
<1>1. IInv => HeldKeyHasFollowers
  BY DEF IInv
<1>. QED
  BY <1>1, InductiveInvariant, PTL

\* A release outside a flush leaves its whole detector window queued
\* (ra.rs:377-384).
THEOREM LookaheadQueued == Spec => Lookahead
<1>1. ASSUME IInv, [Next]_queueVars, call = "push", Len(ra_input') < Len(ra_input)
      PROVE  /\ Len(ra_input') >= gop.scd_delay
             /\ \A i \in 1..gop.scd_delay : ~ra_input'[i].is_eos
  <2>1. TypeOK /\ Len(ra_input) \in Nat
    BY <1>1 DEF IInv, TypeOK
  <2>2. PICK m \in 1..Len(ra_input), key_member \in BOOLEAN : EncodeRaWindow(m, key_member)
    <3>1. ra_input' # ra_input /\ call # "idle"
      BY <1>1, <2>1
    <3>. QED
      BY <1>1, <3>1 DEF Next, InCall, TryEncodeFrame, TryFlush, EncodeDelayedIntra,
                        EncodeMember, Return, Fail, queueVars
  <2>3. Fire /\ Release(m, key_member)
    BY <1>1, <2>2 DEF EncodeRaWindow
  <2>4. Len(ra_input) - m >= gop.scd_delay
    BY <2>1, <2>3, FiredReleaseLeavesLookahead
  <2>5. /\ Len(ra_input') = Len(ra_input) - m
        /\ \A i \in 1..Len(ra_input') : ra_input'[i] = ra_input[i + m]
    BY <1>1, <2>2, ReleasedQueue
  <2>6. \A i \in 1..Len(ra_input) : ~ra_input[i].is_eos
    BY <1>1 DEF IInv, QueueMarks
  <2>7. gop.scd_delay \in Nat
    BY <2>1, GopParameters
  <2>8. \A i \in 1..gop.scd_delay : i \in 1..Len(ra_input') /\ i + m \in 1..Len(ra_input)
    BY <2>1, <2>4, <2>5, <2>7
  <2>. QED
    BY <2>4, <2>5, <2>6, <2>8
<1>. QED
  BY <1>1, InductiveInvariant, PTL DEF Spec, Lookahead

\* Bytes leave in display order from call to call, whatever fails in between.
THEOREM CallsInOrder == Spec => NeverOutOfOrder
<1>1. ASSUME IInv, [Next]_queueVars
      PROVE  \A p \in delivered' \ delivered, q \in delivered \cup lost : q < p
  <2>1. delivered' \ delivered \subseteq out
    BY <1>1 DEF Next, InCall, TryEncodeFrame, TryFlush, EncodeRaWindow, EncodeDelayedIntra,
                EncodeMember, Return, Fail, queueVars
  <2>. QED
    BY <1>1, <2>1 DEF IInv, InFlightFollows, InFlight
<1>. QED
  BY <1>1, InductiveInvariant, PTL DEF Spec, NeverOutOfOrder

-----------------------------------------------------------------------------
(* Key frames.                                                             *)

\* The queue's key frames are those of the intra period, a held or staged picture is
\* one of them, and no member of a release follows a key frame among the members, which
\* the release would have ended with.
KeyInv ==
  /\ \A i \in 1..Len(ra_input) : ra_input[i].is_key <=> IsKeyFrame(ra_input[i].display_order)
  /\ \A k \in {delayed_intra, delayed_intra_out} \ {None} : IsKeyFrame(k)
  /\ \A p \in frames : GopKey(p) \in frames => GopKey(p) = p
  /\ KeyFrameLeads

\* The key frame of a GOP is a key frame, and the only one from there to the picture.
LEMMA GopKeyOpens ==
  ASSUME TypeOK, NEW p \in Nat
  PROVE  GopKey(p) \in 0..p /\ IsKeyFrame(GopKey(p))
<1>. DEFINE period == gop.intra_period
            r      == p % period
            q      == p \div period
<1>1. period \in Nat /\ period >= 2
  BY GopParameters
<1>2. r \in Nat /\ q \in Nat /\ p = period * q + r
  BY <1>1
<1>3. p - r = period * q
  <2>1. period * q \in Nat
    BY <1>1, <1>2
  <2>. HIDE DEF r, q, period
  <2>. QED
    BY <1>2, <2>1
<1>4. (period * q) % period = 0
  <2>. HIDE DEF r, q, period
  <2>. QED
    BY <1>1, <1>2
<1>5. GopKey(p) = p - r
  BY DEF GopKey
<1>6. p - r \in 0..p
  <2>1. period * q \in Nat
    BY <1>1, <1>2
  <2>. HIDE DEF r, q, period
  <2>. QED
    BY <1>2, <1>3, <2>1
<1>7. GopKey(p) % gop.intra_period = 0
  BY <1>3, <1>4, <1>5
<1>. QED
  BY <1>5, <1>6, <1>7 DEF IsKeyFrame

\* A release ends with its first key frame.
LEMMA KeyEndsRelease ==
  ASSUME IInv, KeyInv, NEW m \in 1..Len(ra_input), NEW key_member \in BOOLEAN,
         EncodeRaWindow(m, key_member), NEW i \in 1..m, ra_input[i].is_key
  PROVE  i = m
<1>1. Len(ra_input) \in Nat
  BY DEF IInv, TypeOK
<1>2. CASE key_member
  <2>1. \A j \in 1..(m - 1) : ~ra_input[j].is_key
    BY <1>2 DEF EncodeRaWindow, Release, FirstKeyAt
  <2>. QED
    BY <1>1, <2>1
<1>3. CASE ~key_member
  <2>1. KeyFree /\ m <= gop.mini_gop_size
    BY <1>1, <1>3, GopParameters DEF EncodeRaWindow, Release, IInv
  <2>. QED
    BY <1>1, <2>1, GopParameters DEF KeyFree, IInv
<1>. QED
  BY <1>2, <1>3

\* The members of a release follow no key frame among them.
LEMMA ReleaseKeys ==
  ASSUME IInv, KeyInv, NEW m \in 1..Len(ra_input), NEW key_member \in BOOLEAN,
         EncodeRaWindow(m, key_member)
  PROVE  KeyInv'
<1>1. /\ Len(ra_input) \in Nat /\ TypeOK
      /\ \A i \in 1..Len(ra_input) : ra_input[i].display_order = Base + i - 1
  BY DEF IInv, TypeOK, Conserved, QueueContiguous
<1>2. /\ Len(ra_input') = Len(ra_input) - m
      /\ \A i \in 1..Len(ra_input') : ra_input'[i] = ra_input[i + m]
      /\ Base \in Nat
      /\ {ra_input[i].display_order : i \in 1..m} = Base..(Base + m - 1)
  BY ReleasedQueue
<1>3. UNCHANGED <<gop, out, delivered, lost>>
  BY DEF EncodeRaWindow
<1>4. \A i \in 1..Len(ra_input') :
         ra_input'[i].is_key <=> IsKeyFrame(ra_input'[i].display_order)
  <2>. SUFFICES ASSUME NEW i \in 1..Len(ra_input')
                PROVE  ra_input'[i].is_key <=> IsKeyFrame(ra_input'[i].display_order)
    OBVIOUS
  <2>1. i + m \in 1..Len(ra_input) /\ ra_input'[i] = ra_input[i + m]
    BY <1>1, <1>2
  <2>. QED
    BY <1>3, <2>1 DEF KeyInv
<1>5. frames' \subseteq Base..(Base + m - 1)
  BY <1>2 DEF EncodeRaWindow
<1>6. ASSUME NEW p \in frames', GopKey(p) \in frames'
      PROVE  GopKey(p) = p
  <2>1. /\ p \in Nat /\ p <= Base + m - 1
        /\ GopKey(p) \in Base..(Base + m - 1) /\ GopKey(p) <= p /\ IsKeyFrame(GopKey(p))
    BY <1>1, <1>2, <1>5, <1>6, GopKeyOpens
  <2>. DEFINE k == GopKey(p)
              i == k - Base + 1
  <2>0. k = GopKey(p)
    OBVIOUS
  <2>2. i \in 1..m /\ i \in 1..Len(ra_input)
    <3>. HIDE DEF k
    <3>. QED
      BY <1>1, <1>2, <2>1, <2>0
  <2>3. ra_input[i].display_order = k
    <3>. HIDE DEF k
    <3>. QED
      BY <1>1, <1>2, <2>1, <2>2, <2>0
  <2>4. ra_input[i].is_key
    <3>. HIDE DEF i
    <3>. QED
      BY <2>1, <2>2, <2>3 DEF KeyInv
  <2>5. i = m
    <3>. HIDE DEF i
    <3>. QED
      BY <2>2, <2>4, KeyEndsRelease
  <2>. HIDE DEF k
  <2>. QED
    BY <1>1, <1>2, <2>1, <2>5, <2>0
<1>7. KeyFrameLeads'
  BY <1>3 DEF KeyInv, KeyFrameLeads, GopKey
<1>8. \A k \in {delayed_intra', delayed_intra_out'} \ {None} : IsKeyFrame(k)
  <2>1. delayed_intra' # None => key_member /\ delayed_intra' = ra_input[m].display_order
    BY DEF EncodeRaWindow, IsDelayedIntra
  <2>2. key_member => ra_input[m].is_key
    BY DEF EncodeRaWindow, Release, FirstKeyAt
  <2>3. delayed_intra' # None => IsKeyFrame(delayed_intra')
    BY <2>1, <2>2 DEF KeyInv
  <2>4. delayed_intra_out' = delayed_intra
    BY DEF EncodeRaWindow
  <2>. QED
    BY <2>3, <2>4 DEF KeyInv
<1>9. \A p : GopKey(p)' = GopKey(p)
  BY <1>3 DEF GopKey
<1>10. \A p : IsKeyFrame(p)' = IsKeyFrame(p)
  BY <1>3 DEF IsKeyFrame
<1>11. \A i \in 1..Len(ra_input') :
          ra_input'[i].is_key <=> (ra_input'[i].display_order % gop'.intra_period = 0)
  BY <1>3, <1>4 DEF IsKeyFrame
<1>12. \A k \in {delayed_intra', delayed_intra_out'} \ {None} : k % gop'.intra_period = 0
  BY <1>3, <1>8 DEF IsKeyFrame
<1>. QED
  BY <1>6, <1>7, <1>9, <1>11, <1>12 DEF KeyInv, IsKeyFrame

\* A new input is marked by the period.
LEMMA PushKeys ==
  ASSUME IInv, KeyInv, TryEncodeFrame
  PROVE  KeyInv'
<1>. DEFINE new == [display_order |-> ra_display_next,
                    is_key |-> IsKeyFrame(ra_display_next),
                    is_eos |-> FALSE]
<1>1. ra_input \in Seq(BufferedFrame) /\ Len(ra_input) \in Nat
  BY DEF IInv, TypeOK
<1>2. /\ ra_input' = Append(ra_input, new)
      /\ UNCHANGED <<gop, delayed_intra, delayed_intra_out, frames, out, delivered, lost>>
  BY DEF TryEncodeFrame
<1>3. new.is_key <=> IsKeyFrame(new.display_order)
  OBVIOUS
<1>4. /\ Len(ra_input') = Len(ra_input) + 1
      /\ \A i \in 1..Len(ra_input) : ra_input'[i] = ra_input[i]
      /\ ra_input'[Len(ra_input) + 1] = new
  <2>. HIDE DEF new
  <2>. QED
    BY <1>1, <1>2
<1>5. \A i \in 1..Len(ra_input') :
         ra_input'[i].is_key <=> IsKeyFrame(ra_input'[i].display_order)
  <2>. HIDE DEF new
  <2>. SUFFICES ASSUME NEW i \in 1..Len(ra_input')
                PROVE  ra_input'[i].is_key <=> IsKeyFrame(ra_input'[i].display_order)
    OBVIOUS
  <2>1. CASE i \in 1..Len(ra_input)
    BY <1>4, <2>1 DEF KeyInv
  <2>2. CASE i = Len(ra_input) + 1
    BY <1>3, <1>4, <2>2
  <2>. QED
    BY <1>1, <1>4, <2>1, <2>2
<1>. QED
  BY <1>2, <1>5 DEF KeyInv, KeyFrameLeads, GopKey, IsKeyFrame

\* try_flush leaves the pictures and their marks as key frames alone.
LEMMA FlushKeys ==
  ASSUME IInv, KeyInv, TryFlush
  PROVE  KeyInv'
<1>1. /\ ra_input \in Seq(BufferedFrame) /\ Len(ra_input) \in Nat
  BY DEF IInv, TypeOK
<1>2. /\ Len(ra_input') = Len(ra_input)
      /\ \A i \in 1..Len(ra_input) :
           ra_input'[i] = IF i = Len(ra_input) THEN [ra_input[i] EXCEPT !.is_eos = TRUE]
                                               ELSE ra_input[i]
  BY <1>1 DEF TryFlush
<1>3. \A b \in BufferedFrame : /\ [b EXCEPT !.is_eos = TRUE].display_order = b.display_order
                               /\ [b EXCEPT !.is_eos = TRUE].is_key = b.is_key
  BY Zenon DEF BufferedFrame
<1>4. \A i \in 1..Len(ra_input) : /\ ra_input'[i].display_order = ra_input[i].display_order
                                  /\ ra_input'[i].is_key = ra_input[i].is_key
  <2>1. \A i \in 1..Len(ra_input) : ra_input[i] \in BufferedFrame
    BY <1>1
  <2>. QED
    BY <1>2, <1>3, <2>1
<1>5. UNCHANGED <<gop, delayed_intra, delayed_intra_out, frames, out, delivered, lost>>
  BY DEF TryFlush
<1>. QED
  BY <1>2, <1>4, <1>5 DEF KeyInv, KeyFrameLeads, GopKey, IsKeyFrame

\* The key frame of a member that is coded has left, for none is staged and no other
\* member is one.
LEMMA EmitKeys ==
  ASSUME IInv, KeyInv, \/ EncodeDelayedIntra
                       \/ \E p \in frames : EncodeMember(p)
  PROVE  KeyInv'
<1>1. /\ UNCHANGED <<gop, ra_input, delayed_intra, delivered, lost>>
      /\ delayed_intra_out' \in {None, delayed_intra_out}
  BY DEF EncodeDelayedIntra, EncodeMember
<1>2. PICK p \in Staged \cup frames : /\ out' = out \cup {p}
                                      /\ frames' \subseteq frames
                                      /\ p \in Staged \/ Staged = {}
  BY DEF EncodeDelayedIntra, EncodeMember, Staged
<1>3. /\ delivered \cup lost \cup out \cup Staged \cup frames = 0..(Front - 1)
      /\ TypeOK /\ Front \in Int
  BY DEF IInv, Conserved, TypeOK, QueueContiguous, Front, Base
<1>4. p \in Nat /\ GopKey(p) \in 0..p /\ GopKey(p) \in 0..(Front - 1)
  <2>1. p \in 0..(Front - 1)
    BY <1>2, <1>3
  <2>2. p \in Nat
    BY <1>3, <2>1
  <2>3. GopKey(p) \in 0..p
    BY <1>3, <2>2, GopKeyOpens
  <2>. QED
    BY <1>3, <2>1, <2>2, <2>3
<1>5. GopKey(p) \in out' \cup delivered \cup lost
  <2>1. CASE p \in Staged
    <3>1. IsKeyFrame(p)
      BY <2>1 DEF KeyInv, Staged
    <3>2. GopKey(p) = p
      BY <1>4, <3>1 DEF GopKey, IsKeyFrame
    <3>. QED
      BY <1>2, <3>2
  <2>2. CASE Staged = {} /\ p \in frames
    <3>1. GopKey(p) \in frames => GopKey(p) = p
      BY <2>2 DEF KeyInv
    <3>. QED
      BY <1>2, <1>3, <1>4, <2>2, <3>1
  <2>. QED
    BY <1>2, <2>1, <2>2
<1>6. GopKey(p)' = GopKey(p)
  BY <1>1 DEF GopKey
<1>7. KeyFrameLeads'
  BY <1>1, <1>2, <1>5 DEF KeyInv, KeyFrameLeads, GopKey
<1>. QED
  BY <1>1, <1>2, <1>7 DEF KeyInv, GopKey, IsKeyFrame

\* A call that ends takes nothing back.
LEMMA EndKeys ==
  ASSUME KeyInv, Return \/ Fail
  PROVE  KeyInv'
<1>1. /\ UNCHANGED <<gop, ra_input, delayed_intra>>
      /\ delayed_intra_out' \in {None, delayed_intra_out} /\ frames' \subseteq frames
      /\ delivered' \cup out' \subseteq delivered \cup out
      /\ delivered \cup out \cup lost \subseteq delivered' \cup out' \cup lost'
  BY DEF Return, Fail
<1>. QED
  BY <1>1 DEF KeyInv, KeyFrameLeads, GopKey, IsKeyFrame

\* No picture passes the key frame of its GOP, whether that is queued, held for the next
\* release or staged for this one, whatever fails (ra.rs:577-583).
THEOREM KeyFrameIsFirst == Spec => []KeyFrameLeads
<1>1. Init => KeyInv
  BY EmptySeq DEF Init, KeyInv, KeyFrameLeads
<1>2. IInv /\ KeyInv /\ [Next]_queueVars => KeyInv'
  <2>. SUFFICES ASSUME IInv, KeyInv, [Next]_queueVars
                PROVE  KeyInv'
    OBVIOUS
  <2>1. CASE TryEncodeFrame
    BY <2>1, PushKeys
  <2>2. CASE TryFlush
    BY <2>2, FlushKeys
  <2>3. ASSUME NEW m \in 1..Len(ra_input), NEW key_member \in BOOLEAN,
               EncodeRaWindow(m, key_member)
        PROVE  KeyInv'
    BY <2>3, ReleaseKeys
  <2>4. CASE EncodeDelayedIntra \/ \E p \in frames : EncodeMember(p)
    BY <2>4, EmitKeys
  <2>5. CASE Return \/ Fail
    BY <2>5, EndKeys
  <2>6. CASE UNCHANGED queueVars
    BY <2>6 DEF queueVars, KeyInv, KeyFrameLeads, GopKey, IsKeyFrame
  <2>. QED
    BY <2>1, <2>2, <2>3, <2>4, <2>5, <2>6 DEF Next, InCall
<1>3. KeyInv => KeyFrameLeads
  BY DEF KeyInv
<1>. QED
  BY <1>1, <1>2, <1>3, InductiveInvariant, PTL DEF Spec

-----------------------------------------------------------------------------
(* The promise to the caller.                                              *)

\* A flush has left nothing behind.
Drained == flushed /\ call = "idle" /\ ra_input = <<>> /\ delayed_intra = None

\* A call that ends settles every pending picture in front of the held and queued ones:
\* all are returned in success, all are lost in failure.
LEMMA CallSettles ==
  ASSUME IInv, Return \/ Fail
  PROVE  /\ Front \in 0..ra_display_next
         /\ delivered' \cup lost' = 0..(Front - 1)
         /\ Promise!Settle(Front)
         /\ ra_input = <<>> /\ delayed_intra = None => Front = ra_display_next
<1>1. /\ ra_display_next \in Nat /\ Len(ra_input) \in Nat
      /\ delayed_intra \in Nat \cup {None}
  BY DEF IInv, TypeOK
<1>2. /\ Len(ra_input) <= ra_display_next
      /\ delayed_intra # None => Base > 0
  BY DEF IInv, Conserved, QueueContiguous
<1>3. Front \in 0..ra_display_next
  <2>1. Base \in 0..ra_display_next
    BY <1>1, <1>2 DEF Base
  <2>. QED
    BY <1>1, <1>2, <2>1 DEF Front
<1>. DEFINE ends  == out \cup Staged \cup frames
            batch == {p \in Promise!Pending : p < Front}
<1>4. /\ (delivered \cup lost) \cup ends = 0..(Front - 1)
      /\ (delivered \cup lost) \cap ends = {}
  BY DEF IInv, Conserved
<1>5. batch = ends
  <2>1. \A p : p \in 0..(ra_display_next - 1) /\ p < Front <=> p \in 0..(Front - 1)
    <3>. HIDE DEF Front
    <3>. QED
      BY <1>1, <1>3
  <2>. HIDE DEF ends, Front
  <2>. QED
    BY <1>4, <2>1 DEF Promise!Pending, Promise!Settled
<1>6. \/ delivered' = delivered \cup ends /\ lost' = lost
      \/ lost' = lost \cup ends /\ delivered' = delivered
  <2>1. CASE Return
    BY <2>1 DEF Return, NothingPending, Staged
  <2>2. CASE Fail
    BY <2>2 DEF Fail, Staged
  <2>. QED
    BY <2>1, <2>2
<1>7. Promise!Settle(Front)
  <2>. HIDE DEF ends
  <2>. QED
    BY <1>5, <1>6, Zenon DEF Promise!Settle
<1>8. delivered' \cup lost' = 0..(Front - 1)
  <2>. HIDE DEF ends, Front
  <2>. QED
    BY <1>4, <1>6
<1>9. ra_input = <<>> => Base = ra_display_next
  BY <1>1, EmptySeq DEF Base
<1>. QED
  BY <1>3, <1>7, <1>8, <1>9, Zenon DEF Front

\* Whatever calls return or lose, in between no picture is left out.
THEOREM FatesAreGapless == Spec => []Promise!Gapless
<1>1. Init => Promise!Gapless
  <2>. SUFFICES ASSUME Init
                PROVE  Promise!Gapless
    OBVIOUS
  <2>1. 0 \in 0..0 /\ 0..(0 - 1) = {}
    OBVIOUS
  <2>2. Promise!Settled = {}
    BY DEF Init, Promise!Settled
  <2>. QED
    BY <2>1, <2>2, Zenon DEF Init, Promise!Gapless
<1>2. ASSUME IInv, Promise!Gapless, [Next]_queueVars
      PROVE  Promise!Gapless'
  <2>1. ra_display_next \in Nat
    BY <1>2 DEF IInv, TypeOK
  <2>2. CASE Return \/ Fail
    <3>1. Front \in 0..ra_display_next /\ delivered' \cup lost' = 0..(Front - 1)
      BY <1>2, <2>2, CallSettles
    <3>2. ra_display_next' = ra_display_next
      BY <2>2 DEF Return, Fail
    <3>. QED
      BY <3>1, <3>2, Zenon DEF Promise!Gapless, Promise!Settled
  <2>3. CASE [Next]_queueVars /\ ~Return /\ ~Fail
    <3>1. /\ delivered' = delivered /\ lost' = lost
          /\ ra_display_next' = ra_display_next \/ ra_display_next' = ra_display_next + 1
      BY <2>3 DEF Next, InCall, TryEncodeFrame, TryFlush, EncodeRaWindow,
                  EncodeDelayedIntra, EncodeMember, queueVars
    <3>2. PICK n \in 0..ra_display_next : delivered \cup lost = 0..(n - 1)
      BY <1>2, Zenon DEF Promise!Gapless, Promise!Settled
    <3>3. n \in 0..ra_display_next'
      BY <2>1, <3>1
    <3>. QED
      BY <3>1, <3>2, <3>3, Zenon DEF Promise!Gapless, Promise!Settled
  <2>. QED
    BY <1>2, <2>2, <2>3
<1>. QED
  BY <1>1, <1>2, InductiveInvariant, PTL DEF Spec

\* The queue keeps the promise made to the caller, whatever fails: a call returns or
\* loses exactly the pictures next in display order, and a flush that empties the queue
\* leaves nothing pending (ra.rs:453-458).
THEOREM KeepsThePromise == Spec => ImplementsPromise
<1>1. Init => Promise!Init
  BY DEF Init, Promise!Init
<1>2. ASSUME IInv, [Next]_queueVars
      PROVE  [Promise!Next]_(Promise!vars)
  <2>1. CASE TryEncodeFrame
    <3>1. ~Drained /\ ~Drained' /\ ra_display_next' = ra_display_next + 1
          /\ delivered' = delivered /\ lost' = lost
      BY <2>1 DEF TryEncodeFrame, Drained
    <3>. QED
      BY <3>1 DEF Promise!Next, Promise!Accept, Drained
  <2>2. CASE TryFlush
    <3>1. ~Drained /\ ~Drained' /\ UNCHANGED <<ra_display_next, delivered, lost>>
      BY <2>2 DEF TryFlush, Drained
    <3>. QED
      BY <3>1 DEF Promise!vars, Drained
  <2>3. CASE Return \/ Fail
    <3>1. /\ Front \in 0..ra_display_next /\ Promise!Settle(Front)
          /\ ra_input = <<>> /\ delayed_intra = None => Front = ra_display_next
      BY <1>2, <2>3, CallSettles
    <3>2. call # "idle"
      BY <1>2, <2>3 DEF Return, Fail, IInv, Settled
    <3>3. ~Drained /\ UNCHANGED <<ra_display_next, ra_input, delayed_intra>>
      BY <2>3, <3>2 DEF Return, Fail, Drained
    <3>4. CASE Drained'
      <4>1. Promise!Settle(ra_display_next)
        BY <3>1, <3>3, <3>4, Zenon DEF Drained
      <4>. QED
        BY <3>3, <3>4, <4>1, Zenon DEF Promise!Next, Promise!Close, Drained
    <3>5. CASE ~Drained'
      <4>1. \E n \in 0..ra_display_next : Promise!Settle(n)
        BY <3>1, Zenon
      <4>. QED
        BY <3>3, <3>5, <4>1, Zenon DEF Promise!Next, Promise!Report, Drained
    <3>. QED
      BY <3>4, <3>5
  <2>4. CASE InCall /\ ~Return
    <3>1. /\ call # "idle" /\ call' # "idle"
          /\ UNCHANGED <<ra_display_next, delivered, lost>>
      BY <1>2, <2>4 DEF InCall, EncodeRaWindow, EncodeDelayedIntra, EncodeMember,
                        IInv, Settled, NothingPending
    <3>. QED
      BY <3>1 DEF Promise!vars
  <2>5. CASE UNCHANGED queueVars
    BY <2>5 DEF queueVars, Promise!vars
  <2>. QED
    BY <1>2, <2>1, <2>2, <2>3, <2>4, <2>5 DEF Next
<1>. QED
  BY <1>1, <1>2, InductiveInvariant, PTL
     DEF Spec, ImplementsPromise, Promise!Spec

=============================================================================
