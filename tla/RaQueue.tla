------------------------------ MODULE RaQueue ------------------------------
(***************************************************************************)
(* The random-access input queue and release driver of EncodePipeline      *)
(* (pipeline/ra.rs): try_encode_frame_420_ra, ra_try_release, try_flush    *)
(* and the queue side of encode_ra_window, down to the moment each         *)
(* picture's packet is appended to the bytes the call returns.             *)
(*                                                                         *)
(* A picture is its display order.  Which picture of a release is coded    *)
(* when, and against which references, is RaPipeline's business; here the  *)
(* members of a release are coded in any order.                            *)
(***************************************************************************)
EXTENDS Naturals, Sequences

CONSTANTS
  GopConfigs,  \* the configurations a pipeline may be built with: records with
               \* mini_gop_size, intra_period (GopStructure) and scd_delay
  MaxPics,     \* bound: number of input pictures
  MayFail,     \* TRUE: coding a picture may return Err (cancellation, ...)
  None         \* no picture

\* ra_config_error refuses intra_period <= 1; derive_scd_delay never returns
\* less than 2, of which the queue itself only needs one.
ASSUME GopAssumption ==
  \A g \in GopConfigs : /\ g.mini_gop_size \in Nat \ {0}
                        /\ g.intra_period \in Nat \ {0, 1}
                        /\ g.scd_delay \in Nat \ {0}

ASSUME BoundAssumption == MaxPics \in Nat /\ MayFail \in BOOLEAN /\ None \notin Nat

VARIABLES
  gop,                \* the configuration, fixed at construction
  ra_input,           \* buffered inputs, in display order
  ra_display_next,    \* display order of the next input
  delayed_intra,      \* the key frame held for the next release, or None
  delayed_intra_out,  \* the held key frame staged for this release, or None
  frames,             \* members of the release being coded, not coded yet
  out,                \* pictures whose packets this call has produced
  delivered,          \* pictures whose packets a call has returned
  lost,               \* pictures a failed call dropped
  call,               \* the call in progress: "idle", "push" or "flush"
  flushed             \* try_flush has been called with something to drain

queueVars == <<gop, ra_input, ra_display_next, delayed_intra, delayed_intra_out,
               frames, out, delivered, lost, call, flushed>>

BufferedFrame == [display_order : Nat, is_key : BOOLEAN, is_eos : BOOLEAN]

Init ==
  /\ gop \in GopConfigs
  /\ ra_input = <<>>
  /\ ra_display_next = 0
  /\ delayed_intra = None
  /\ delayed_intra_out = None
  /\ frames = {}
  /\ out = {}
  /\ delivered = {}
  /\ lost = {}
  /\ call = "idle"
  /\ flushed = FALSE

-----------------------------------------------------------------------------
(* Which pictures the next release takes.                                  *)

\* GopStructure::is_key_frame under a live intra period.
IsKeyFrame(display_order) == display_order % gop.intra_period = 0

\* The first key frame of the queue is its k-th entry.
FirstKeyAt(k) ==
  /\ k \in 1..Len(ra_input)
  /\ ra_input[k].is_key
  /\ \A i \in 1..(k - 1) : ~ra_input[i].is_key

\* No key frame among the next mini_gop_size entries.
KeyFree == \A i \in 1..Len(ra_input) : i <= gop.mini_gop_size => ~ra_input[i].is_key

\* Mutants of Fire: the lookahead is one short, or one too long.
FireEarly ==
  \/ \E k \in 1..gop.mini_gop_size :
        FirstKeyAt(k) /\ Len(ra_input) + 1 >= k + gop.scd_delay
  \/ KeyFree /\ Len(ra_input) + 1 >= gop.mini_gop_size + gop.scd_delay

FireLate ==
  \/ \E k \in 1..gop.mini_gop_size :
        FirstKeyAt(k) /\ Len(ra_input) > k + gop.scd_delay
  \/ KeyFree /\ Len(ra_input) > gop.mini_gop_size + gop.scd_delay

\* ra_try_release: the next release's last member has its lookahead queued.
Fire ==
  \/ \E k \in 1..gop.mini_gop_size :
        FirstKeyAt(k) /\ Len(ra_input) >= k + gop.scd_delay
  \/ KeyFree /\ Len(ra_input) >= gop.mini_gop_size + gop.scd_delay

\* encode_ra_window: a release of m entries, the last one a key frame or not.
Release(m, key_member) ==
  \/ key_member /\ m <= gop.mini_gop_size /\ FirstKeyAt(m)
  \/ ~key_member /\ KeyFree /\ (\/ m = gop.mini_gop_size /\ m <= Len(ra_input)
                                \/ m = Len(ra_input) /\ m < gop.mini_gop_size)

\* Mutant of IsDelayedIntra: the last input is held as well.
IsDelayedIntraAtEnd(m, key_member) == key_member

\* svt_aom_is_delayed_intra under a live intra period.
IsDelayedIntra(m, key_member) == key_member /\ ~ra_input[m].is_eos

\* No picture of an earlier release of this call is still to be coded.
NothingPending == frames = {} /\ delayed_intra_out = None

-----------------------------------------------------------------------------
(* The operations.                                                         *)

\* try_encode_frame_420_ra up to its call of ra_try_release.
TryEncodeFrame ==
  /\ call = "idle"
  /\ ~flushed
  /\ ra_display_next < MaxPics
  /\ ra_input' = Append(ra_input, [display_order |-> ra_display_next,
                                   is_key |-> IsKeyFrame(ra_display_next),
                                   is_eos |-> FALSE])
  /\ ra_display_next' = ra_display_next + 1
  /\ call' = "push"
  /\ UNCHANGED <<gop, delayed_intra, delayed_intra_out, frames, out, delivered, lost, flushed>>

\* try_flush: the last queued input carries end_of_sequence_flag.
TryFlush ==
  /\ call = "idle"
  /\ ra_input # <<>> \/ delayed_intra # None
  /\ ra_input' = [i \in 1..Len(ra_input) |->
                    IF i = Len(ra_input) THEN [ra_input[i] EXCEPT !.is_eos = TRUE]
                                         ELSE ra_input[i]]
  /\ call' = "flush"
  /\ flushed' = TRUE
  /\ UNCHANGED <<gop, ra_display_next, delayed_intra, delayed_intra_out, frames, out,
                 delivered, lost>>

\* Mutant of EncodeRaWindow: the held key member stays among the members.
EncodeRaWindowKeepsKey(m, key_member) ==
  /\ NothingPending
  /\ \/ call = "push" /\ Fire
     \/ call = "flush" /\ ra_input # <<>>
  /\ Release(m, key_member)
  /\ delayed_intra_out' = delayed_intra
  /\ delayed_intra' = IF IsDelayedIntra(m, key_member) THEN ra_input[m].display_order ELSE None
  /\ frames' = {ra_input[i].display_order : i \in 1..m}
  /\ ra_input' = SubSeq(ra_input, m + 1, Len(ra_input))
  /\ UNCHANGED <<gop, ra_display_next, out, delivered, lost, call, flushed>>

\* Mutant of EncodeRaWindow: a flush too only takes releases with a lookahead.
EncodeRaWindowNeverShort(m, key_member) ==
  /\ NothingPending
  /\ call \in {"push", "flush"} /\ Fire
  /\ Release(m, key_member)
  /\ LET members == {ra_input[i].display_order : i \in 1..m}
         key     == ra_input[m].display_order
     IN  /\ delayed_intra_out' = delayed_intra
         /\ IF IsDelayedIntra(m, key_member)
              THEN delayed_intra' = key /\ frames' = members \ {key}
              ELSE delayed_intra' = None /\ frames' = members
  /\ ra_input' = SubSeq(ra_input, m + 1, Len(ra_input))
  /\ UNCHANGED <<gop, ra_display_next, out, delivered, lost, call, flushed>>

\* encode_ra_window: filter_delayed_intra stages the key frame held so far, the
\* members leave the queue, and a delayed key member becomes the held one.
EncodeRaWindow(m, key_member) ==
  /\ NothingPending
  /\ \/ call = "push" /\ Fire
     \/ call = "flush" /\ ra_input # <<>>
  /\ Release(m, key_member)
  /\ LET members == {ra_input[i].display_order : i \in 1..m}
         key     == ra_input[m].display_order
     IN  /\ delayed_intra_out' = delayed_intra
         /\ IF IsDelayedIntra(m, key_member)
              THEN delayed_intra' = key /\ frames' = members \ {key}
              ELSE delayed_intra' = None /\ frames' = members
  /\ ra_input' = SubSeq(ra_input, m + 1, Len(ra_input))
  /\ UNCHANGED <<gop, ra_display_next, out, delivered, lost, call, flushed>>

\* Mutants of EncodeDelayedIntra: the staged key frame is coded even when there
\* is none, or it is cloned out of its place instead of taken.
EncodeDelayedIntraUnchecked ==
  /\ call # "idle"
  /\ out' = out \cup {delayed_intra_out}
  /\ delayed_intra_out' = None
  /\ UNCHANGED <<gop, ra_input, ra_display_next, delayed_intra, frames, delivered, lost,
                 call, flushed>>

EncodeDelayedIntraCloned ==
  /\ delayed_intra_out # None
  /\ out' = out \cup {delayed_intra_out}
  /\ UNCHANGED <<gop, ra_input, ra_display_next, delayed_intra, delayed_intra_out, frames,
                 delivered, lost, call, flushed>>

\* encode_delayed_intra: the staged key frame's packet precedes the members'.
EncodeDelayedIntra ==
  /\ delayed_intra_out # None
  /\ out' = out \cup {delayed_intra_out}
  /\ delayed_intra_out' = None
  /\ UNCHANGED <<gop, ra_input, ra_display_next, delayed_intra, frames, delivered, lost,
                 call, flushed>>

\* Mutant of EncodeMember: the members do not wait for the staged key frame.
EncodeMemberEager(p) ==
  /\ p \in frames
  /\ frames' = frames \ {p}
  /\ out' = out \cup {p}
  /\ UNCHANGED <<gop, ra_input, ra_display_next, delayed_intra, delayed_intra_out,
                 delivered, lost, call, flushed>>

\* One turn of encode_ra_window's emit loop.
EncodeMember(p) ==
  /\ delayed_intra_out = None
  /\ p \in frames
  /\ frames' = frames \ {p}
  /\ out' = out \cup {p}
  /\ UNCHANGED <<gop, ra_input, ra_display_next, delayed_intra, delayed_intra_out,
                 delivered, lost, call, flushed>>

\* ra_try_release's loop ends, or try_flush's: the call returns its bytes.
Return ==
  /\ NothingPending
  /\ \/ call = "push" /\ ~Fire
     \/ call = "flush" /\ ra_input = <<>> /\ delayed_intra = None
  /\ delivered' = delivered \cup out
  /\ out' = {}
  /\ call' = "idle"
  /\ UNCHANGED <<gop, ra_input, ra_display_next, delayed_intra, delayed_intra_out, frames,
                 lost, flushed>>

\* Mutant of Fail: the staged key frame survives the call.
FailKeepsStaged ==
  /\ MayFail
  /\ ~NothingPending
  /\ lost' = lost \cup out \cup frames
  /\ frames' = {}
  /\ out' = {}
  /\ call' = "idle"
  /\ UNCHANGED <<gop, ra_input, ra_display_next, delayed_intra, delayed_intra_out, delivered,
                 flushed>>

\* encode_frame_impl returns Err: `?` drops the bytes of this call, the local
\* frames and the taken delayed_intra_out.  The queue is already drained.
Fail ==
  /\ MayFail
  /\ ~NothingPending
  /\ lost' = lost \cup out \cup frames \cup ({delayed_intra_out} \ {None})
  /\ frames' = {}
  /\ delayed_intra_out' = None
  /\ out' = {}
  /\ call' = "idle"
  /\ UNCHANGED <<gop, ra_input, ra_display_next, delayed_intra, delivered, flushed>>

\* The steps a call takes by itself once it has started.
InCall ==
  \/ \E m \in 1..Len(ra_input), key_member \in BOOLEAN : EncodeRaWindow(m, key_member)
  \/ EncodeDelayedIntra
  \/ \E p \in frames : EncodeMember(p)
  \/ Return

Next == TryEncodeFrame \/ TryFlush \/ InCall \/ Fail

Spec == Init /\ [][Next]_queueVars

\* A call is synchronous code: once started, it runs until it returns.
FairSpec == Spec /\ WF_queueVars(InCall)
-----------------------------------------------------------------------------
(* What must hold.                                                         *)

\* The display order of the first queued input, and of the first picture no
\* release has sent to be coded (the held key frame's, when there is one).
Base  == ra_display_next - Len(ra_input)
Front == IF delayed_intra = None THEN Base ELSE Base - 1

Staged == {delayed_intra_out} \ {None}

\* Every variable has its type.
TypeOK ==
  /\ gop \in GopConfigs
  /\ ra_input \in Seq(BufferedFrame)
  /\ ra_display_next \in Nat
  /\ delayed_intra \in Nat \cup {None}
  /\ delayed_intra_out \in Nat \cup {None}
  /\ frames \subseteq Nat
  /\ out \subseteq Nat
  /\ delivered \subseteq Nat
  /\ lost \subseteq Nat
  /\ call \in {"idle", "push", "flush"}
  /\ flushed \in BOOLEAN

\* ra_input and the key frame held in front of it are the newest inputs in
\* display order: no release leaves a gap in the queue or holds a stale key.
QueueContiguous ==
  /\ Len(ra_input) <= ra_display_next
  /\ \A i \in 1..Len(ra_input) : ra_input[i].display_order = Base + i - 1
  /\ delayed_intra # None => Base > 0 /\ delayed_intra = Base - 1

\* No accepted picture is dropped or coded twice on its way through queue,
\* hold, staging and emit loop (ra.rs:546-592): it is in exactly one place.
Conserved ==
  /\ QueueContiguous
  /\ delivered \cup lost \cup out \cup Staged \cup frames = 0..(Front - 1)
  /\ delivered \cap (lost \cup out \cup Staged \cup frames) = {}
  /\ lost \cap (out \cup Staged \cup frames) = {}
  /\ out \cap (Staged \cup frames) = {}
  /\ Staged \cap frames = {}

\* The key frame that opens the GOP of picture p.
GopKey(p) == p - (p % gop.intra_period)

\* No picture is coded before the key frame of its GOP, whose references it needs: the
\* key frame held over a release is coded before every member of the next one
\* (ra.rs:577-583), and nothing passes it while it is held or staged, unless a failed
\* call has lost it.
KeyFrameLeads ==
  \A p \in out \cup delivered : GopKey(p) \in out \cup delivered \cup lost

\* The buffer is bounded: no more than a mini-GOP and its lookahead stay queued
\* after a push, so a caller waits for a picture that long at most.
Latency ==
  /\ Len(ra_input) <= gop.mini_gop_size + gop.scd_delay
  /\ call = "idle" => Len(ra_input) < gop.mini_gop_size + gop.scd_delay

\* A held key frame always has a release to come: encode_ra_window's arm for a
\* held key frame and an empty queue (ra.rs:495-515) is never needed.
HeldKeyHasFollowers ==
  delayed_intra # None => ra_input # <<>>

\* Outside a flush every released picture leaves scd_delay later inputs queued,
\* none of them marked as the last one: its detector turn has its whole window
\* (ra.rs:377-384).
Lookahead ==
  [][call = "push" /\ Len(ra_input') < Len(ra_input)
       => /\ Len(ra_input') >= gop.scd_delay
          /\ \A i \in 1..gop.scd_delay : ~ra_input'[i].is_eos]_queueVars

\* No call returns a picture that precedes, in display order, one that an
\* earlier call returned or lost, whatever fails in between.
NeverOutOfOrder ==
  [][\A p \in delivered' \ delivered, q \in delivered \cup lost : q < p]_queueVars

\* Between calls every key frame taken so far has been returned: a key frame
\* "drains the partial window FIRST, then codes itself" in the call that takes it
\* (ra.rs:228-230).
KeyFrameCodesItself ==
  call = "idle" =>
    \A p \in 0..(ra_display_next - 1) : IsKeyFrame(p) => p \in delivered

\* The promise to the caller: every call returns, or loses when it fails, exactly the
\* pictures next in display order, and a flush that leaves the queue empty leaves nothing
\* pending.
Promise == INSTANCE ReorderedDelivery
             WITH accepted <- ra_display_next,
                  returned <- delivered,
                  closed   <- /\ flushed /\ call = "idle"
                              /\ ra_input = <<>> /\ delayed_intra = None

ImplementsPromise == Promise!Spec

\* Every call returns: the release loops of ra_try_release and try_flush make
\* progress whatever the queue holds.
CallsReturn == (call # "idle") ~> (call = "idle")

\* Once a flush was asked for, and unless some call fails, every accepted picture
\* is delivered.
FlushDrains ==
  flushed ~> (call = "idle" /\ (lost = {} => delivered = 0..(ra_display_next - 1)))
=============================================================================
