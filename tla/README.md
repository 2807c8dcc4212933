# TLA+ verification of the encode pipeline

This directory models the control of the AV1 encoder in
`src/rust/crates/svtav1-encoder` - which picture is coded when, against which
references, in which bytes of which call, by which threads, charged to which rate
control state, and what survives a call that fails - and of the target-quality
search around it, and leaves the pixel arithmetic alone. Paths below are relative to
`src/rust/crates/svtav1-encoder/src/` unless they say otherwise.

## 1. Inventory

`EncodePipeline` is driven by plain calls on `&mut self`: the caller pushes one
picture per call and receives bytes, or an error. There is no background thread
between calls; the only concurrency is inside the coding of one picture (tile
threads, and a stop token another thread may fire at any time). What makes the
program hard is therefore less scheduling than *memory across calls*: queues, held
pictures, ring toggles, rate counters, and several copies of the reference buffer
that are updated at different moments of a call which may fail between them.

| Component | Code | State it keeps | Operations | Interacts with | What is hard | What makes it correct |
|---|---|---|---|---|---|---|
| Random-access (RA) queue and release driver | `pipeline/ra.rs` 185-290, 355-600 | `ra_input`, `ra_display_next`, `delayed_intra`, `delayed_intra_out` | push, release, flush | calls picture decision and coding for each release | a key frame is held over from one release to the next; `?` anywhere in coding drops the bytes of a call after the queue was drained | no picture dropped, doubled or reordered; bounded latency; full lookahead; flush drains |
| Mini-GOP split | `port_picstruct/mini_gop.rs` | none | one pure function | called by RA picture decision | offset table of 31 shapes with an exception for a key frame at the end | mini-GOPs tile the release; only the last is short, and then shallow |
| RA picture decision | `pipeline/ra.rs` 677-1048, `port_picstruct_ra.rs`, `port_picstruct/refs.rs` | `pd_ctx`: position walk, ring toggles, shadow DPB, two decode counters | decide a release | ahead of coding by a whole release | toggles and slots reused before their pictures are dead; hidden pictures shown later through a slot | every reference is the picture it is meant to be; each picture is shown once, in order |
| RA emission | `pipeline/ra.rs` 540-675, 1376-1395 | `tu_open`, the encoder's DPB | emit loop, held key frame | bytes to caller, DPB | unit delimiters around hidden pictures and show_existing headers | whole temporal units; encoder's and decoder's buffers agree |
| Low-delay (LD) decision and sequencing | `pipeline.rs` 51-560, `pipeline/ra.rs` 19-183, `pipeline/pack_phase.rs` 1290-1400, `port_picstruct/rps.rs` | `frame_count`, `pd_ctx`, `dpb`, long-term reference | one call per picture | coding | three pieces of state advance at three points of a call that may fail between any two | references in sync, inside the GOP, fresh; damage of a failed call is local |
| Frame coding core | `encode_frame_impl`, `filter_and_pack_frame` | DPB of reconstructions | code one picture | tile walk, entropy coder | late errors behind the DPB refresh | as above, seen from the pipelines |
| Entry points, configuration checks | `pipeline/entry.rs`, `pipeline/setup.rs`, `pipeline/config_check.rs` | configuration | refuse / dispatch | both pipelines | - | refusals leave state untouched |
| Tile-parallel walk | `pipeline/tile_walk.rs`, `pipeline/tile_walk/tile_body.rs`, `pipeline/tile_walk/cu.rs` | per-wave thread handles, joined results | spawn a wave, join, collect | coding core; stop token | tiles end, fail and are cancelled in any order | the answer of a walk in tile order; threads within the limit; none outlives the call |
| Cooperative cancellation | stop checks in `pipeline.rs`, `pipeline/pack_phase.rs`, `tile_walk/` | a flag | fire, poll | every call, every tile thread | fires between any two polls, seen by some tiles and not by others | reported, never a frame that lacks tiles |
| Long-term reference management | `port_ref_mgmt.rs` | managed slots | store, use, clear | decision | not reachable: `max_managed_refs` is 0 | - |
| S-frames | `port_sframe.rs` | S-frame position | place, reset references | decision | not enabled by any pipeline configuration | - |
| Rate control | `pipeline/cbr.rs`, `port_rc_process.rs`, `port_rc_vbr_cbr_state.rs`, `port_rc_vbr_cbr_qpick.rs`, `port_rc_vbr_cbr_update.rs` | counters since and to a key frame, buffer level, refresh band and its adjustment | pick a quantiser before coding, charge the packet behind it | low-delay calls, which may fail before, between and behind the two | the charge is not undone when the call fails behind it | counters follow the GOP; the band goes round the frame; the level follows the channel |
| Scene detection, temporal filtering, TPL | `port_picstruct/scene.rs`, `port_picstruct/tf.rs`, `pipeline/tpl_stage.rs` | histograms, propagation | arithmetic | read the lookahead | - | numeric |
| Target-quality search | `src/rust/crates/svtav1-target/src/search.rs`, `trial.rs` (from the repository's root) | bracket, trials, best trial, budget | try, narrow, step, stop | whole encodes and a judge | score curves that are flat, rough or partly unscored | bracket keeps the target; best trial wins; no encode repeated; the search ends |
| Entropy coder, partition and mode decision, kernels, container front end | many | none across calls | pure functions | - | numeric | bit exactness; tested by the repository against references |

`PROJECT.json` lists the same components with their status, and the hazards -
places where this code is hard to test - with the properties that cover each.

## 2. Modules

```
ReorderedDelivery   what the caller is promised
      ^ implemented by (refinement, proved and checked)
RaQueue             queue, held key frame, calls, failures       RaQueue_proofs
      ^ instanced as Q: every pipeline step is a queue step (proved)
RaPipeline          decisions, packets, two reference buffers,   RaPipeline_proofs
                    decoder
      | extends
PictureDecision     passes 1-3 of the RA decision   Decoder      PictureDecision_proofs
      | extends                                     (the caller's)
RefTables, MiniGop  tables and the cut of a release              MCMiniGop_proofs

LowDelay            one picture per call; extends PictureDecision
      |             and Decoder                                  LowDelay_proofs
      | extends; every step of Cbr is a step of LowDelay (proved)
Cbr                 rate control over the low-delay calls        Cbr_proofs

OrderedWalk         the tiles of a frame one after the other
      ^ implemented by (refinement, safety proved, liveness checked)
TileWalk            waves of tile threads, stop token            TileWalk_proofs

TargetSearch        the quantiser search around whole encodes    TargetSearch_proofs
```

The `MC*` modules give each module's constants their values for TLC.

A picture is its display order everywhere; a slot of a reference buffer holds a
display order or `Empty`; a packet is a record with the header fields a decoder's
buffer depends on.

**RaQueue** - one step per moment at which state changes hands:

| Action | Code |
|---|---|
| `TryEncodeFrame` | `try_encode_frame_420_ra` up to its call of `ra_try_release` |
| `TryFlush` | `try_flush` up to its loop: the last queued entry is marked end of sequence |
| `EncodeRaWindow(m, key)` | one turn of either loop: the trigger (`Fire`), the window (`Release`), `filter_delayed_intra` staging the held key frame, the drain, and the new held key frame |
| `EncodeDelayedIntra`, `EncodeMember(p)` | one coded picture each |
| `Return` | the loop ends and the call returns its bytes |
| `Fail` | coding returns `Err`: this call's bytes, its uncoded members and the staged key frame are gone; queue and held key frame stay |

`Fail` is enabled only while a picture is being coded. Earlier `?` operators of
the call cannot fire in a state the program reaches: configuration refusals
precede every state change, the TPL stage only returns `Ok`, and picture decision
never rejects (property `NeverRejects`). Members are coded in any order here;
RaPipeline fixes the order.

**MiniGop** - `initialize_mini_gop_activity_array` becomes the set of deactivated
shapes, `generate_picture_window_split` a recursive function over the shape table,
`handle_incomplete_picture_window_map` the added short mini-GOP.
**RefTables**, **PictureDecision** - prediction-structure rows, ring arithmetic,
reference slots of every level, list lengths under each multi-reference (MRP)
setting, refresh masks, show_existing slots, the position walk and the decode order.
**Decoder** - what a conforming decoder does with headers: refresh slots, show a
picture or a slot; it also records a picture as damaged when a slot does not hold
what the encoder predicted from.
**RaPipeline** - the queue's actions conjoined with what they do to decisions,
packets, buffers and decoder. `Fail` may strike before or after the failing
picture's reconstruction enters the DPB.
**ReorderedDelivery** - `Accept` a picture; `Report`: a call that ends returns, or loses
with an error in their place, the pending pictures in front of some display order, all of
them and nothing else; `Close`: a flush that drains does so with everything pending. It
knows neither mini-GOPs nor held key frames. Its `returned` and `lost` are the sets of
pictures of those names in RaQueue (`delivered`, `lost`), so which pictures a call settles
is part of the refinement, not only how many.
**LowDelay** - `TryEncodeFrame` (decision state advances), `Code` (DPB refresh),
`Return` (`frame_count` advances, bytes reach the decoder), `Fail` between any two of
them, and `Refuse`: CBR has prediction rows for some positions of a mini-GOP only and
rejects the others behind the position walk, which stays advanced. Both arms of
`generate_rps_info` that a configuration reaches are here: `rps_low_delay_cqp`
(`LowDelayRow`, `LowDelayRefresh`) and `rps_low_delay_cbr` (`CbrRow`, `CbrRefresh`).
**Cbr** - the actions of LowDelay conjoined with the two steps of one-pass CBR inside
a call: `CbrFrameQindex` (`process_rate_allocation`, `cyclic_refresh_init` and
`cyclic_refresh_setup`, between decision and coding) and `CbrPostencode`
(`postencode_update`, `update_rc_counts`, `update_buffer_level`, between
reconstruction and packet). `CbrFail` may strike at each of the four moments of a call.
**TileWalk** - the calling thread's `SpawnWave`, `Join` and `Collect`, each tile's
`Start`, `Poll`, `CodeSb` and `StopInside`, and the caller's `Cancel`; threads
interleave freely. With a limit of one the same actions are the sequential `collect()`
that ends at the first error. **OrderedWalk** walks one tile after the other.
**TargetSearch** - one turn of `search_target_qp`'s loop per `Trial`, with the bracket,
the fitted or hinted secant step, the fallback to bisection and the three ways to end;
`TrialFails` is `?` in the loop.

Operators whose comment begins with "Mutant of" are plausible bugs: each property
of a passing run is violated when the operator named is replaced by its mutant
(the pairs are listed in `PROJECT.json`).

## 3. Runs

| Run | Question | Properties |
|---|---|---|
| `RaQueue` | Does the queue keep its promise, with a failure possible at any picture of any call? | `TypeOK`, `Conserved`, `KeyFrameLeads`, `Latency`, `HeldKeyHasFollowers`, `Lookahead`, `NeverOutOfOrder`, `ImplementsPromise`, `FlushDrains`, `CallsReturn` |
| `MiniGop` | Is every release cut without gap or overlap? | `CutTiles`, `CutShallowTail` |
| `RaPipeline` | Does a decoder fed the bytes show every input in order, from the references the encoder used, and how far does a failed call's damage go? | `NeverRejects`, `ShownInOrder`, `EmitsEachOnce`, `ReferencesInSync`, `RefsBracket`, `UnitsWellFramed`, `CountersInStep`, `NoRefAcrossKey`, `DamageEndsAtKey` |
| `LowDelay` | Are low-delay references in sync, in their GOP and fresh, under CQP/CRF and CBR, and what do two failed calls anywhere damage? | `LdReferencesInSync`, `LdRefsWithinGop`, `LongTermRenewed`, `TwoBuffersSuffice`, `CbrLayersNest`, `CbrServesTwoLevels`, `DamageIsLocal` |
| `Cbr` | Do rate counters, refresh band and buffer level follow the stream when calls fail around the two steps? | `RateCountersFollowGop`, `BandsTurn`, `BucketFollowsChannel` |
| `TileWalk` | Is the answer of concurrent tile threads that of a walk in tile order? | `BoundedThreads`, `NoThreadOutlives`, `ImplementsOrderedWalk` |
| `TargetSearch` | Does the search keep the target in its bracket, return the best trial and end? | `BracketSound`, `BestOfTrials`, `StopsAtOptimum`, `BisectionSuffices`, `RepeatsOnlyCollapsed`, `Terminates` |
| `RaQueueKeys`, `LowDelayHints`, `LowDelayRetry`, `TargetRepeats`, `TargetUnscored` | Five statements of the repository's comments, each refuted (section 5) | one each |

Bounds, and why they are enough:

* *RaQueue*: `MaxPics` 11; mini-GOP sizes 1, 2, 4, key intervals 2, 3, 5, 9,
  lookahead 2 and 3. Several releases, several key frames, a key frame at every
  place of a mini-GOP, intervals below, at and above the mini-GOP size, failures at
  every picture, again and again, and flushes at every queue length occur. The
  theorems of section 4 remove the bounds.
* *MiniGop*: exhaustive. All levels 0-5 (`gop_config_error` refuses more) and every
  release length up to 32, key-ended or not.
* *RaPipeline*: 72 pictures is two complete level-5 mini-GOPs plus a remainder, so
  every ring wraps; flush is possible after every push. Levels 0-5, key intervals
  that divide the mini-GOP size and that do not, different multi-reference rows. The
  configurations with failures (`MCFaulty`) have 14 pictures and levels 0-2, and a
  failure is possible at every picture of every release, repeatedly. The theorems remove
  these bounds: any number of pictures, any key interval above 1, failures at every level.
* *LowDelay*: 270 pictures, so that the 128-picture renewal of the long-term
  reference happens twice; key intervals 0 (one key frame), 11 and 150, the last
  longer than a renewal period; levels 0-3 under CQP/CRF and 0-2 under CBR; the rows of
  both values of `ld_reduce_ref_buffs` that presets use. The configurations with
  failures have 13 pictures, key intervals 0 and 5 and two failures at any stage of any
  call; under CBR they include the level 3 that it refuses pictures of. The theorems
  remove these bounds.
* *Cbr*: streams of 4 to 10 pictures over GOPs of one, three and five pictures or
  endless, one to three layers and the refused fourth; frames of 4, 7, 13 and 20
  superblocks, so that a band is empty, one superblock or several and wraps in the
  middle of a band; superblocks of 64 and of 128, for which there is no refresh;
  buffers above and below the default level and none; packets that overspend and that
  save; one failure in most, three in the refusing configuration. The theorems remove
  these bounds.
* *TileWalk*: 1, 2 and 4 tiles, `thread_count` 0, 1, 3 and 9 (auto, sequential, a short
  last wave, more than tiles), two cores, with and without `std`, two superblocks per
  tile, every pattern of tiles that fail at their allocation, at their last superblock
  or not, a cancellation at any moment. The theorems remove the bounds of the safety part.
* *TargetSearch*: every falling curve of six quantisers and four scores with targets
  inside and outside, both step policies, with and without hint, seeds inside, outside
  and absent, budgets 0 (read as 1) to 7; steep lines over fifteen quantisers, where the
  secant steps far; every curve of four quantisers that rises, falls or is partly
  unscored.

Deadlock checking is off where the model stops because its input is used up.

Fairness is stated where a property needs it, and never for callers or failures:

* RaQueue: weak fairness on `InCall` - a call that has begun goes on, because it is
  synchronous code that takes its next step whenever it can. The caller may never push
  again or flush. `FlushDrains` and `CallsReturn` hold with failures.
* TileWalk: weak fairness on the calling thread's step and on *some* tile's step. The
  operating system schedules threads; nothing is said of which one. `Cancel` is unfair.
  `ImplementsOrderedWalk` includes that the ordered walk goes on and returns.
* TargetSearch: weak fairness on `Trial`, a loop of the caller's thread.

The other specifications state safety only and need none.

## 4. Theorems

`RaQueue_proofs` proves, for every configuration, number of pictures and mini-GOP
size, under `GopAssumption` (sizes positive, key interval above 1, as
`ra_config_error` demands) and `BoundAssumption`:

| Theorem | States |
|---|---|
| `TypeCorrect` | `Spec => []TypeOK` |
| `InductiveInvariant` | `Spec => []IInv` |
| `PicturesConserved` | `Spec => []Conserved` |
| `KeyFrameIsFirst` | `Spec => []KeyFrameLeads` |
| `BoundedLatency` | `Spec => []Latency` |
| `LoneKeyArmIsDead` | `Spec => []HeldKeyHasFollowers` |
| `LookaheadQueued` | `Spec => Lookahead` |
| `CallsInOrder` | `Spec => NeverOutOfOrder` |
| `FatesAreGapless` | `Spec => []Promise!Gapless` |
| `KeepsThePromise` | `Spec => ImplementsPromise`, whatever fails |

The inductive invariant `IInv` joins the checked invariants with what they need:

* `QueueMarks` - no entry carries the end-of-sequence mark before a flush, and the
  last entry carries it during one. Without it a flush could hold the last input as
  a delayed key frame with nothing behind it (`HeldKeyHasFollowers`), and a push
  could meet a mark inside its lookahead (`Lookahead`).
* `Settled` - between calls nothing is staged, being coded or produced, and while
  something is, the queue is below its bound. Without it a call could start on top of
  another's leftovers, and a failing call could leave the queue too long (`Latency`).
* `InFlightFollows` - everything a call has in hand comes behind everything earlier
  calls delivered or lost. Without it `NeverOutOfOrder` is not preserved by `Return`.

`KeyFrameLeads` says that a coded picture's key frame has been coded or lost before it.
`KeyInv` makes that inductive. The queue's key frames are those of the intra period, a held
or staged picture is one of them, and no member follows a key frame among the members of
its release. So when `EncodeMember` codes a picture, its key frame can be neither queued
(those come later), nor a member, nor staged or held (the guard that codes the staged key
frame first); by `Conserved` it has left. Without that guard a member is coded in front of
its key frame, which is what the mutant `EncodeMemberEager` does.

`KeepsThePromise` maps pictures to pictures: `returned` to `delivered`, `lost` to `lost`.
The step that needs work is the end of a call (`CallSettles`): what it delivers or loses
is what was in flight, by `Conserved` that is everything pending in front of the held and
queued pictures (`Front`), and those are a display-order suffix of the input. A call that
kept one of its pictures, returned one twice or settled one past a gap would be no step of
the promise. `FatesAreGapless` is the consequence a caller sees: in every state the pictures
returned or lost are `0..(n - 1)` for some n.

`MCMiniGop_proofs`, for every hierarchical level and every release the run enumerates
(`CutTilesEveryRelease`: `Spec => []CutTiles`; `CutTailAlwaysShallow`:
`Spec => []CutShallowTail`), is the small end of `PictureDecision_proofs`, which holds
no theorem of its own but 130 lemmas on what one release computes:

* *The cut*. The shape table is a pyramid: a shape is followed by its two halves, then by
  the shape beside it. `ShapeStart` says where the shapes from an index on begin;
  with it the recursive split produces mini-GOPs that tile the release, of which only
  the last can be short.
* *Order and rows of a complete mini-GOP*. The base picture comes first, the others depth
  first; the rows of `RefTables` for pictures of that order name slots by the temporal
  layer of what is in them.
* *The three passes*. Pass 1 gives each member its place and layer, pass 2 its decode order, whose
  ranks are a permutation (`Ranks`), pass 3 decides one picture after the other.
  `InGop` is the invariant of pass 3 inside a mini-GOP: for each name of a row, which
  picture its slot holds in front of the k-th picture to code. The ring toggles are what
  makes this hard: a name is bound to another slot each time its ring turns, and it must
  not turn onto a slot that a later picture of the mini-GOP still needs. Level 5, the two
  referencing schemes and `more_5l_refs` have rows of their own.
* *The last mini-GOP and the release*. `Rest` is what every mini-GOP leaves to the next:
  position 0, all slots inside the GOP, the newest base picture the last picture.
  `Outcome` chains the mini-GOPs of a release.

The recursive walks are unfolded by induction on the number of pictures. `Induction` states
it for a set in place of an operator - a set that holds 0 and the successor of each of its
numbers holds all of them - and each use gives the set of lengths for which the claim holds.

`RaPipeline_proofs` puts queue and decision together, under `PipelineAssumption`: the
queue's two assumptions, levels 0 to 5 (`gop_config_error` refuses more), a mini-GOP of
2^level pictures (`GopStructure::new`), and a row of `set_mrp_ctrl` with one to four
list-0 and one to three list-1 references, which every row that random access takes
has. All runs of RaPipeline evaluate it. No theorem bounds the number of pictures, and each
holds with any number of failed calls except where it says `lost = {}` itself.

| Theorem | States |
|---|---|
| `PipelineDrivesQueue` | `Spec => Q!Spec`: every step conjoins one queue step, and stuttering stutters |
| `PipelineConserves`, `PipelineInOrder`, `PipelineLoneKeyArmIsDead`, `PipelineKeepsThePromise` | so the queue's theorems hold of the pipeline |
| `DecisionsKeepUp` | `Spec => [](QueueInv /\ DecisionInv)` |
| `NothingRejected` | `Spec => []NeverRejects` |
| `CountersStayInStep` | `Spec => []CountersInStep` |
| `EmissionHolds` | `Spec => []EmissionInv` |
| `EmitOrderComplete` | `Spec => []EmitsEachOnce` |
| `ReferencesBracket` | `Spec => []RefsBracket` |
| `KeyFramesCutReferences` | `Spec => []NoRefAcrossKey` |
| `CodingHolds` | `Spec => []CodingInv` |
| `DecoderShowsInOrder` | `Spec => []ShownInOrder` |
| `BuffersAgree` | `Spec => []ReferencesInSync` |
| `DamageIsContained` | `Spec => []DamageEndsAtKey` |
| `CallsReturnWholeUnits` | `Spec => []UnitsWellFramed` |

The inductive invariant comes in layers, each resting on the ones before:

* `QP!IInv` and `QueueInv`: the queue's invariant, and that its key frames are those of
  the period.
* `DecisionInv`: between releases the decision state has counted the pictures that left
  the queue and is at `Rest` on the last key frame. At rest is not enough when the stream
  is about to end, so it is required only while more pictures may come (`Closed`); and a
  held key frame, decided a release before it is coded, already owns all eight slots.
* `EmissionInv`: the pictures still to be coded form a `Chain` from the buffer and the
  first picture not yet shown that the next one finds to those that the decisions have
  arrived at. It is about decided pictures and no buffer, so a failure, which drops pictures
  between two links, does not disturb it. From a link follow its references' side and GOP.
* `CodingInv`: the encoder's buffer and that of a decoder that has read the bytes so far
  (`Receiver`) are where the first link expects them, or a call has failed since the last key
  frame (`Excused`). That alternative is what makes the invariant inductive with failures:
  a key frame refreshes all slots and makes both agree again.
* `FramingInv`: the bytes of the call in progress are whole temporal units but for the last
  one, open exactly when `tu_open` says so.

`LowDelay_proofs`, for every key interval, reduction, number of levels, length of stream
and number of failed calls (`LdAssumption`: what ranges the configuration's fields have;
`LdTableAssumption`: at most five levels, as `gop_config_error` demands, and reduced
buffers only with one reference in list 0 and none in list 1, which of the rows of
`set_mrp_ctrl` that low delay takes only row 0 has; the last four theorems need it):

| Theorem | States |
|---|---|
| `LdInductiveInvariant` | `Spec => []LdIInv` |
| `NoReferenceAcrossKey` | `Spec => []LdRefsWithinGop` |
| `DamageStaysLocal` | `Spec => []DamageIsLocal` |
| `ReferencesStayInSync` | `Spec => []LdReferencesInSync` |
| `CbrNeverRefusesTwoLevels` | `Spec => []CbrServesTwoLevels` |
| `FreshHolds` | `Spec => []FreshInv` |
| `LongTermKeepsUp` | `Spec => []LongTermRenewed` |
| `TwoBuffersAreEnough` | `Spec => []TwoBuffersSuffice` |
| `CbrLayersStayNested` | `Spec => []CbrLayersNest` |

`LdIInv` rests on two facts. `SlotsInGop`: a key frame refreshes all eight slots, so
from then on every slot of the decision's buffer holds a picture of its GOP. `InStep`:
the decision's, the encoder's and the decoder's buffers agree but for what the call in
progress has changed so far - as long as every failed call is behind a key frame that
has been returned since (`Healed`). Without `Healed` nothing would lead from a failed
call back to agreement, and `DamageIsLocal` could not end at the next key frame.
`PositionInMg` keeps the walk in its mini-GOP whichever calls are repeated; with it
`CbrServesTwoLevels` is a matter of the tables of three levels. The proofs of the first
five theorems use of the reference tables only that a row names slots, so they do not
depend on which.

The last four do. `FreshInv` adds `Fresh`: as long as no call has failed, the walk's
position is the distance from the last key frame modulo the mini-GOP, the long-term slot
holds a base picture less than 128 pictures behind the last base picture, with
`ld_reduce_ref_buffs = 2` the two buffers hold the last base picture and, in the upper half
of a mini-GOP, one of this mini-GOP, and under CBR the slots of base pictures hold base
pictures and only layer 2's own slot is above layer 1. Each is what the next picture's row
relies on. A repeated call moves the walk without the stream, which is why the three
properties speak of pictures in front of the first failure.

`Cbr_proofs`, for every frame size, bit rate, buffer, packet size and number of failed
calls (`CbrAssumption`, and `LdAssumption`):

| Theorem | States |
|---|---|
| `InductiveInvariant` | `CbrSpec => []IInv` |
| `RefreshGoesRound` | `CbrSpec => []BandsTurn` |
| `BucketNeverOverpromises` | `CbrSpec => []BucketFollowsChannel` |
| `CountersFollowGop` | `CbrSpec => []RateCountersFollowGop` |
| `CbrDrivesLowDelay` | `CbrSpec => Spec`: every step is a low-delay step or leaves its state alone |
| `CbrKeepsReferences` | so LowDelay's theorems hold with rate control in the calls, those on renewal, two buffers and layers included |

The core of `IInv` is `Turns`: counted from the cursor, every superblock has been given its turn k
or k + 1 times, and what was given is what returned packets offered or what failed calls
took along, at most one band each. `BandKept` ties the cursor to the end of the band.
`CountersFollowGop` rests on `CountsKept`: between two charges the counters are `Behind`
the picture returned last, unless an inter picture of its GOP was charged twice or the
call of the next key frame has been at them and failed; a key frame sets them afresh.

`TileWalk_proofs`, for every number of tiles, threads and superblocks
(`WalkAssumption`):

| Theorem | States |
|---|---|
| `InductiveInvariant` | `Spec => []IInv` |
| `ThreadsStayBounded` | `Spec => []BoundedThreads` |
| `ThreadsEndWithTheCall` | `Spec => []NoThreadOutlives` |
| `ImplementsTheOrderedWalk` | `Spec => Promise!Spec`, the safety part of `ImplementsOrderedWalk` |

`WaveByWave` says that the tiles in the works lie between the joined ones and the waiting
ones, at most a wave of them; `EndsTruly` that a tile ends as it would alone, or as
cancelled once the stop has fired. The refinement maps the joined outcomes to the walked
tiles up to the first that did not succeed: joining a later one is a stutter.

`TargetSearch_proofs`, for every domain of quantisers, budget, tolerance and curve
(`SearchAssumption`):

| Theorem | States |
|---|---|
| `InductiveInvariant` | `Spec => []IInv` |
| `BracketKeepsTarget` | `Spec => []BracketSound` |
| `ReturnsTheBest` | `Spec => []BestOfTrials` |
| `EarlyStopIsOptimal` | `Spec => []StopsAtOptimum` |
| `OpenSearchNeverRepeats` | `Spec => []RepeatsOnlyCollapsed` |
| `BisectionFindsOptimum` | `Spec => []BisectionSuffices` |

`OutsideNoCloser` is the strengthening that matters: on a monotone curve nothing outside
the bracket is closer to the target than the best trial, so that a bracket collapsed onto
the best trial has found the optimum. `BisectionFindsOptimum` measures the bracket: a trial
by bisection leaves at most half of its width, whatever was tried first.

Every invariant and every safety action property that a passing run checks is stated by a
theorem. Only model-checked are the statements about what must eventually happen, which the
prover cannot treat (fairness and `ENABLED`): `CallsReturn`, `FlushDrains`, `Terminates` and
the liveness part of `ImplementsOrderedWalk`. The five refuted statements of section 5
are counterexamples TLC found.

## 5. Findings

* `RaQueueKeys` - the documentation of `try_encode_frame_420_ra`
  (`pipeline/ra.rs:226-230`) says a key frame drains the window and then codes
  itself in its own call. The code queues it, waits for its lookahead, and holds it
  until the release after that.
* `LowDelayHints` - `partition.rs:193-196` says sign bias is all zero under low
  delay. The long-term reference in slot 7 is renewed every 128 pictures only, and
  order hints have 7 bits: from an age of 64 on it compares as a future picture.
  The bias follows AV1's own arithmetic, so encoder and decoder agree; the comment
  is what is wrong.
* `LowDelayRetry` - `pack_phase.rs:1354-1357` says that after a late error the
  caller may retry on the same pipeline because the frame counter is left alone. By
  then the decision state and the DPB have advanced, so the retried picture names
  references that the decoder never received. `DamageIsLocal` says how far that
  goes: to the next key frame, and not at all when the failed picture is a key frame.

* `TargetRepeats` - a collapsed bracket whose quantiser is not the best trial is encoded
  again until the budget is spent (`svtav1-target/src/search.rs:124-130`), three lines
  above the comment "Never re-encode a qp already trialled". `RepeatsOnlyCollapsed` and
  its theorem say that it happens there only.
* `TargetUnscored` - the documentation of `MetricJudge` (`svtav1-target/src/trial.rs:57-59`)
  says a trial without a score "can never win". The first trial becomes the best
  whatever its score, and no later distance compares less than NaN. `BestOfTrials`
  therefore asks for a first trial with a score.

The documentation of `stop` (`pipeline/state.rs:488-493`, `pipeline/setup.rs:528-533`)
speaks of one check at the entry of a call; the code polls in every superblock, and
TileWalk models that.

A failed low-delay call under CBR keeps what rate control did in it. A picture that fails
behind its charge is charged again when it is repeated: the counters are wrong until the
next key frame (`RateCountersFollowGop`), the level is credited one picture's share of
the channel too much for good (`BucketFollowsChannel`), and a repeated key frame is no
longer taken for a forced one.

A failed random-access call behaves alike: its bytes are lost while queue,
decisions and DPB have moved on, no flag is set, and decoding is right again from
the next key frame (`DamageEndsAtKey`).

## 6. Abstractions and omissions

* Pixels, histograms, quantisers and rate: nothing modelled depends on them.
  Scene-change and temporal-filter windows appear as the lookahead they need.
* `filter_delayed_intra` also changes the staged key frame's hierarchical level,
  which influences coding only.
* Pushing after a flush is outside the documented contract of `try_flush`;
  `TryEncodeFrame` is guarded by `~flushed`, a later `TryFlush` is not.
* `encode_ra_window`'s arm for a held key frame with an empty queue
  (`ra.rs:495-515`) has no action: `LoneKeyArmIsDead` proves it unreachable.
* S-frames, managed long-term references, dynamic GOP and startup mini-GOPs cannot
  be configured through the pipeline; their arms are left out of `MiniGop` and
  `PictureDecision`.
* The RTC-flat arm of `generate_rps_info` is unreachable (the pipeline passes `rtc`
  false). CBR's refusal of an inter picture whose LAST slot is empty is unreachable too:
  the slots are full from the first key frame on. The same holds of the error that
  `cbr_frame_qindex` can return between its two steps (rate counters, then refresh band),
  for the same empty slot; `CbrFrameQindex` therefore takes both steps at once.
* `Cbr`: quantisers, correction factors, bit targets and boosts are floating-point
  arithmetic; what they decide for the state modelled is a choice (whether a picture is
  eligible for a refresh, whether the screen content class holds, whether some superblock
  is static, which way a packet missed its target). In frames of fewer than 7 superblocks
  a band may be empty and the refresh then stands still, as in the code; `BandsTurn`
  says so. With an intra period of 0 `frames_to_key` counts down from 0. A
  `buffer_size_ms` of 0 takes the code's default of an eighth of a second as the maximum.
* `TileWalk`: a panic of a tile thread is handed to the caller by `join().unwrap()` and not
  modelled; a tile's superblocks are steps without content.
* `TargetSearch`: scores are integers, the secant rounds as `f64::round` does on the values
  modelled; a trial's encode and judgement are the call's `curve`.

### Not modelled

* *Transforms, prediction, filters, mode decision, partition search, entropy coding,
  temporal filtering, TPL, scene detection*: more than nine tenths of the lines. They are
  numeric functions of one picture (or a group) without state across calls beyond the
  reconstructions, which appear here as the picture a slot holds. TLC cannot enumerate
  their inputs and their correctness is bit-exactness against references the repository
  tests with; a TLA+ version would be a transliteration.
* *Reference implementations, test drivers and generated tables* of the workspace: not
  part of the program.
* *S-frames and managed references*: no configuration reaches them.
* *VBR*: refused by the configuration check.
* *Container front end*: no state beyond one call.

## 7. Plan

Done: the random-access queue with its promise, mini-GOPs, picture decision, pipeline and
decoder; the low-delay path under CQP/CRF and CBR; one-pass CBR; the tile walk; the
target-quality search; their proofs.

What could follow:

1. The composition of TileWalk with LowDelay's `Code`, so that a cancellation is the same
   flag in both.
2. The held key frame's own packet under random access, whose headers the decision state of
   the release before has already fixed, as a refinement of a pipeline that codes it in
   place: how late may the decision be taken?
3. Whether the promise of `ReorderedDelivery` can be stated for the low-delay path with its
   refused pictures, so that a caller sees one specification for both.
