------------------------------- MODULE MCCbr -------------------------------
(* Instances of Cbr.                                                        *)
EXTENDS Cbr

\* The reference counts of level 0 under CBR.
OneRef == [referencing_scheme |-> 0, base_ref_list0_count |-> 1, base_ref_list1_count |-> 0,
           non_base_ref_list0_count |-> 1, non_base_ref_list1_count |-> 0,
           ld_reduce_ref_buffs |-> 2]

\* Sixteen bits a second at eight pictures: a packet of 5 bits overspends, one of 0
\* does not.
Config(hier, period, sb, sbs, ms, frames, errors) ==
  [rc |-> "cbr", hierarchical_levels |-> hier, intra_period |-> period, mrp |-> OneRef,
   super_block_size |-> sb, sb_total_count |-> sbs, target_bit_rate |-> 16,
   avg_frame_bandwidth |-> 2, buffer_size_ms |-> ms,
   max_frames |-> frames, max_errors |-> errors]

\* One GOP and several, one to three layers, frames of few superblocks, of many and
\* of large ones, a buffer larger and smaller than the default level and none, and
\* the three levels CBR refuses pictures of.
MCCbrConfigs ==
  {Config(0, 0, 64, 7, 1000, 7, 1), Config(0, 3, 64, 4, 300, 7, 1),
   Config(1, 5, 64, 13, 1000, 8, 1), Config(2, 5, 64, 20, 0, 10, 1),
   Config(0, 3, 128, 7, 1000, 5, 1), Config(3, 0, 64, 7, 300, 4, 3)}
=============================================================================
