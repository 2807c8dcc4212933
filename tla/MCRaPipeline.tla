---------------------------- MODULE MCRaPipeline ----------------------------
(* Instances of RaPipeline.                                                 *)
EXTENDS RaPipeline

\* MrpCtrls rows of set_mrp_ctrl for random access: levels 1/2/4, 6/7 and 11.
Mrp(scheme, more, list0, list1) ==
  [referencing_scheme |-> scheme, more_5l_refs |-> more,
   base_ref_list0_count |-> list0, base_ref_list1_count |-> list1,
   non_base_ref_list0_count |-> list0, non_base_ref_list1_count |-> list1]

MrpRows == {Mrp(1, 1, 4, 3), Mrp(0, 0, 3, 2), Mrp(0, 0, 1, 1)}

Config(hier, period, scd, mrp, pics, fails) ==
  [hierarchical_levels |-> hier, mini_gop_size |-> 2 ^ hier, intra_period |-> period,
   scd_delay |-> scd, mrp |-> mrp, max_pics |-> pics, may_fail |-> fails]

\* Every release shape of levels 0 to 3: key frames at every offset from the
\* mini-GOP grid, and flushes at every length.
MCShallow ==
  {Config(h, p, 2, m, 72, FALSE) : h \in 0..3, p \in {2, 3, 5, 8, 11, 14}, m \in MrpRows}

\* Levels 4 and 5: key frames behind a whole, a cut and a double mini-GOP.
MCDeep ==
  {Config(4, p, 2, m, 72, FALSE) : p \in {15, 16, 23, 49}, m \in MrpRows}
    \cup {Config(5, p, 2, m, 72, FALSE) : p \in {31, 45, 70}, m \in MrpRows}

\* A failure at every picture of every release of small mini-GOPs.
MCFaulty ==
  {Config(h, p, 2, Mrp(1, 1, 4, 3), 14, TRUE) : h \in 0..2, p \in {3, 4, 6}}

MCAll == MCShallow \cup MCDeep \cup MCFaulty
=============================================================================
