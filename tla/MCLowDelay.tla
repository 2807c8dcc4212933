----------------------------- MODULE MCLowDelay -----------------------------
(* Instances of LowDelay.                                                   *)
EXTENDS LowDelay

\* MrpCtrls rows of set_mrp_ctrl for low delay under CQP/CRF: levels 1/2/4, 6, 9
\* and 0.  Counts: base list 0 and 1, other list 0 and 1.
Mrp(scheme, base0, base1, other0, other1, reduce) ==
  [referencing_scheme |-> scheme,
   base_ref_list0_count |-> base0, base_ref_list1_count |-> base1,
   non_base_ref_list0_count |-> other0, non_base_ref_list1_count |-> other1,
   ld_reduce_ref_buffs |-> reduce]

MrpRows == {Mrp(1, 4, 3, 4, 3, 0), Mrp(0, 3, 2, 3, 2, 0), Mrp(0, 3, 2, 1, 1, 0),
            Mrp(0, 1, 0, 1, 0, 2)}

\* The rows of levels 1, 6, 9 and 0 under CBR, which takes list 1 away.
CbrRows == {Mrp(1, 4, 0, 4, 0, 0), Mrp(0, 3, 0, 3, 0, 0), Mrp(0, 3, 0, 1, 0, 0),
            Mrp(0, 1, 0, 1, 0, 2)}

Config(rc, hier, period, mrp, frames, errors) ==
  [rc |-> rc, hierarchical_levels |-> hier, intra_period |-> period, mrp |-> mrp,
   max_frames |-> frames, max_errors |-> errors]

\* One GOP longer than two long-term periods, one a little longer than one, and
\* a short one that is no multiple of the mini-GOP.
LongRuns ==
  {Config("cqp", h, p, m, 270, 0) : h \in 0..3, p \in {0, 150, 11}, m \in MrpRows}
    \cup {Config("cbr", h, p, m, 270, 0) : h \in 0..2, p \in {0, 150, 11}, m \in CbrRows}

\* Short GOPs with failing calls, and the levels CBR refuses.
ErrorRuns ==
  {Config("cqp", h, p, m, 13, 2) : h \in 0..2, p \in {0, 5}, m \in MrpRows}
    \cup {Config("cbr", h, p, m, 13, 2) : h \in 0..3, p \in {0, 5}, m \in CbrRows}

MCLdConfigs == LongRuns \cup ErrorRuns

\* The preset 5 to 8 row, flat and one GOP long.
MCLdLong == {Config("cqp", 0, 0, Mrp(0, 3, 2, 3, 2, 0), 80, 0)}

\* The same, with a failing call.
MCLdRetry == {Config("cqp", 0, 0, Mrp(0, 3, 2, 3, 2, 0), 6, 1)}
=============================================================================
