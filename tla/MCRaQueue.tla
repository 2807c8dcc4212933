----------------------------- MODULE MCRaQueue -----------------------------
(* Small instances of RaQueue: every mini-GOP size against key frames that  *)
(* fall inside, at the end of and beyond the mini-GOP.                      *)
EXTENDS RaQueue

MCGopConfigs ==
  [mini_gop_size : {1, 2, 4}, intra_period : {2, 3, 5, 9}, scd_delay : {2, 3}]
=============================================================================
