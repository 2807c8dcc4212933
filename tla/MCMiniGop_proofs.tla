-------------------------- MODULE MCMiniGop_proofs --------------------------
(* The cut of every release into mini-GOPs, for every hierarchical level and *)
(* every number of pictures encode_ra_window can hand over.                  *)
EXTENDS MCMiniGop, PictureDecision_proofs

LEMMA CutOfWindow ==
  ASSUME window \in Windows
  PROVE  IsCut(window.n, window.idr, Cut) /\ window.n \in 1..32 /\ window.idr \in BOOLEAN
<1>1. window.n \in 1..32 /\ window.idr \in BOOLEAN /\ window.hier \in 0..5
  BY DEF Windows
<1>. QED
  BY <1>1, MiniGopsCut, Zenon DEF Cut

LEMMA WindowInvariant == Spec => [](window \in Windows)
<1>1. Init => window \in Windows
  BY DEF Init
<1>2. window \in Windows /\ [Next]_window => (window \in Windows)'
  BY DEF Next
<1>. QED
  BY <1>1, <1>2, PTL DEF Spec

\* set_mini_gop_structure covers every picture of the release exactly once.
THEOREM CutTilesEveryRelease == Spec => []CutTiles
<1>1. window \in Windows => CutTiles
  BY CutOfWindow, CutTilesRelease, Zenon DEF CutTiles
<1>. QED
  BY <1>1, WindowInvariant, PTL

\* Only the last mini-GOP can be short, and it is then one or two pictures at
\* level 1: is_pic_cutting_short_ra_mg holds of no picture of a deeper mini-GOP.
THEOREM CutTailAlwaysShallow == Spec => []CutShallowTail
<1>1. window \in Windows => CutShallowTail
  BY CutOfWindow, CutTailIsShallow, Zenon DEF CutShallowTail
<1>. QED
  BY <1>1, WindowInvariant, PTL
=============================================================================
