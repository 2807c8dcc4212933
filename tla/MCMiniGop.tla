----------------------------- MODULE MCMiniGop -----------------------------
(* Every release encode_ra_window can form, for every hierarchical level:   *)
(* n pictures, 1 <= n <= 2^hier, with or without a key frame at the end.    *)
EXTENDS MiniGop

VARIABLE window  \* the release being cut

Windows == {w \in [hier : 0..5, n : 1..32, idr : BOOLEAN] : w.n <= 2 ^ w.hier}

Init == window \in Windows
Next == window' \in Windows
Spec == Init /\ [][Next]_window

Cut == MiniGops(window.n, window.idr, window.hier)

\* set_mini_gop_structure covers every picture of the release exactly once.
CutTiles == Tiles(window.n, Cut)

\* is_pic_cutting_short_ra_mg can only be true of at most two pictures at level
\* 1: the low-delay arm of the level 2 to 5 reference tables is never taken.
CutShallowTail == ShallowTail(window.n, Cut)
=============================================================================
