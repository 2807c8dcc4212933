----------------------------- MODULE MCTileWalk -----------------------------
(* Instances of TileWalk.                                                   *)
EXTENDS TileWalk

\* Every pattern of failing tiles for up to four tiles in waves of one to four.
MCWalks ==
  UNION {{[num_tiles |-> n, thread_count |-> k, cores |-> 2, std |-> s, sbs |-> 2, fails |-> f] :
            k \in {0, 1, 3, 9}, s \in BOOLEAN, f \in [1..n -> {0, 2, None}]} : n \in {1, 2, 4}}
=============================================================================
