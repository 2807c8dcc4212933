------------------------------ MODULE MiniGop ------------------------------
(***************************************************************************)
(* The cut of one release into mini-GOPs (port_picstruct/mini_gop.rs):     *)
(* initialize_mini_gop_activity_array, generate_picture_window_split,      *)
(* handle_incomplete_picture_window_map and set_mini_gop_structure, for    *)
(* the configurations this encoder drives them with (random access, no     *)
(* S-frames, no startup mini-GOP, no dynamic GOP).                         *)
(*                                                                         *)
(* Pure operators; buffer positions count from 0, as in the source.        *)
(***************************************************************************)
EXTENDS Naturals, Sequences

MIN_HIERARCHICAL_LEVEL == 1

\* mini_gop_stats_array: the shapes a 32-picture buffer can be cut into, each
\* before its two halves, as <<hierarchical_levels, start_index, end_index>>.
MINI_GOP_STATS_ARRAY == <<
  <<5, 0, 31>>,
  <<4, 0, 15>>,
  <<3, 0, 7>>,   <<2, 0, 3>>,   <<1, 0, 1>>,   <<1, 2, 3>>,
                 <<2, 4, 7>>,   <<1, 4, 5>>,   <<1, 6, 7>>,
  <<3, 8, 15>>,  <<2, 8, 11>>,  <<1, 8, 9>>,   <<1, 10, 11>>,
                 <<2, 12, 15>>, <<1, 12, 13>>, <<1, 14, 15>>,
  <<4, 16, 31>>,
  <<3, 16, 23>>, <<2, 16, 19>>, <<1, 16, 17>>, <<1, 18, 19>>,
                 <<2, 20, 23>>, <<1, 20, 21>>, <<1, 22, 23>>,
  <<3, 24, 31>>, <<2, 24, 27>>, <<1, 24, 25>>, <<1, 26, 27>>,
                 <<2, 28, 31>>, <<1, 28, 29>>, <<1, 30, 31>> >>

MINI_GOP_MAX_COUNT == 31

Stats(gopindex) == LET s == MINI_GOP_STATS_ARRAY[gopindex + 1]
                   IN  [hier |-> s[1], start |-> s[2], end |-> s[3]]

\* MINI_GOP_OFFSET, indexed by hierarchical_levels - MIN_HIERARCHICAL_LEVEL:
\* the number of shapes in a shape's subtree, itself included.
MINI_GOP_OFFSET == <<1, 3, 7, 15, 31>>

-----------------------------------------------------------------------------
(* initialize_mini_gop_activity_array.  c pictures are left; a shape of k   *)
(* pictures is taken whole unless it would end exactly on the key frame.    *)

\* Mutant of Fits: a shape may end on the key frame.
FitsKey(c, k, idr) == c >= k

Fits(c, k, idr) == c >= k /\ ~(c = k /\ idr)

\* The shapes deactivated for the last c pictures of the buffer, given the
\* index of a pair, of four pictures with the pair behind them, ... there.
Pair(c, idr, pair) == IF Fits(c, 2, idr) THEN {pair} ELSE {}

Four(c, idr, four, pair_behind, pair) ==
  IF Fits(c, 4, idr) THEN {four} \cup Pair(c - 4, idr, pair_behind) ELSE Pair(c, idr, pair)

\* The activity array as the set of deactivated (chosen) shapes above level 1;
\* level 1 is never active.
Deactivated(n, idr) ==
  CASE Fits(n, 32, idr) -> {0}
    [] ~Fits(n, 32, idr) /\ Fits(n, 16, idr) ->
         {1} \cup IF Fits(n - 16, 8, idr)
                    THEN {17} \cup Four(n - 24, idr, 25, 29, 26)
                    ELSE Four(n - 16, idr, 18, 22, 19)
    [] ~Fits(n, 16, idr) /\ Fits(n, 8, idr) -> {2} \cup Four(n - 8, idr, 10, 14, 11)
    [] OTHER -> Four(n, idr, 3, 7, 4)

Active(gopindex, n, idr) ==
  /\ Stats(gopindex).hier > MIN_HIERARCHICAL_LEVEL
  /\ gopindex \notin Deactivated(n, idr)

-----------------------------------------------------------------------------
(* generate_picture_window_split and handle_incomplete_picture_window_map.  *)

\* Where the split's loop goes after a shape: into its halves or past them.
Stride(gopindex, n, idr) ==
  IF Active(gopindex, n, idr)
    THEN 1
    ELSE MINI_GOP_OFFSET[Stats(gopindex).hier - MIN_HIERARCHICAL_LEVEL + 1]

\* The chosen shapes that fit the buffer, in display order.
WindowSplit(n, idr) ==
  LET from[g \in 0..(2 * MINI_GOP_MAX_COUNT)] ==
        IF g >= MINI_GOP_MAX_COUNT
          THEN <<>>
          ELSE (IF Stats(g).end < n /\ ~Active(g, n, idr) THEN <<Stats(g)>> ELSE <<>>)
               \o from[g + Stride(g, n, idr)]
  IN  from[0]

\* Mutant of IncompleteWindow: the pictures past the last whole shape are lost.
IncompleteWindowDropsTail(n, hier, split) ==
  IF split = <<>>
    THEN <<[hier  |-> IF hier < MIN_HIERARCHICAL_LEVEL THEN hier ELSE MIN_HIERARCHICAL_LEVEL,
            start |-> 0, end |-> n - 1]>>
    ELSE split

\* Pictures past the last whole shape form one more, short mini-GOP.
IncompleteWindow(n, hier, split) ==
  IF split = <<>>
    THEN <<[hier  |-> IF hier < MIN_HIERARCHICAL_LEVEL THEN hier ELSE MIN_HIERARCHICAL_LEVEL,
            start |-> 0, end |-> n - 1]>>
    ELSE LET last == split[Len(split)]
         IN  IF last.end < n - 1
               THEN Append(split, [hier  |-> MIN_HIERARCHICAL_LEVEL,
                                   start |-> last.end + 1, end |-> n - 1])
               ELSE split

\* set_mini_gop_structure for a release of n pictures, the last one a key frame
\* (idr) or not, under the configured hierarchical level.  idr_count belongs to
\* the last mini-GOP only.
MiniGops(n, idr, hier) ==
  LET mgs == IF n > 1 \/ ~idr
               THEN IncompleteWindow(n, hier, WindowSplit(n, idr))
               ELSE <<[hier |-> hier, start |-> 0, end |-> n - 1]>>
  IN  [i \in 1..Len(mgs) |->
         [hier   |-> mgs[i].hier,
          start  |-> mgs[i].start,
          end    |-> mgs[i].end,
          length |-> mgs[i].end - mgs[i].start + 1,
          idr    |-> idr /\ i = Len(mgs)]]

-----------------------------------------------------------------------------
(* What must hold of every cut, for a release of n pictures.                *)

\* The mini-GOPs tile the release: no picture is left out or decided twice.
Tiles(n, mgs) ==
  /\ mgs # <<>>
  /\ mgs[1].start = 0
  /\ mgs[Len(mgs)].end = n - 1
  /\ \A i \in 1..Len(mgs) : mgs[i].start <= mgs[i].end
  /\ \A i \in 1..(Len(mgs) - 1) : mgs[i + 1].start = mgs[i].end + 1

\* Only the last mini-GOP of a release can be cut short, and then it is shallow:
\* at most two pictures, coded at level 1 (level 0 in a flat GOP).  A key frame
\* alone in its release keeps the configured level.
Complete(mg) == ~mg.idr /\ mg.length = 2 ^ mg.hier

ShallowTail(n, mgs) ==
  /\ \A i \in 1..(Len(mgs) - 1) : Complete(mgs[i])
  /\ LET last == mgs[Len(mgs)]
     IN  ~Complete(last) /\ n > 1 => last.length <= 2 /\ last.hier <= 1
=============================================================================
