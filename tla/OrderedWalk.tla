----------------------------- MODULE OrderedWalk -----------------------------
(***************************************************************************)
(* What encode_tile_rows promises whatever its thread_count: the answer of *)
(* a walk that encodes the tiles one by one in tile order and ends with    *)
(* the first that does not succeed.  A tile's own outcome is fixed by its  *)
(* input; a tile that ends behind the cancellation may be cancelled        *)
(* instead.                                                                *)
(***************************************************************************)
EXTENDS Naturals, Sequences

CONSTANT None  \* no answer yet

VARIABLES
  own,        \* each tile's outcome when it is not disturbed: "ok" or "error"
  cancelled,  \* the caller's stop token has fired
  leading,    \* tiles walked that succeeded
  stopped,    \* how the walk ended, "error" or "cancelled", or None
  answer      \* what the call returned: "ok", "error" or "cancelled", or None

vars == <<own, cancelled, leading, stopped, answer>>

Init ==
  /\ own \in Seq({"ok", "error"})
  /\ cancelled = FALSE
  /\ leading = 0
  /\ stopped = None
  /\ answer = None

Cancel == ~cancelled /\ cancelled' = TRUE /\ UNCHANGED <<own, leading, stopped, answer>>

\* The next tile, and what comes of it.
Walk ==
  /\ stopped = None
  /\ leading < Len(own)
  /\ \E outcome \in {own[leading + 1]} \cup (IF cancelled THEN {"cancelled"} ELSE {}) :
       IF outcome = "ok" THEN leading' = leading + 1 /\ UNCHANGED stopped
                         ELSE stopped' = outcome /\ UNCHANGED leading
  /\ UNCHANGED <<own, cancelled, answer>>

Return ==
  /\ answer = None
  /\ leading = Len(own) \/ stopped # None
  /\ answer' = IF stopped = None THEN "ok" ELSE stopped
  /\ UNCHANGED <<own, cancelled, leading, stopped>>

Next == Cancel \/ Walk \/ Return

Spec == Init /\ [][Next]_vars

\* The call walks on and returns.
FairSpec == Spec /\ WF_vars(Walk) /\ WF_vars(Return)
=============================================================================
