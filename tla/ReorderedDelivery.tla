------------------------- MODULE ReorderedDelivery -------------------------
(***************************************************************************)
(* What the caller of a random-access pipeline is promised                 *)
(* (pipeline/setup.rs:389-394, the documentation of try_flush in           *)
(* pipeline/ra.rs): pictures go in one at a time; their fate may lag       *)
(* behind the input by a reorder delay, but a call that ends returns, or   *)
(* loses with an error, whole and in display order, the pictures next in   *)
(* turn, none left out; and a flush that leaves nothing queued leaves      *)
(* nothing pending.                                                        *)
(*                                                                         *)
(* Nothing here mentions mini-GOPs, held key frames or decode order: those *)
(* are what RaQueue and RaPipeline implement the promise with.             *)
(***************************************************************************)
EXTENDS Naturals

VARIABLES accepted,    \* number of input pictures taken so far
          returned,    \* pictures whose packets the caller has
          lost,        \* pictures a call returned an error in place of
          closed       \* a flush has drained everything

vars == <<accepted, returned, lost, closed>>

Settled == returned \cup lost

\* The pictures whose fate the caller does not know yet.
Pending == (0..(accepted - 1)) \ Settled

Init ==
  /\ accepted = 0
  /\ returned = {}
  /\ lost = {}
  /\ closed = FALSE

\* One more input picture; it takes the next display position.
Accept ==
  /\ ~closed
  /\ accepted' = accepted + 1
  /\ UNCHANGED <<returned, lost, closed>>

\* The pending pictures in front of n are all returned, or all lost.
Settle(n) ==
  LET batch == {p \in Pending : p < n}
  IN  \/ returned' = returned \cup batch /\ UNCHANGED lost
      \/ lost' = lost \cup batch /\ UNCHANGED returned

\* A call returns output or an error.
Report ==
  /\ \E n \in 0..accepted : Settle(n)
  /\ UNCHANGED <<accepted, closed>>

\* A flush drains: no picture accepted is pending.
Close ==
  /\ ~closed
  /\ closed' = TRUE
  /\ Settle(accepted)
  /\ UNCHANGED accepted

Next == Accept \/ Report \/ Close

Spec == Init /\ [][Next]_vars

\* The pictures whose fate the caller knows are a gapless prefix of the display order.
Gapless == \E n \in 0..accepted : Settled = 0..(n - 1)
=============================================================================
