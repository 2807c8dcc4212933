--------------------------- MODULE MCTargetSearch ---------------------------
(* Instances of TargetSearch.                                               *)
EXTENDS TargetSearch

\* Every curve of six quantisers and four scores that never rises.
Falling(scores, low, high) ==
  {c \in [low..high -> scores] : \A q \in low..(high - 1) : c[q] >= c[q + 1]}

Search(curve, low, high, target, tolerance, budget, start, step, hint) ==
  [curve |-> curve, min_qp |-> low, max_qp |-> high, target |-> target,
   tolerance |-> tolerance, max_encodes |-> budget, qp_start |-> start, step |-> step,
   slope_range |-> <<1, 3>>, slope_hint |-> hint]

\* Targets inside and outside the scores, seeds inside and outside the bounds, and
\* bounds given in either order.
MCFalling ==
  {Search(c, 6, 1, t, tol, b, q, s[1], s[2]) :
     c \in Falling(0..3, 1, 6), t \in {1, 4}, tol \in {0, 1}, b \in {0, 2, 5, 7},
     q \in {None, 2, 9}, s \in {<<"bisect", None>>, <<"secant", None>>, <<"secant", 2>>}}

\* Steeper curves over a wider domain, where the secant steps far.
MCSteep ==
  {Search([q \in 0..14 |-> k - m * q], 0, 14, t, tol, b, st, "secant", h) :
     k \in {0, 30}, m \in 1..3, t \in {-9, 7}, tol \in {0, 1}, b \in {2, 3, 6},
     st \in {None, 1, 13}, h \in {None, 1, 2}}

\* Curves that rise, and judges that do not report the metric for some trials.
MCRough ==
  {Search(c, 1, 4, 1, tol, b, 2, s, 1) :
     c \in [1..4 -> {0, 1, 3, Unscored}], tol \in {0, 1}, b \in {2, 5}, s \in {"bisect", "secant"}}

MCSearches == MCFalling \cup MCSteep \cup MCRough

\* Bisection of falling curves.
MCBisect == {s \in MCFalling : s.step = "bisect" /\ s.tolerance = 0}
=============================================================================
