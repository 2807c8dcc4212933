---------------------------- MODULE TargetSearch ----------------------------
(***************************************************************************)
(* Encoding to a quality target (crate svtav1-target): search_target_qp    *)
(* brackets the quantiser whose score comes closest to the target, and     *)
(* encode_to_target_8bit and _10bit run one encode, reconstruction and     *)
(* judgement per trial and return the winning trial's stream.              *)
(*                                                                         *)
(* A score is an integer of the metric's scale, or Unscored where the      *)
(* judge's bundle lacks the metric: the code's NaN, which compares with    *)
(* nothing.  A trial's outcome depends on its quantiser alone, as the      *)
(* documentation demands of `configure` and the judge.                     *)
(***************************************************************************)
EXTENDS Integers, Sequences

CONSTANTS
  Searches,  \* the calls: records of the target, the TargetOptions and the curve
  Unscored,  \* the score of a trial whose judge did not report the metric
  None       \* an option left unset, or no trial yet

VARIABLES
  call,       \* the call's target, TargetOptions and score curve, never changed
  lo, hi,     \* the bracket
  qp,         \* the quantiser to be tried next
  used,       \* trials spent
  history,    \* the trials in order
  best,       \* the closest trial so far, or None
  pc          \* "search", "done" or "failed"

vars == <<call, lo, hi, qp, used, history, best, pc>>

MinOf(a, b) == IF a <= b THEN a ELSE b
MaxOf(a, b) == IF a >= b THEN a ELSE b
Distance(a, b) == IF a >= b THEN a - b ELSE b - a

\* The quantisers of a call.
Low(c)    == MinOf(c.min_qp, c.max_qp)
High(c)   == MaxOf(c.min_qp, c.max_qp)
Domain(c) == Low(c)..High(c)
Budget(c) == MaxOf(c.max_encodes, 1)

\* Mutant of Midpoint: the bracket is cut by an eighth.
MidpointEighth(l, h) == l + (h - l) \div 8

\* lo + (hi - lo) / 2 of the u8 arithmetic.
Midpoint(l, h) == l + (h - l) \div 2

BestTrial == [qp : Int, score : Int \cup {Unscored}, converged : BOOLEAN]

\* A quantiser is a u8, a budget too; a curve scores every quantiser of its call.
ASSUME SearchAssumption ==
  /\ Unscored \notin Int
  /\ None \notin Int
  /\ None \notin BestTrial
  /\ \A c \in Searches :
       /\ c.min_qp \in 0..255 /\ c.max_qp \in 0..255 /\ c.max_encodes \in 0..255
       /\ c.qp_start \in 0..255 \cup {None}
       /\ c.target \in Int /\ c.tolerance \in Nat
       /\ c.curve \in [Domain(c) -> Int \cup {Unscored}]

Init ==
  /\ call \in Searches
  /\ lo = Low(call)
  /\ hi = High(call)
  /\ qp = IF call.qp_start = None THEN Midpoint(lo, hi)
                                  ELSE MinOf(MaxOf(call.qp_start, lo), hi)
  /\ used = 0
  /\ history = <<>>
  /\ best = None
  /\ pc = "search"

-----------------------------------------------------------------------------
(* What a score says.                                                       *)

\* (score - target).abs() <= tolerance, false of an unscored trial.
Within(c, score) ==
  score # Unscored /\ Distance(score, c.target) <= c.tolerance

\* (score - target).abs() < (b.score - target).abs(), false if either is unscored.
Closer(c, score, other) ==
  /\ score # Unscored
  /\ other # Unscored
  /\ Distance(score, c.target) < Distance(other, c.target)

\* score > target: the quantiser may be raised.
TooGood(c, score) == score # Unscored /\ score > c.target

-----------------------------------------------------------------------------
(* next_trial_qp.                                                           *)

\* f64::round of num / den, den > 0, for a value that is only used when positive.
Round(num, den) == (2 * num + den) \div (2 * den)

\* The secant through the last two trials: the quantiser where it meets the
\* target, None if the fit is flat, rising or out of slope_range.
FittedStep(trials) ==
  LET last == trials[Len(trials)]
      prev == trials[Len(trials) - 1]
      run  == last.qp - prev.qp
      fall == IF run > 0 THEN prev.score - last.score ELSE last.score - prev.score
      dist == IF run > 0 THEN run ELSE -run
  IN  IF run = 0 \/ Unscored \in {last.score, prev.score} THEN None
      ELSE IF fall > 0 /\ fall >= call.slope_range[1] * dist
                       /\ fall <= call.slope_range[2] * dist
             THEN Round(last.qp * fall + (last.score - call.target) * dist, fall)
             ELSE None

\* The first correction, along the metric's prior slope.
HintedStep(trial) ==
  IF \/ call.slope_hint = None
     \/ call.slope_hint = 0
     \/ trial.score = Unscored
     \/ call.slope_hint \notin call.slope_range[1]..call.slope_range[2] THEN None
  ELSE Round(trial.qp * call.slope_hint + (trial.score - call.target), call.slope_hint)

\* The next quantiser in the bracket l..h: the secant's if it falls inside.
NextTrialQp(l, h, trials) ==
  LET step == IF Len(trials) >= 2 THEN FittedStep(trials) ELSE HintedStep(trials[1])
  IN  IF call.step = "secant" /\ step # None /\ step \in (l + 1)..(h - 1)
        THEN step
        ELSE Midpoint(l, h)

-----------------------------------------------------------------------------
(* search_target_qp.                                                        *)

Tried(q) == \E i \in 1..Len(history) : history[i].qp = q

\* Mutants of Narrowed: the score's direction is mistaken, or the trial's own
\* quantiser stays in the bracket.
NarrowedReversed(score) ==
  IF TooGood(call, score) THEN <<lo, MaxOf(qp - 1, lo)>> ELSE <<MinOf(qp + 1, hi), hi>>

NarrowedInclusive(score) ==
  IF TooGood(call, score) THEN <<qp, hi>> ELSE <<lo, qp>>

\* The bracket behind a trial.
Narrowed(score) ==
  IF TooGood(call, score) THEN <<MinOf(qp + 1, hi), hi>> ELSE <<lo, MaxOf(qp - 1, lo)>>

\* Mutant of BestAfter: the last trial wins.
BestAfterLast(score) == [qp |-> qp, score |-> score, converged |-> Within(call, score)]

\* The best trial behind one more: the first, or a strictly closer one.
BestAfter(score) ==
  IF best = None \/ Closer(call, score, best.score)
    THEN [qp |-> qp, score |-> score, converged |-> Within(call, score)]
    ELSE best

\* Mutant of Finished: a collapsed bracket ends the search untried.
FinishedCollapsed(score, bracket, won) ==
  \/ Within(call, score) /\ call.tolerance > 0
  \/ used + 1 = Budget(call)
  \/ bracket[1] = bracket[2]

\* The loop ends: on a hit, with the budget, or because the bracket collapsed onto
\* the best trial.
Finished(score, bracket, won) ==
  \/ Within(call, score) /\ call.tolerance > 0
  \/ used + 1 = Budget(call)
  \/ bracket[1] = bracket[2] /\ won.qp = bracket[1]

\* The quantiser tried next: the last one left, or the step's, or the midpoint if
\* that was tried before.
NextQp(bracket, trials) ==
  LET step == NextTrialQp(bracket[1], bracket[2], trials)
  IN  IF bracket[1] = bracket[2] THEN bracket[1]
      ELSE IF \E i \in 1..Len(trials) : trials[i].qp = step
             THEN Midpoint(bracket[1], bracket[2])
             ELSE step

\* Mutant of Trial: a quantiser that was tried before costs no trial.
TrialRemembered ==
  /\ pc = "search"
  /\ LET score   == call.curve[qp]
         bracket == Narrowed(score)
         trials  == IF Tried(qp) THEN history ELSE Append(history, [qp |-> qp, score |-> score])
         won     == BestAfter(score)
     IN  /\ history' = trials
         /\ used' = Len(trials)
         /\ best' = won
         /\ IF ~Tried(qp) /\ Finished(score, bracket, won)
              THEN pc' = "done" /\ UNCHANGED <<lo, hi, qp>>
              ELSE /\ lo' = bracket[1] /\ hi' = bracket[2]
                   /\ qp' = NextQp(bracket, trials)
                   /\ UNCHANGED pc
  /\ UNCHANGED call

\* One turn of the loop: a trial, and what its score decides.
Trial ==
  /\ pc = "search"
  /\ used' = used + 1
  /\ LET score   == call.curve[qp]
         bracket == Narrowed(score)
         trials  == Append(history, [qp |-> qp, score |-> score])
         won     == BestAfter(score)
     IN  /\ history' = trials
         /\ best' = won
         /\ IF Finished(score, bracket, won)
              THEN pc' = "done" /\ UNCHANGED <<lo, hi, qp>>
              ELSE /\ lo' = bracket[1] /\ hi' = bracket[2]
                   /\ qp' = NextQp(bracket, trials)
                   /\ UNCHANGED pc
  /\ UNCHANGED call

\* The trial's encode, reconstruction or judgement fails: `?` ends the call.
TrialFails ==
  /\ pc = "search"
  /\ pc' = "failed"
  /\ UNCHANGED <<call, lo, hi, qp, used, history, best>>

Next == Trial \/ TrialFails

Spec == Init /\ [][Next]_vars

\* The search is a loop of its caller's thread: while it has not ended, it makes its next trial.
FairSpec == Spec /\ WF_vars(Trial)

-----------------------------------------------------------------------------
(* What must hold.                                                          *)

\* The curve is scored everywhere and falls as the quantiser rises, which is what
\* the search assumes ("MONOTONE NON-INCREASING in qp", search.rs:3-5).
Monotone ==
  /\ \A q \in Domain(call) : call.curve[q] # Unscored
  /\ \A q, r \in Domain(call) : q <= r => call.curve[q] >= call.curve[r]

\* On a monotone curve the search never leaves the target behind: every
\* quantiser it has excluded below is too good, every one above not too good.
BracketSound ==
  pc = "search" /\ Monotone =>
    \A q \in Domain(call) : /\ q < lo => call.curve[q] > call.target
                            /\ q > hi => call.curve[q] <= call.target

\* The trial `finish` looks for behind the search: the last one at best's quantiser.
Delivers(i) ==
  /\ i \in 1..Len(history)
  /\ history[i].qp = best.qp
  /\ \A j \in (i + 1)..Len(history) : history[j].qp # best.qp

\* What the call returns is a trial it made, of the score it reports, no other
\* trial came closer, and `converged` holds "iff some trial landed inside the
\* tolerance band" (search.rs:75): whenever the first trial was scored at all.
BestOfTrials ==
  used > 0 /\ history[1].score # Unscored =>
    /\ \E i \in 1..Len(history) : Delivers(i) /\ history[i].score = best.score
    /\ \A i \in 1..Len(history) : ~Closer(call, history[i].score, best.score)
    /\ best.converged <=> \E i \in 1..Len(history) : Within(call, history[i].score)

\* On a monotone curve a search that stops before its budget without a hit has
\* found the closest quantiser of all.
StopsAtOptimum ==
  pc = "done" /\ used < Budget(call) /\ Monotone /\ ~(best.converged /\ call.tolerance > 0) =>
    \A q \in Domain(call) : ~Closer(call, call.curve[q], best.score)

\* Bisection needs a trial per halving of the domain, and two more: with that
\* budget and no tolerance it finds the closest quantiser of every monotone curve.
BisectionSuffices ==
  /\ pc = "done" /\ Monotone /\ call.step = "bisect" /\ call.tolerance = 0
  /\ Budget(call) >= 2 /\ High(call) - Low(call) < 2 ^ (Budget(call) - 2)
  => \A q \in Domain(call) : ~Closer(call, call.curve[q], best.score)

\* As long as the bracket is open the next trial is a new one
\* (search.rs:132, "Never re-encode a qp already trialled").
RepeatsOnlyCollapsed ==
  pc = "search" /\ lo < hi => ~Tried(qp)

\* The search ends, whatever the curve.
Terminates == <>(pc # "search")

\* No quantiser is encoded twice: "Never re-encode a qp already trialled"
\* (search.rs:132).
NeverReencodes ==
  \A i, j \in 1..Len(history) : history[i].qp = history[j].qp => i = j

\* A trial without a score never wins against one with a score: "the trial counts
\* but can never win" (trial.rs:57-59).
UnscoredNeverWins ==
  pc = "done" /\ best.score = Unscored =>
    \A i \in 1..Len(history) : history[i].score = Unscored
=============================================================================
