------------------------ MODULE TargetSearch_proofs ------------------------
(***************************************************************************)
(* What holds of the quantiser search for every call: its bracket, its     *)
(* best trial and its repeats, by one inductive invariant.                 *)
(***************************************************************************)
EXTENDS TargetSearch, SequenceTheorems, TLAPS

Score == Int \cup {Unscored}

\* The types, and the bounds the clamps keep.
TypeOK ==
  /\ call \in Searches
  /\ lo \in Domain(call) /\ hi \in Domain(call) /\ lo <= hi
  /\ qp \in lo..hi
  /\ used \in Nat
  /\ history \in Seq([qp : Int, score : Score])
  /\ pc \in {"search", "done", "failed"}

\* The trials are the curve's, one per use, all inside the bounds.
TrialsReal ==
  /\ Len(history) = used
  /\ \A i \in 1..used : history[i].qp \in Domain(call)
                        /\ history[i].score = call.curve[history[i].qp]

\* No trial lies inside an open bracket.
OpenBracketUntried ==
  pc = "search" /\ lo < hi => \A i \in 1..used : history[i].qp < lo \/ history[i].qp > hi

\* Before the first trial the bracket is the whole domain.
Untouched == used = 0 => lo = Low(call) /\ hi = High(call)

\* The best trial is one of the trials, and no scored trial is closer.
BestKept ==
  /\ used = 0 => best = None
  /\ used > 0 =>
       /\ best \in BestTrial
       /\ \E i \in 1..used : history[i].qp = best.qp /\ history[i].score = best.score
       /\ history[1].score # Unscored =>
            /\ best.score # Unscored
            /\ \A i \in 1..used : ~Closer(call, history[i].score, best.score)
            /\ best.converged <=> \E i \in 1..used : Within(call, history[i].score)

\* The trial `finish` returns reports the score of the best.
BestDelivered ==
  used > 0 => \E i \in 1..used : Delivers(i) /\ history[i].score = best.score

\* On a monotone curve nothing outside the bracket is closer than the best trial.
OutsideNoCloser ==
  used > 0 /\ Monotone =>
    \A q \in Domain(call) : q < lo \/ q > hi => ~Closer(call, call.curve[q], best.score)

IInv ==
  /\ TypeOK
  /\ TrialsReal
  /\ Untouched
  /\ OpenBracketUntried
  /\ BestKept
  /\ BestDelivered
  /\ BracketSound
  /\ OutsideNoCloser
  /\ StopsAtOptimum

-----------------------------------------------------------------------------
(* The bounds of a call.                                                    *)

LEMMA Bounds ==
  ASSUME NEW c \in Searches
  PROVE  /\ Low(c) \in Nat /\ High(c) \in Nat /\ Low(c) <= High(c)
         /\ c.curve \in [Domain(c) -> Score]
         /\ c.target \in Int /\ c.tolerance \in Nat
         /\ c.qp_start \in 0..255 \cup {None}
         /\ Budget(c) \in Nat /\ Budget(c) >= 1
<1>. /\ c.min_qp \in 0..255 /\ c.max_qp \in 0..255 /\ c.max_encodes \in 0..255
     /\ c.qp_start \in 0..255 \cup {None}
     /\ c.target \in Int /\ c.tolerance \in Nat
     /\ c.curve \in [Domain(c) -> Score]
  BY SearchAssumption DEF Score
<1>. QED
  BY DEF Low, High, MinOf, MaxOf, Budget

\* The bracket and the quantiser are numbers of the call's domain.
LEMMA Typed ==
  ASSUME TypeOK
  PROVE  /\ lo \in Nat /\ hi \in Nat /\ qp \in Nat
         /\ Low(call) <= lo /\ lo <= qp /\ qp <= hi /\ hi <= High(call)
         /\ qp \in Domain(call)
<1>1. Low(call) \in Nat /\ High(call) \in Nat
  BY Bounds DEF TypeOK
<1>. QED
  BY <1>1 DEF TypeOK, Domain

\* The midpoint of a bracket lies in it.
LEMMA MidpointInside ==
  ASSUME NEW l \in Nat, NEW h \in Nat, l <= h
  PROVE  Midpoint(l, h) \in l..h
<1>1. (h - l) \div 2 \in 0..(h - l)
  OBVIOUS
<1>. QED
  BY <1>1 DEF Midpoint

\* The bracket behind a trial lies inside the one before, without the trial if it
\* stays open.
LEMMA NarrowedInside ==
  ASSUME TypeOK, NEW score, NEW l, NEW h, Narrowed(score) = <<l, h>>
  PROVE  /\ l \in Nat /\ h \in Nat
         /\ lo <= l /\ l <= h /\ h <= hi
         /\ l < h => qp < l \/ qp > h
         /\ TooGood(call, score) => h = hi /\ l <= qp + 1
         /\ ~TooGood(call, score) => l = lo /\ h >= qp - 1
<1>1. /\ lo \in Nat /\ hi \in Nat /\ qp \in Nat /\ lo <= qp /\ qp <= hi
  BY Typed
<1>2. CASE TooGood(call, score)
  <2>1. l = MinOf(qp + 1, hi) /\ h = hi
    BY <1>2 DEF Narrowed
  <2>. QED
    BY <1>1, <1>2, <2>1 DEF MinOf
<1>3. CASE ~TooGood(call, score)
  <2>1. l = lo /\ h = MaxOf(qp - 1, lo)
    BY <1>3 DEF Narrowed
  <2>. QED
    BY <1>1, <1>3, <2>1 DEF MaxOf
<1>. QED
  BY <1>2, <1>3

\* What is tried next lies in the bracket.
LEMMA NextQpInside ==
  ASSUME NEW l \in Nat, NEW h \in Nat, l <= h, NEW trials
  PROVE  NextQp(<<l, h>>, trials) \in l..h
<1>. DEFINE step == NextTrialQp(l, h, trials)
            aim  == IF Len(trials) >= 2 THEN FittedStep(trials) ELSE HintedStep(trials[1])
<1>1. step \in l..h
  <2>1. ASSUME aim \in (l + 1)..(h - 1)
        PROVE  aim \in l..h
    BY <2>1
  <2>2. (aim \in (l + 1)..(h - 1) /\ step = aim) \/ step = Midpoint(l, h)
    BY DEF NextTrialQp
  <2>3. Midpoint(l, h) \in l..h
    BY MidpointInside
  <2>. HIDE DEF aim, step
  <2>. QED
    BY <2>1, <2>2, <2>3
<1>2. l \in l..h
  OBVIOUS
<1>3. Midpoint(l, h) \in l..h
  BY MidpointInside
<1>4. NextQp(<<l, h>>, trials) \in {l, Midpoint(l, h), step}
  BY DEF NextQp
<1>. HIDE DEF step
<1>. QED
  BY <1>1, <1>2, <1>3, <1>4

-----------------------------------------------------------------------------
(* Scores.                                                                  *)

\* What is no closer than a trial is no closer than a closer one.
LEMMA CloserThanAll ==
  ASSUME NEW c \in Searches, NEW a \in Score, NEW b \in Score, NEW d \in Score,
         ~Closer(c, a, b), Closer(c, d, b)
  PROVE  ~Closer(c, a, d)
<1>. c.target \in Int
  BY Bounds
<1>. QED
  BY DEF Score, Closer, Distance

\* A score that comes no closer than another is within the tolerance only if that is.
LEMMA WithinOfCloser ==
  ASSUME NEW c \in Searches, NEW a \in Score, NEW b \in Score,
         b # Unscored, ~Closer(c, a, b), Within(c, a)
  PROVE  Within(c, b)
<1>. c.target \in Int /\ c.tolerance \in Nat
  BY Bounds
<1>. QED
  BY DEF Score, Closer, Within, Distance

\* No score is closer than itself.
LEMMA NotCloserThanItself ==
  ASSUME NEW c \in Searches, NEW a \in Score
  PROVE  ~Closer(c, a, a)
<1>. c.target \in Int
  BY Bounds
<1>. QED
  BY DEF Score, Closer, Distance

-----------------------------------------------------------------------------
(* One turn of the loop.                                                    *)

\* What the trial of a turn adds to the history.
LEMMA TrialRecorded ==
  ASSUME IInv, Trial
  PROVE  /\ call' = call
         /\ used' = used + 1 /\ used \in Nat
         /\ history' \in Seq([qp : Int, score : Score])
         /\ Len(history') = used'
         /\ history'[used'] = [qp |-> qp, score |-> call.curve[qp]]
         /\ \A i \in 1..used : history'[i] = history[i]
         /\ call.curve[qp] \in Score
<1>1. /\ call' = call /\ used' = used + 1 /\ used \in Nat
      /\ history' = Append(history, [qp |-> qp, score |-> call.curve[qp]])
  BY DEF Trial, IInv, TypeOK
<1>2. call.curve[qp] \in Score /\ qp \in Int
  BY Typed, Bounds DEF IInv, TypeOK
<1>3. Len(history) = used /\ history \in Seq([qp : Int, score : Score])
  BY DEF IInv, TypeOK, TrialsReal
<1>4. [qp |-> qp, score |-> call.curve[qp]] \in [qp : Int, score : Score]
  BY <1>2
<1>. QED
  BY <1>1, <1>2, <1>3, <1>4, AppendProperties

\* The bracket and the next quantiser behind a turn.
LEMMA TrialMoves ==
  ASSUME IInv, Trial
  PROVE  \/ pc' = "done" /\ UNCHANGED <<lo, hi, qp>>
         \/ /\ pc' = "search"
            /\ Narrowed(call.curve[qp]) = <<lo', hi'>>
            /\ qp' \in lo'..hi'
<1>. DEFINE score == call.curve[qp]
            b     == Narrowed(score)
<1>1. Narrowed(score) = <<b[1], b[2]>> /\ b = Narrowed(score)
  BY DEF Narrowed
<1>2. \/ pc' = "done" /\ UNCHANGED <<lo, hi, qp>>
      \/ /\ pc' = "search" /\ lo' = b[1] /\ hi' = b[2]
         /\ qp' = NextQp(b, Append(history, [qp |-> qp, score |-> score]))
  BY DEF Trial, IInv, TypeOK
<1>. HIDE DEF b
<1>3. b[1] \in Nat /\ b[2] \in Nat /\ b[1] <= b[2]
  BY <1>1, NarrowedInside DEF IInv
<1>. QED
  BY <1>1, <1>2, <1>3, NextQpInside

\* The best trial behind a turn is a trial, no trial is closer, and it has converged
\* if and only if some trial has.
LEMMA TrialKeepsBest ==
  ASSUME IInv, Trial
  PROVE  BestKept'
<1>. DEFINE score == call.curve[qp]
            n     == used + 1
<1>. /\ call' = call /\ used' = n /\ used \in Nat
     /\ \A i \in 1..used : history'[i] = history[i]
     /\ score \in Score
     /\ call \in Searches
  BY TrialRecorded DEF IInv, TypeOK
<1>. history'[n] = [qp |-> qp, score |-> score]
  <2>1. used' = n /\ history'[used'] = [qp |-> qp, score |-> score]
    BY TrialRecorded
  <2>. HIDE DEF n, score
  <2>. QED
    BY <2>1
<1>. \A i \in 1..used : history[i].score \in Score
  <2>1. history \in Seq([qp : Int, score : Score]) /\ Len(history) = used
    BY DEF IInv, TypeOK, TrialsReal
  <2>2. ASSUME NEW i \in 1..used PROVE history[i] \in [qp : Int, score : Score]
    BY <2>1, ElementOfSeq
  <2>. QED
    BY <2>2
<1>. n > 0 /\ \A i \in 1..n : i \in 1..used \/ i = n
  OBVIOUS
<1>. best' = BestAfter(score)
  BY DEF Trial
<1>. qp \in Int
  BY Typed DEF IInv
<1>. HIDE DEF score, n
<1>1. CASE used = 0
  <2>1. best' = [qp |-> qp, score |-> score, converged |-> Within(call, score)]
    BY <1>1 DEF BestAfter, IInv, BestKept
  <2>2. n = 1
    BY <1>1 DEF n
  <2>3. best' \in BestTrial
    BY <2>1 DEF BestTrial, Within, Score
  <2>4. ~Closer(call, score, score)
    BY NotCloserThanItself
  <2>. QED
    BY <2>1, <2>2, <2>3, <2>4 DEF BestKept
<1>2. CASE used > 0 /\ Closer(call, score, best.score)
  <2>1. best' = [qp |-> qp, score |-> score, converged |-> Within(call, score)]
    BY <1>2 DEF BestAfter
  <2>2. best' \in BestTrial
    BY <2>1 DEF BestTrial, Within, Score
  <2>3. score # Unscored /\ best.score \in Score
    BY <1>2 DEF Closer, IInv, BestKept, BestTrial, Score
  <2>4. history'[1] = history[1]
    BY <1>2
  <2>5. ASSUME history[1].score # Unscored, NEW i \in 1..n
        PROVE  ~Closer(call, history'[i].score, score)
    <3>1. CASE i = n
      BY <3>1, NotCloserThanItself
    <3>2. CASE i \in 1..used
      <4>1. ~Closer(call, history[i].score, best.score)
        BY <1>2, <2>5, <3>2 DEF IInv, BestKept
      <4>. QED
        BY <1>2, <2>3, <3>2, <4>1, CloserThanAll
    <3>. QED
      BY <3>1, <3>2
  <2>6. ASSUME history[1].score # Unscored, NEW i \in 1..n, Within(call, history'[i].score)
        PROVE  Within(call, score)
    <3>1. CASE i = n
      BY <2>6, <3>1
    <3>2. CASE i \in 1..used
      <4>1. Within(call, history[i].score) /\ history[i].score \in Score
        BY <2>6, <3>2
      <4>. QED
        BY <2>3, <2>4, <2>5, <2>6, <4>1, <3>2, WithinOfCloser
    <3>. QED
      BY <3>1, <3>2
  <2>7. n \in 1..n /\ history'[n].qp = best'.qp /\ history'[n].score = best'.score
    <3>1. best'.qp = qp /\ best'.score = score
      BY <2>1
    <3>2. history'[n].qp = qp /\ history'[n].score = score
      OBVIOUS
    <3>3. n \in 1..n
      BY DEF n
    <3>. QED
      BY <3>1, <3>2, <3>3
  <2>8. best'.score = score /\ best'.converged = Within(call, score)
    BY <2>1
  <2>9. history'[1].score # Unscored =>
          /\ best'.score # Unscored
          /\ \A i \in 1..n : ~Closer(call, history'[i].score, best'.score)
          /\ best'.converged <=> \E i \in 1..n : Within(call, history'[i].score)
    <3>1. Within(call, score) => \E i \in 1..n : Within(call, history'[i].score)
      BY <2>7, <2>8
    <3>. QED
      BY <2>3, <2>4, <2>5, <2>6, <2>8, <3>1
  <2>. QED
    BY <2>2, <2>7, <2>9 DEF BestKept
<1>3. CASE used > 0 /\ ~Closer(call, score, best.score)
  <2>1. best \in BestTrial /\ best' = best
    BY <1>3, SearchAssumption DEF BestAfter, IInv, BestKept
  <2>2. PICK k \in 1..used : history[k].qp = best.qp /\ history[k].score = best.score
    BY <1>3 DEF IInv, BestKept
  <2>3. k \in 1..n /\ history'[k] = history[k]
    BY <2>2 DEF n
  <2>4. history'[1] = history[1]
    BY <1>3
  <2>5. ASSUME history[1].score # Unscored
        PROVE  /\ best.score # Unscored
               /\ \A i \in 1..n : ~Closer(call, history'[i].score, best.score)
               /\ best.converged <=> \E i \in 1..n : Within(call, history'[i].score)
    <3>1. /\ best.score # Unscored
          /\ \A i \in 1..used : ~Closer(call, history[i].score, best.score)
          /\ best.converged <=> \E i \in 1..used : Within(call, history[i].score)
      BY <1>3, <2>5 DEF IInv, BestKept
    <3>2. \A i \in 1..n : ~Closer(call, history'[i].score, best.score)
      BY <1>3, <3>1
    <3>3. best.converged => \E i \in 1..n : Within(call, history'[i].score)
      BY <3>1 DEF n
    <3>4. ASSUME NEW i \in 1..n, Within(call, history'[i].score)
          PROVE  best.converged
      <4>1. best.score \in Score /\ history'[i].score \in Score
        BY <2>1 DEF BestTrial, Score
      <4>2. Within(call, best.score)
        BY <3>1, <3>2, <3>4, <4>1, WithinOfCloser
      <4>. QED
        BY <2>2, <3>1, <4>2
    <3>. QED
      BY <2>1, <3>1, <3>2, <3>3, <3>4 DEF BestTrial
  <2>. QED
    BY <2>1, <2>2, <2>3, <2>4, <2>5 DEF BestKept
<1>. QED
  BY <1>1, <1>2, <1>3

\* Trials stay the curve's own.
LEMMA TrialKeepsReal ==
  ASSUME IInv, Trial
  PROVE  TrialsReal'
<1>. DEFINE n == used + 1
<1>1. /\ call' = call /\ used' = n /\ used \in Nat /\ Len(history') = used'
      /\ \A i \in 1..used : history'[i] = history[i]
  BY TrialRecorded
<1>2. history'[n] = [qp |-> qp, score |-> call.curve[qp]]
  <2>1. used' = n /\ history'[used'] = [qp |-> qp, score |-> call.curve[qp]]
    BY TrialRecorded
  <2>. HIDE DEF n
  <2>. QED
    BY <2>1
<1>3. \A i \in 1..n : i \in 1..used \/ i = n
  BY <1>1
<1>4. qp \in Domain(call)
  BY Typed DEF IInv
<1>5. \A i \in 1..used : history[i].qp \in Domain(call)
                        /\ history[i].score = call.curve[history[i].qp]
  BY DEF IInv, TrialsReal
<1>. HIDE DEF n
<1>6. ASSUME NEW i \in 1..n
      PROVE  history'[i].qp \in Domain(call)
             /\ history'[i].score = call.curve[history'[i].qp]
  <2>1. CASE i = n
    BY <1>2, <1>4, <2>1
  <2>2. CASE i \in 1..used
    BY <1>1, <1>5, <2>2
  <2>. QED
    BY <1>3, <2>1, <2>2
<1>. QED
  BY <1>1, <1>6 DEF TrialsReal, Domain, Low, High

\* Equal quantisers score alike, so the last trial at best's quantiser has its score.
LEMMA TrialKeepsDelivered ==
  ASSUME IInv, Trial
  PROVE  BestDelivered'
<1>. DEFINE n == used + 1
<1>1. /\ used' = n /\ used \in Nat /\ Len(history) = used /\ Len(history') = n
      /\ \A i \in 1..used : history'[i] = history[i]
  BY TrialRecorded DEF IInv, TrialsReal
<1>2. history'[n].qp = qp /\ history'[n].score = call.curve[qp] /\ n \in 1..n
  <2>1. used' = n /\ history'[used'] = [qp |-> qp, score |-> call.curve[qp]]
    BY TrialRecorded
  <2>2. n \in 1..n
    BY <1>1
  <2>. HIDE DEF n
  <2>. QED
    BY <2>1, <2>2
<1>3. PICK k \in 1..n : history'[k].qp = best'.qp /\ history'[k].score = best'.score
  BY <1>1, TrialKeepsBest DEF BestKept
<1>4. /\ \A i \in 1..n : history'[i].score = call.curve[history'[i].qp]
  BY <1>1, TrialKeepsReal, TrialRecorded DEF TrialsReal
<1>5. CASE best'.qp = qp
  <2>1. history'[n].score = best'.score
    BY <1>2, <1>3, <1>4, <1>5
  <2>2. \A j \in (n + 1)..n : FALSE
    BY <1>1
  <2>3. PICK m \in 1..n : m = n
    BY <1>2
  <2>. HIDE DEF n
  <2>4. Delivers(m)'
    BY <1>1, <1>2, <1>5, <2>2, <2>3 DEF Delivers
  <2>. QED
    BY <1>1, <1>2, <2>1, <2>3, <2>4 DEF BestDelivered
<1>6. CASE best'.qp # qp
  <2>1. used > 0 /\ best' = best
    <3>1. best' = best \/ best'.qp = qp
      BY DEF Trial, BestAfter
    <3>2. used > 0
      BY <1>1, <1>2, <1>3, <1>6
    <3>. QED
      BY <1>6, <3>1, <3>2
  <2>2. PICK m \in 1..used : Delivers(m) /\ history[m].score = best.score
    BY <2>1 DEF IInv, BestDelivered
  <2>3. m \in 1..n /\ history'[m] = history[m]
    BY <1>1, <2>2
  <2>4. \A j \in (m + 1)..n : history'[j].qp # best.qp
    <3>1. \A j \in (m + 1)..n : (j \in (m + 1)..used /\ j \in 1..used) \/ j = n
      BY <1>1
    <3>2. \A j \in (m + 1)..used : history[j].qp # best.qp
      BY <1>1, <2>2 DEF Delivers
    <3>. HIDE DEF n
    <3>. QED
      BY <1>1, <1>2, <1>6, <2>1, <3>1, <3>2
  <2>. HIDE DEF n
  <2>5. Delivers(m)'
    BY <1>1, <2>1, <2>2, <2>3, <2>4 DEF Delivers
  <2>. QED
    BY <1>1, <2>1, <2>2, <2>3, <2>5 DEF BestDelivered
<1>. QED
  BY <1>5, <1>6

\* A bracket that stays open leaves the trial out.
LEMMA TrialKeepsUntried ==
  ASSUME IInv, Trial
  PROVE  OpenBracketUntried'
<1>. SUFFICES ASSUME pc' = "search", lo' < hi', NEW i \in 1..used'
              PROVE  history'[i].qp < lo' \/ history'[i].qp > hi'
  BY DEF OpenBracketUntried
<1>1. /\ used' = used + 1 /\ used \in Nat
      /\ history'[used'] = [qp |-> qp, score |-> call.curve[qp]]
      /\ \A j \in 1..used : history'[j] = history[j]
  BY TrialRecorded
<1>2. Narrowed(call.curve[qp]) = <<lo', hi'>>
  BY TrialMoves
<1>3. /\ lo' \in Nat /\ hi' \in Nat /\ lo <= lo' /\ hi' <= hi
      /\ qp < lo' \/ qp > hi'
  BY <1>2, NarrowedInside DEF IInv
<1>4. CASE i = used'
  BY <1>1, <1>3, <1>4
<1>5. CASE i # used'
  <2>1. i \in 1..used
    BY <1>1, <1>5
  <2>2. lo \in Nat /\ hi \in Nat /\ pc = "search"
    BY Typed DEF IInv, Trial
  <2>3. lo < hi
    BY <1>3, <2>2
  <2>4. history[i].qp < lo \/ history[i].qp > hi
    BY <2>1, <2>2, <2>3 DEF IInv, OpenBracketUntried
  <2>5. history[i].qp \in Nat
    BY <2>1, Bounds DEF IInv, TrialsReal, TypeOK, Domain
  <2>. QED
    BY <1>1, <1>3, <2>1, <2>2, <2>4, <2>5
<1>. QED
  BY <1>4, <1>5

\* What a turn excludes from the bracket on a monotone curve lies on the side its
\* trial has settled, and comes no closer to the target than the trial did.
LEMMA ExcludedByTrial ==
  ASSUME TypeOK, Monotone, NEW l, NEW h, Narrowed(call.curve[qp]) = <<l, h>>,
         NEW q \in Domain(call)
  PROVE  /\ l \in Nat /\ h \in Nat /\ l <= h
         /\ q < l /\ ~(q < lo) => /\ call.curve[q] > call.target
                                /\ ~Closer(call, call.curve[q], call.curve[qp])
         /\ q > h /\ ~(q > hi) => /\ call.curve[q] <= call.target
                                /\ ~Closer(call, call.curve[q], call.curve[qp])
<1>. DEFINE score == call.curve[qp]
<1>1. /\ call \in Searches /\ call.target \in Int
      /\ lo \in Nat /\ hi \in Nat /\ qp \in Nat /\ qp \in Domain(call)
      /\ Low(call) \in Nat /\ High(call) \in Nat
  BY Typed, Bounds DEF TypeOK
<1>2. q \in Nat
  BY <1>1 DEF Domain
<1>3. call.curve[q] \in Score /\ score \in Score
  BY <1>1, Bounds
<1>4. call.curve[q] \in Int /\ score \in Int
  BY <1>1, <1>3 DEF Monotone, Score
<1>5. /\ q <= qp => call.curve[q] >= score
      /\ qp <= q => score >= call.curve[q]
  BY <1>1 DEF Monotone
<1>6. /\ l \in Nat /\ h \in Nat /\ l <= h
      /\ TooGood(call, score) => h = hi /\ l <= qp + 1
      /\ ~TooGood(call, score) => l = lo /\ h >= qp - 1
  BY NarrowedInside
<1>7. TooGood(call, score) <=> score > call.target
  BY <1>1, <1>4 DEF TooGood, Monotone
<1>. HIDE DEF score
<1>8. CASE score > call.target
  <2>1. q < l => q <= qp
    BY <1>1, <1>2, <1>6, <1>7, <1>8
  <2>2. q > h => q > hi
    BY <1>6, <1>7, <1>8
  <2>3. q <= qp => call.curve[q] > call.target /\ ~Closer(call, call.curve[q], score)
    BY <1>1, <1>4, <1>5, <1>8 DEF Closer, Distance
  <2>. QED
    BY <1>6, <2>1, <2>2, <2>3 DEF score
<1>9. CASE score <= call.target
  <2>1. q > h => qp <= q
    BY <1>1, <1>2, <1>6, <1>7, <1>9, <1>4
  <2>2. q < l => q < lo
    BY <1>1, <1>4, <1>6, <1>7, <1>9
  <2>3. qp <= q => call.curve[q] <= call.target /\ ~Closer(call, call.curve[q], score)
    BY <1>1, <1>4, <1>5, <1>9 DEF Closer, Distance
  <2>. QED
    BY <1>6, <2>1, <2>2, <2>3 DEF score
<1>. QED
  BY <1>1, <1>4, <1>8, <1>9

\* What was no closer than the best trial or than this one is no closer than the
\* best behind this one.
LEMMA BestAbsorbs ==
  ASSUME IInv, Trial, Monotone, NEW a \in Score,
         \/ ~Closer(call, a, call.curve[qp])
         \/ used > 0 /\ ~Closer(call, a, best.score)
  PROVE  ~Closer(call, a, best'.score)
<1>1. /\ call \in Searches /\ call.curve[qp] \in Score /\ call.curve[qp] # Unscored
      /\ used \in Nat
  BY Typed, Bounds DEF IInv, TypeOK, Monotone
<1>2. best' = BestAfter(call.curve[qp])
  BY DEF Trial
<1>3. CASE best = None \/ Closer(call, call.curve[qp], best.score)
  <2>1. best'.score = call.curve[qp]
    BY <1>2, <1>3 DEF BestAfter
  <2>2. CASE ~Closer(call, a, call.curve[qp])
    BY <2>1, <2>2
  <2>3. CASE used > 0 /\ ~Closer(call, a, best.score)
    <3>1. best \in BestTrial
      BY <2>3 DEF IInv, BestKept
    <3>2. best.score \in Score /\ Closer(call, call.curve[qp], best.score)
      BY <1>3, <3>1, SearchAssumption DEF BestTrial, Score
    <3>. QED
      BY <1>1, <2>1, <2>3, <3>2, CloserThanAll
  <2>. QED
    BY <2>2, <2>3
<1>4. CASE best # None /\ ~Closer(call, call.curve[qp], best.score)
  <2>1. best' = best
    BY <1>2, <1>4 DEF BestAfter
  <2>2. used > 0
    BY <1>1, <1>4 DEF IInv, BestKept
  <2>3. best.score \in Int
    <3>1. best \in BestTrial /\ history[1].score = call.curve[history[1].qp]
          /\ history[1].qp \in Domain(call)
      BY <1>1, <2>2 DEF IInv, BestKept, TrialsReal
    <3>2. best.score # Unscored
      BY <2>2, <3>1 DEF IInv, BestKept, Monotone
    <3>. QED
      BY <3>1, <3>2 DEF BestTrial
  <2>4. call.target \in Int
    BY <1>1, Bounds
  <2>. QED
    BY <1>1, <1>4, <2>1, <2>3, <2>4 DEF Closer, Distance, Score
<1>. QED
  BY <1>3, <1>4

\* The bracket keeps the target on a monotone curve, and what it leaves outside is
\* no closer than the best trial.
LEMMA TrialKeepsBracket ==
  ASSUME IInv, Trial
  PROVE  BracketSound' /\ OutsideNoCloser'
<1>1. call' = call /\ call \in Searches /\ used' > 0 /\ used \in Nat
  BY TrialRecorded DEF IInv, TypeOK
<1>2. Monotone' <=> Monotone
  BY <1>1 DEF Monotone, Domain, Low, High
<1>3. Domain(call') = Domain(call)
  BY <1>1
<1>4. ASSUME NEW q \in Domain(call)
      PROVE  call.curve[q] \in Score /\ q \in Nat
  BY <1>1, Bounds DEF Domain
<1>5. ASSUME NEW q \in Domain(call), Monotone, q < lo \/ q > hi
      PROVE  ~Closer(call, call.curve[q], best'.score)
  <2>1. used > 0
    <3>1. used = 0 => lo = Low(call) /\ hi = High(call)
      BY DEF IInv, TypeOK, Untouched
    <3>. QED
      BY <1>1, <1>5, <3>1, Bounds DEF Domain
  <2>2. ~Closer(call, call.curve[q], best.score)
    BY <1>5, <2>1 DEF IInv, OutsideNoCloser
  <2>. QED
    BY <1>4, <1>5, <2>1, <2>2, BestAbsorbs
<1>6. CASE pc' = "done" /\ UNCHANGED <<lo, hi, qp>>
  BY <1>1, <1>2, <1>3, <1>5, <1>6 DEF BracketSound, OutsideNoCloser
<1>7. CASE pc' = "search" /\ Narrowed(call.curve[qp]) = <<lo', hi'>>
  <2>1. ASSUME NEW q \in Domain(call), Monotone
        PROVE  /\ q < lo' => call.curve[q] > call.target
               /\ q > hi' => call.curve[q] <= call.target
               /\ q < lo' \/ q > hi' => ~Closer(call, call.curve[q], best'.score)
    <3>1. TypeOK /\ pc = "search"
      BY DEF IInv, Trial
    <3>2. /\ q < lo' /\ ~(q < lo) => /\ call.curve[q] > call.target
                                   /\ ~Closer(call, call.curve[q], call.curve[qp])
          /\ q > hi' /\ ~(q > hi) => /\ call.curve[q] <= call.target
                                   /\ ~Closer(call, call.curve[q], call.curve[qp])
      BY <1>7, <2>1, <3>1, ExcludedByTrial
    <3>3. /\ q < lo => call.curve[q] > call.target
          /\ q > hi => call.curve[q] <= call.target
      BY <2>1, <3>1 DEF IInv, BracketSound
    <3>4. ~Closer(call, call.curve[q], call.curve[qp])
            => ~Closer(call, call.curve[q], best'.score)
      BY <1>4, <2>1, BestAbsorbs
    <3>. QED
      BY <1>5, <2>1, <3>2, <3>3, <3>4
  <2>. QED
    BY <1>1, <1>2, <1>3, <2>1 DEF BracketSound, OutsideNoCloser
<1>. QED
  BY <1>6, <1>7, TrialMoves

\* The turn that ends the search with trials left and no hit has the bracket
\* collapsed onto the best trial: nothing is closer.
LEMMA TrialEndsAtOptimum ==
  ASSUME IInv, Trial
  PROVE  StopsAtOptimum'
<1>. DEFINE score == call.curve[qp]
            b     == Narrowed(score)
            won   == BestAfter(score)
<1>. SUFFICES ASSUME pc' = "done", used' < Budget(call'), Monotone',
                     ~(best'.converged /\ call'.tolerance > 0),
                     NEW q \in Domain(call')
              PROVE  ~Closer(call', call'.curve[q], best'.score)
  BY DEF StopsAtOptimum
<1>1. /\ call' = call /\ used' = used + 1 /\ used \in Nat /\ call \in Searches
      /\ pc = "search" /\ TypeOK /\ best' = won
  BY TrialRecorded DEF IInv, TypeOK, Trial
<1>2. Monotone /\ q \in Domain(call)
  BY <1>1 DEF Monotone, Domain, Low, High
<1>3. Finished(score, b, won)
  BY <1>1 DEF Trial
<1>4. ~(Within(call, score) /\ call.tolerance > 0)
  <2>1. history'[1].score # Unscored /\ 1 \in 1..used'
    BY <1>1, <1>2, TrialKeepsReal DEF TrialsReal, Monotone
  <2>2. best'.converged <=> \E i \in 1..used' : Within(call, history'[i].score)
    BY <1>1, <2>1, TrialKeepsBest DEF BestKept
  <2>3. history'[used'].score = score
    BY TrialRecorded
  <2>4. used' \in 1..used'
    BY <1>1
  <2>. HIDE DEF score
  <2>. QED
    BY <1>1, <2>2, <2>3, <2>4
<1>5. b[1] = b[2] /\ won.qp = b[1]
  BY <1>1, <1>3, <1>4 DEF Finished
<1>6. Narrowed(score) = <<b[1], b[2]>>
  BY DEF Narrowed
<1>7. call.curve[q] \in Score /\ q \in Nat
  BY <1>1, <1>2, Bounds DEF Domain
<1>. HIDE DEF b, won
<1>8. CASE q = b[1]
  <2>1. PICK i \in 1..used' : history'[i].qp = best'.qp /\ history'[i].score = best'.score
    BY <1>1, TrialKeepsBest DEF BestKept
  <2>2. best'.score = call.curve[q]
    BY <1>1, <1>5, <1>8, <2>1, TrialKeepsReal DEF TrialsReal
  <2>. QED
    BY <1>1, <1>7, <2>2, NotCloserThanItself
<1>9. CASE q # b[1]
  <2>1. b[1] \in Nat /\ b[2] \in Nat
    BY <1>1, <1>2, <1>6, ExcludedByTrial
  <2>2. q < b[1] \/ q > b[2]
    BY <1>5, <1>7, <1>9, <2>1
  <2>3. CASE q < lo \/ q > hi
    <3>1. used > 0 /\ ~Closer(call, call.curve[q], best.score)
      BY <1>1, <1>2, <1>7, <2>3, Bounds DEF IInv, OutsideNoCloser, Untouched, Domain
    <3>. QED
      BY <1>1, <1>2, <1>7, <3>1, BestAbsorbs
  <2>4. CASE ~(q < lo) /\ ~(q > hi)
    <3>1. ~Closer(call, call.curve[q], score)
      BY <1>1, <1>2, <1>6, <2>2, <2>4, ExcludedByTrial
    <3>. QED
      BY <1>1, <1>2, <1>7, <3>1, BestAbsorbs
  <2>. QED
    BY <2>3, <2>4
<1>. QED
  BY <1>8, <1>9

-----------------------------------------------------------------------------
(* Bisection.                                                               *)

\* k halvings close a bracket of width w; no bracket is wider than a u8.
Halvable(w, k) == \E j \in 0..8 : j <= k /\ w < 2 ^ j

\* What BisectionSuffices asks of a call.
Bisects ==
  /\ call.step = "bisect" /\ call.tolerance = 0
  /\ Budget(call) >= 2 /\ High(call) - Low(call) < 2 ^ (Budget(call) - 2)

\* Behind its first trial, wherever that was, a bisection tries midpoints only, and
\* has a trial left for each halving and one for the quantiser that remains.
Halving ==
  pc = "search" =>
    /\ used < Budget(call)
    /\ Bisects /\ used > 0 => /\ qp = Midpoint(lo, hi)
                              /\ Halvable(hi - lo, Budget(call) - 1 - used)

\* Each of the first powers of two is twice the one before.
LEMMA Powers ==
  /\ \A j \in 0..8 : 2 ^ j \in Nat
  /\ \A j \in 1..8 : 2 ^ j = 2 * 2 ^ (j - 1)
  /\ 2 ^ 0 = 1 /\ 2 ^ 8 = 256
<1>1. /\ 2 ^ 0 = 1 /\ 2 ^ 1 = 2 /\ 2 ^ 2 = 4 /\ 2 ^ 3 = 8 /\ 2 ^ 4 = 16
      /\ 2 ^ 5 = 32 /\ 2 ^ 6 = 64 /\ 2 ^ 7 = 128 /\ 2 ^ 8 = 256
  OBVIOUS
<1>2. ASSUME NEW j \in 1..8 PROVE 2 ^ j = 2 * 2 ^ (j - 1) /\ 2 ^ j \in Nat
  <2>1. CASE j = 1
    BY <1>1, <2>1
  <2>2. CASE j = 2
    BY <1>1, <2>2
  <2>3. CASE j = 3
    BY <1>1, <2>3
  <2>4. CASE j = 4
    BY <1>1, <2>4
  <2>5. CASE j = 5
    BY <1>1, <2>5
  <2>6. CASE j = 6
    BY <1>1, <2>6
  <2>7. CASE j = 7
    BY <1>1, <2>7
  <2>8. CASE j = 8
    BY <1>1, <2>8
  <2>. QED
    BY <2>1, <2>2, <2>3, <2>4, <2>5, <2>6, <2>7, <2>8
<1>. QED
  BY <1>1, <1>2

\* A bracket inside another is no wider.
LEMMA NestedWidth ==
  ASSUME NEW a \in Nat, NEW l \in Nat, NEW h \in Nat, NEW z \in Nat, a <= l, l <= h, h <= z
  PROVE  h - l \in Nat /\ h - l <= z - a
OBVIOUS

\* A bisection that is not on its first trial halves the bracket.
LEMMA TrialHalves ==
  ASSUME TypeOK, qp = Midpoint(lo, hi), NEW k \in Nat, Halvable(hi - lo, k), k > 0,
         NEW l, NEW h, Narrowed(call.curve[qp]) = <<l, h>>
  PROVE  Halvable(h - l, k - 1)
<1>1. /\ lo \in Nat /\ hi \in Nat /\ lo <= hi /\ qp = lo + (hi - lo) \div 2
  BY Typed DEF Midpoint
<1>2. \/ l = MinOf(qp + 1, hi) /\ h = hi
      \/ l = lo /\ h = MaxOf(qp - 1, lo)
  BY DEF Narrowed
<1>3. PICK j \in 0..8 : j <= k /\ hi - lo < 2 ^ j
  BY DEF Halvable
<1>4. /\ h - l \in Nat
      /\ hi - lo = 0 => h - l = 0
      /\ 2 * (h - l) <= hi - lo
  <2>. DEFINE w == hi - lo
              half == w \div 2
  <2>1. w \in Nat /\ half \in Nat /\ 2 * half <= w /\ w <= 2 * half + 1 /\ qp = lo + half
    BY <1>1
  <2>. HIDE DEF half
  <2>2. \/ h - l = 0
        \/ w - half >= 1 /\ h - l = w - half - 1
        \/ half > 0 /\ h - l = half - 1
    BY <1>1, <1>2, <2>1 DEF MinOf, MaxOf
  <2>. QED
    BY <1>1, <2>1, <2>2
<1>5. CASE j = 0
  <2>1. h - l < 2 ^ 0
    BY <1>1, <1>3, <1>4, <1>5, Powers
  <2>. QED
    BY <2>1 DEF Halvable
<1>6. CASE j > 0
  <2>1. j - 1 \in 0..8 /\ j - 1 <= k - 1 /\ j \in 1..8
    BY <1>3, <1>6
  <2>2. 2 ^ j = 2 * 2 ^ (j - 1) /\ 2 ^ (j - 1) \in Nat
    BY <2>1, Powers
  <2>3. h - l < 2 ^ (j - 1)
    BY <1>1, <1>3, <1>4, <2>2
  <2>. QED
    BY <2>1, <2>3 DEF Halvable
<1>. QED
  BY <1>5, <1>6

\* The quantisers of a call are at most 255 apart.
LEMMA WidthIsByte ==
  ASSUME NEW a \in 0..255, NEW b \in 0..255
  PROVE  MaxOf(a, b) - MinOf(a, b) \in 0..255
<1>1. CASE a <= b
  <2>1. MaxOf(a, b) = b /\ MinOf(a, b) = a /\ b - a \in 0..255
    BY <1>1 DEF MaxOf, MinOf
  <2>. QED
    BY <2>1
<1>2. CASE b < a
  <2>1. MaxOf(a, b) = a /\ MinOf(a, b) = b /\ a - b \in 0..255
    BY <1>2 DEF MaxOf, MinOf
  <2>. QED
    BY <2>1
<1>. QED
  BY <1>1, <1>2

\* The first trial leaves a bracket that the rest of the budget halves away.
LEMMA FirstTrialFits ==
  ASSUME call \in Searches, Bisects, NEW w \in Nat, w <= High(call) - Low(call)
  PROVE  Halvable(w, Budget(call) - 2)
<1>1. /\ Budget(call) \in Nat /\ Budget(call) >= 2
      /\ High(call) - Low(call) \in 0..255
      /\ High(call) - Low(call) < 2 ^ (Budget(call) - 2)
  <2>1. call.min_qp \in 0..255 /\ call.max_qp \in 0..255
    BY SearchAssumption
  <2>2. High(call) - Low(call) \in 0..255
    BY <2>1, WidthIsByte DEF High, Low
  <2>. QED
    BY <2>2, Bounds DEF Bisects
<1>2. CASE Budget(call) - 2 <= 8
  <2>. DEFINE j == Budget(call) - 2
              d == High(call) - Low(call)
  <2>1. j \in 0..8 /\ d \in Nat /\ d < 2 ^ j /\ w <= d
    BY <1>1, <1>2
  <2>2. 2 ^ j \in Nat
    BY <2>1, Powers
  <2>. HIDE DEF j, d
  <2>3. w < 2 ^ j /\ j <= j
    BY <2>1, <2>2
  <2>. QED
    BY <2>1, <2>3 DEF Halvable, j
<1>3. CASE Budget(call) - 2 > 8
  <2>1. w < 2 ^ 8
    BY <1>1, Powers
  <2>. QED
    BY <1>1, <1>3, <2>1 DEF Halvable
<1>. QED
  BY <1>1, <1>2, <1>3

\* A turn keeps a bisection in time.
LEMMA TrialKeepsHalving ==
  ASSUME IInv, Halving, Trial
  PROVE  Halving'
<1>. DEFINE b == Narrowed(call.curve[qp])
<1>. SUFFICES ASSUME pc' = "search" PROVE Halving'
  BY DEF Halving
<1>1. /\ TypeOK /\ pc = "search" /\ call' = call /\ call \in Searches
      /\ used' = used + 1 /\ used \in Nat /\ Budget(call) \in Nat
  BY TrialRecorded, Bounds DEF IInv, TypeOK, Trial
<1>2. /\ ~Finished(call.curve[qp], b, BestAfter(call.curve[qp]))
      /\ lo' = b[1] /\ hi' = b[2]
      /\ qp' = NextQp(b, history')
  BY <1>1 DEF Trial
<1>3. b = <<lo', hi'>>
  BY <1>1, <1>2, TrialMoves
<1>4. used' < Budget(call)
  BY <1>1, <1>2 DEF Finished, Halving
<1>5. ASSUME Bisects
      PROVE  qp' = Midpoint(lo', hi') /\ Halvable(hi' - lo', Budget(call) - 1 - used')
  <2>1. /\ lo' \in Nat /\ hi' \in Nat /\ lo <= lo' /\ lo' <= hi' /\ hi' <= hi
        /\ Low(call) <= lo /\ hi <= High(call) /\ lo \in Nat /\ hi \in Nat
        /\ Low(call) \in Nat /\ High(call) \in Nat
    BY <1>1, <1>3, NarrowedInside, Typed, Bounds
  <2>2. qp' = Midpoint(lo', hi')
    <3>1. NextTrialQp(lo', hi', history') = Midpoint(lo', hi')
      BY <1>5 DEF NextTrialQp, Bisects
    <3>2. qp' = IF lo' = hi' THEN lo' ELSE Midpoint(lo', hi')
      BY <1>2, <1>3, <3>1 DEF NextQp
    <3>. QED
      BY <2>1, <3>2 DEF Midpoint
  <2>3. CASE used = 0
    <3>1. hi' - lo' \in Nat /\ hi' - lo' <= High(call) - Low(call)
      <4>1. Low(call) <= lo' /\ hi' <= High(call)
        BY <2>1
      <4>. QED
        BY <2>1, <4>1, NestedWidth, Zenon
    <3>2. Halvable(hi' - lo', Budget(call) - 2)
      BY <1>1, <1>5, <3>1, FirstTrialFits
    <3>3. Budget(call) - 1 - used' = Budget(call) - 2
      BY <1>1, <2>3
    <3>. QED
      BY <2>2, <3>2, <3>3
  <2>4. CASE used > 0
    <3>. DEFINE k == Budget(call) - 1 - used
    <3>1. qp = Midpoint(lo, hi) /\ Halvable(hi - lo, k)
      BY <1>1, <1>5, <2>4 DEF Halving
    <3>2. k \in Nat /\ k > 0 /\ k - 1 = Budget(call) - 1 - used'
      BY <1>1, <1>4
    <3>. HIDE DEF k
    <3>3. Halvable(hi' - lo', k - 1)
      BY <1>1, <1>3, <3>1, <3>2, TrialHalves
    <3>. QED
      BY <2>2, <3>2, <3>3
  <2>. QED
    BY <1>1, <2>3, <2>4
<1>6. Bisects' <=> Bisects
  BY <1>1 DEF Bisects
<1>. QED
  BY <1>1, <1>4, <1>5, <1>6 DEF Halving

\* The turn that ends a bisection in time has found the closest quantiser.
LEMMA TrialEndsBisection ==
  ASSUME IInv, Halving, Trial
  PROVE  BisectionSuffices'
<1>. DEFINE score == call.curve[qp]
<1>1. /\ TypeOK /\ pc = "search" /\ call' = call /\ call \in Searches
      /\ used' = used + 1 /\ used \in Nat /\ Budget(call) \in Nat
      /\ used < Budget(call)
  BY TrialRecorded, Bounds DEF IInv, TypeOK, Trial, Halving
<1>. SUFFICES ASSUME pc' = "done", Monotone, Bisects, NEW q \in Domain(call)
              PROVE  ~Closer(call, call.curve[q], best'.score)
  BY <1>1 DEF BisectionSuffices, Bisects, Monotone, Domain, Low, High
<1>2. CASE used' < Budget(call)
  <2>1. StopsAtOptimum'
    BY TrialEndsAtOptimum
  <2>2. Monotone' /\ Domain(call') = Domain(call) /\ call'.tolerance = 0
    BY <1>1 DEF Monotone, Bisects
  <2>. QED
    BY <1>1, <1>2, <2>1, <2>2 DEF StopsAtOptimum
<1>3. CASE used' = Budget(call)
  <2>1. used > 0 /\ Budget(call) - 1 - used = 0
    BY <1>1, <1>3 DEF Bisects
  <2>2. Halvable(hi - lo, 0)
    BY <1>1, <2>1 DEF Halving
  <2>3. lo = qp /\ hi = qp /\ qp \in Nat
    <3>1. hi - lo < 1
      <4>1. PICK j \in 0..8 : j <= 0 /\ hi - lo < 2 ^ j
        BY <2>2 DEF Halvable
      <4>2. j = 0
        BY <4>1
      <4>. QED
        BY <4>1, <4>2, Powers
    <3>. QED
      BY <1>1, <3>1, Typed
  <2>4. call.curve[q] \in Score /\ q \in Nat
    BY <1>1, Bounds DEF Domain
  <2>5. CASE q = qp
    <3>1. ~Closer(call, call.curve[q], call.curve[qp])
      BY <1>1, <2>4, <2>5, NotCloserThanItself
    <3>. QED
      BY <2>4, <3>1, BestAbsorbs
  <2>6. CASE q # qp
    <3>1. q < lo \/ q > hi
      BY <2>3, <2>4, <2>6
    <3>2. ~Closer(call, call.curve[q], best.score)
      BY <2>1, <3>1 DEF IInv, OutsideNoCloser
    <3>. QED
      BY <2>1, <2>4, <3>2, BestAbsorbs
  <2>. QED
    BY <2>5, <2>6
<1>. QED
  BY <1>1, <1>2, <1>3

-----------------------------------------------------------------------------
(* The invariant and what follows.                                          *)

\* The invariant holds of every reachable state of the search.
THEOREM InductiveInvariant == Spec => []IInv
<1>1. Init => IInv
  <2>. SUFFICES ASSUME Init PROVE IInv
    OBVIOUS
  <2>1. /\ call \in Searches /\ Low(call) \in Nat /\ High(call) \in Nat
        /\ Low(call) <= High(call) /\ call.qp_start \in 0..255 \cup {None}
        /\ lo = Low(call) /\ hi = High(call) /\ used = 0 /\ history = <<>>
        /\ best = None /\ pc = "search"
    BY Bounds DEF Init
  <2>2. qp \in lo..hi
    <3>1. CASE call.qp_start = None
      BY <2>1, <3>1, MidpointInside DEF Init
    <3>2. CASE call.qp_start # None
      <4>1. qp = MinOf(MaxOf(call.qp_start, lo), hi)
        BY <3>2 DEF Init
      <4>2. call.qp_start \in Nat
        <5>1. call.qp_start \in 0..255 \cup {None}
          BY <2>1
        <5>2. call.qp_start \in 0..255
          BY <3>2, <5>1, Zenon
        <5>. QED
          BY <5>2
      <4>3. lo \in Nat /\ hi \in Nat /\ lo <= hi
        BY <2>1
      <4>. QED
        BY <4>1, <4>2, <4>3 DEF MinOf, MaxOf
    <3>. QED
      BY <3>1, <3>2
  <2>3. history \in Seq([qp : Int, score : Score]) /\ Len(history) = 0
    BY <2>1, EmptySeq
  <2>4. TypeOK
    BY <2>1, <2>2, <2>3 DEF TypeOK, Domain
  <2>5. BracketSound
    BY <2>1 DEF BracketSound, Domain
  <2>. QED
    BY <2>1, <2>3, <2>4, <2>5
    DEF IInv, Untouched, TrialsReal, OpenBracketUntried, BestKept, BestDelivered,
        OutsideNoCloser, StopsAtOptimum
<1>2. IInv /\ [Next]_vars => IInv'
  <2>. SUFFICES ASSUME IInv, [Next]_vars PROVE IInv'
    OBVIOUS
  <2>1. CASE Trial
    <3>1. TypeOK'
      <4>1. /\ call' \in Searches /\ used' \in Nat
            /\ history' \in Seq([qp : Int, score : Score])
        BY <2>1, TrialRecorded DEF IInv, TypeOK
      <4>2. pc' \in {"search", "done", "failed"}
        BY <2>1, TrialMoves
      <4>3. lo' \in Domain(call) /\ hi' \in Domain(call) /\ lo' <= hi' /\ qp' \in lo'..hi'
        <5>1. CASE UNCHANGED <<lo, hi, qp>>
          BY <5>1 DEF IInv, TypeOK
        <5>2. CASE Narrowed(call.curve[qp]) = <<lo', hi'>> /\ qp' \in lo'..hi'
          <6>1. /\ lo' \in Nat /\ hi' \in Nat
                /\ lo <= lo' /\ lo' <= hi' /\ hi' <= hi
            BY <5>2, NarrowedInside DEF IInv
          <6>2. /\ lo \in Nat /\ hi \in Nat /\ Low(call) \in Nat /\ High(call) \in Nat
                /\ Low(call) <= lo /\ hi <= High(call)
            BY Typed, Bounds DEF IInv, TypeOK
          <6>. QED
            BY <5>2, <6>1, <6>2 DEF Domain
        <5>. QED
          BY <2>1, <5>1, <5>2, TrialMoves
      <4>. QED
        BY <2>1, <4>1, <4>2, <4>3, TrialRecorded DEF TypeOK
    <3>2. Untouched'
      BY <2>1, TrialRecorded DEF Untouched
    <3>3. OpenBracketUntried'
      BY <2>1, TrialKeepsUntried
    <3>. QED
      BY <2>1, <3>1, <3>2, <3>3, TrialKeepsReal, TrialKeepsBest, TrialKeepsDelivered,
         TrialKeepsBracket, TrialEndsAtOptimum
      DEF IInv
  <2>2. CASE TrialFails
    BY <2>2
    DEF TrialFails, IInv, TypeOK, Untouched, TrialsReal, OpenBracketUntried, BestKept,
        BestDelivered, Delivers, BracketSound, OutsideNoCloser, StopsAtOptimum, Monotone
  <2>3. CASE UNCHANGED vars
    BY <2>3
    DEF vars, IInv, TypeOK, Untouched, TrialsReal, OpenBracketUntried, BestKept,
        BestDelivered, Delivers, BracketSound, OutsideNoCloser, StopsAtOptimum, Monotone
  <2>. QED
    BY <2>1, <2>2, <2>3 DEF Next
<1>. QED
  BY <1>1, <1>2, PTL DEF Spec

\* search_target_qp never drops the target of a monotone curve out of its bracket,
\* whatever the bounds, the curve, the secant's steps and the budget.
THEOREM BracketKeepsTarget == Spec => []BracketSound
<1>1. IInv => BracketSound
  BY DEF IInv
<1>. QED
  BY <1>1, InductiveInvariant, PTL

\* What encode_to_target returns is its closest trial, truthfully reported, for
\* every call whose first trial is scored.
THEOREM ReturnsTheBest == Spec => []BestOfTrials
<1>1. IInv => BestOfTrials
  <2>. SUFFICES ASSUME IInv, used > 0, history[1].score # Unscored PROVE
         /\ \E i \in 1..Len(history) : Delivers(i) /\ history[i].score = best.score
         /\ \A i \in 1..Len(history) : ~Closer(call, history[i].score, best.score)
         /\ best.converged <=> \E i \in 1..Len(history) : Within(call, history[i].score)
    BY DEF BestOfTrials
  <2>1. Len(history) = used
    BY DEF IInv, TrialsReal
  <2>. QED
    BY <2>1 DEF IInv, BestKept, BestDelivered
<1>. QED
  BY <1>1, InductiveInvariant, PTL

\* A search that ends early without a hit has found the optimum of its curve.
THEOREM EarlyStopIsOptimal == Spec => []StopsAtOptimum
<1>1. IInv => StopsAtOptimum
  BY DEF IInv
<1>. QED
  BY <1>1, InductiveInvariant, PTL

\* While the bracket is open no quantiser is encoded again.
THEOREM OpenSearchNeverRepeats == Spec => []RepeatsOnlyCollapsed
<1>1. IInv => RepeatsOnlyCollapsed
  <2>. SUFFICES ASSUME IInv, pc = "search", lo < hi, NEW i \in 1..Len(history),
                       history[i].qp = qp
                PROVE  FALSE
    BY DEF RepeatsOnlyCollapsed, Tried
  <2>1. i \in 1..used
    BY DEF IInv, TrialsReal
  <2>2. qp < lo \/ qp > hi
    BY <2>1 DEF IInv, OpenBracketUntried
  <2>. QED
    BY <2>2, Typed DEF IInv
<1>. QED
  BY <1>1, InductiveInvariant, PTL

\* Two trials and one for each halving of the domain find the optimum of every
\* monotone curve by bisection, from any start.
THEOREM BisectionFindsOptimum == Spec => []BisectionSuffices
<1>1. Init => Halving /\ BisectionSuffices
  BY Bounds DEF Init, Halving, BisectionSuffices
<1>2. IInv /\ Halving /\ BisectionSuffices /\ [Next]_vars => (Halving /\ BisectionSuffices)'
  <2>. SUFFICES ASSUME IInv, Halving, BisectionSuffices, [Next]_vars
                PROVE  (Halving /\ BisectionSuffices)'
    OBVIOUS
  <2>1. CASE Trial
    BY <2>1, TrialKeepsHalving, TrialEndsBisection
  <2>2. CASE TrialFails
    BY <2>2 DEF TrialFails, Halving, BisectionSuffices
  <2>3. CASE UNCHANGED vars
    BY <2>3 DEF vars, Halving, Bisects, BisectionSuffices, Monotone
  <2>. QED
    BY <2>1, <2>2, <2>3 DEF Next
<1>. QED
  BY <1>1, <1>2, InductiveInvariant, PTL DEF Spec

=============================================================================
