-------------------------- MODULE TileWalk_proofs --------------------------
(***************************************************************************)
(* For every number of tiles and threads: the tiles in the works stay      *)
(* within the limit, none outlives the call, and the call answers what a   *)
(* walk in tile order would have.                                          *)
(***************************************************************************)
EXTENDS TileWalk, FiniteSetTheorems, SequenceTheorems, TLAPS

Outcomes == {"ok", "error", "cancelled"}

\* The outcome of a tile that no cancellation disturbs.
Own(t) == IF walk.fails[t] = None THEN "ok" ELSE "error"

TypeOK ==
  /\ walk \in Walks
  /\ cancelled \in BOOLEAN
  /\ at \in [Tiles(walk) -> {"waiting", "starting", "polling", "coding", "ended"}]
  /\ coded \in [Tiles(walk) -> Nat]
  /\ outcome \in [Tiles(walk) -> Outcomes \cup {None}]
  /\ spawned \in 0..walk.num_tiles
  /\ results \in Seq(Outcomes)
  /\ answer \in Outcomes \cup {None}

\* Waves are joined before the next, so that the tiles in the works lie between the
\* joined ones and the waiting ones, at most a wave of them.
WaveByWave ==
  /\ Len(results) <= spawned /\ spawned <= Len(results) + Limit(walk)
  /\ \A t \in Tiles(walk) : at[t] = "waiting" <=> t > spawned
  /\ \A t \in Tiles(walk) : t <= Len(results) => at[t] = "ended" /\ results[t] = outcome[t]
  /\ answer # None => Len(results) = spawned /\ (spawned = walk.num_tiles \/ ShortCircuits)

\* A tile in the works has not reached the superblock that fails.
Unfailed ==
  \A t \in Tiles(walk) :
    at[t] \in {"waiting", "starting", "polling", "coding"} =>
      /\ coded[t] < walk.sbs
      /\ at[t] \in {"waiting", "starting"} => coded[t] = 0
      /\ at[t] \in {"polling", "coding"} /\ walk.fails[t] # None => walk.fails[t] > coded[t]

\* How a tile can end.
Truly(t, how) == how = Own(t) \/ (how = "cancelled" /\ cancelled)

EndsTruly == \A t \in Tiles(walk) : at[t] = "ended" => Truly(t, outcome[t])

IsFirstBad(s, i) == s[i] # "ok" /\ \A j \in 1..(i - 1) : s[j] = "ok"

\* An outcome that is not "ok" has a first one before or at it.
FirstKnown == AllOk(results) \/ \E i \in 1..Len(results) : IsFirstBad(results, i)

IInv == TypeOK /\ WaveByWave /\ Unfailed /\ EndsTruly /\ FirstKnown

-----------------------------------------------------------------------------
(* The first outcome that is not "ok".                                      *)

LEMMA FirstBadChosen ==
  ASSUME NEW s \in Seq(Outcomes), NEW i \in 1..Len(s), IsFirstBad(s, i)
  PROVE  FirstBad(s) \in 1..Len(s) /\ IsFirstBad(s, FirstBad(s))
BY DEF FirstBad, IsFirstBad

LEMMA FirstBadUnique ==
  ASSUME NEW s \in Seq(Outcomes), NEW i \in 1..Len(s), IsFirstBad(s, i)
  PROVE  ~AllOk(s) /\ FirstBad(s) = i
<1>1. ~AllOk(s)
  BY DEF AllOk, IsFirstBad
<1>2. FirstBad(s) \in 1..Len(s) /\ IsFirstBad(s, FirstBad(s))
  BY FirstBadChosen
<1>3. ~(FirstBad(s) < i) /\ ~(i < FirstBad(s))
  BY <1>2 DEF IsFirstBad
<1>. QED
  BY <1>1, <1>2, <1>3

-----------------------------------------------------------------------------
(* The limit.                                                               *)

LEMMA LimitBounds ==
  ASSUME NEW w \in Walks
  PROVE  /\ Limit(w) \in Nat
         /\ Limit(w) <= IF w.thread_count = 0 THEN w.cores ELSE w.thread_count
         /\ w.num_tiles \in Nat /\ w.thread_count \in Nat /\ w.cores \in Nat /\ w.sbs \in Nat
         /\ w.sbs > 0
         /\ w.fails \in [Tiles(w) -> 0..w.sbs \cup {None}]
         /\ None \notin Nat /\ None \notin Outcomes
<1>1. /\ w.num_tiles \in Nat \ {0} /\ w.thread_count \in Nat /\ w.cores \in Nat \ {0}
      /\ w.sbs \in Nat \ {0}
      /\ w.fails \in [Tiles(w) -> 0..w.sbs \cup {None}]
      /\ None \notin Nat \cup {"ok", "error", "cancelled"}
  BY WalkAssumption
<1>. QED
  BY <1>1 DEF Limit, Smaller, Outcomes

-----------------------------------------------------------------------------
(* The invariant.                                                           *)

\* What a tile's end disturbs: nothing of the other tiles.
LEMMA TileEnds ==
  ASSUME IInv, NEW t \in Tiles(walk), at[t] \in {"starting", "polling", "coding"},
         at' = [at EXCEPT ![t] = "ended"],
         outcome' \in [Tiles(walk) -> Outcomes \cup {None}], Truly(t, outcome'[t]),
         \A u \in Tiles(walk) \ {t} : outcome'[u] = outcome[u] /\ coded'[u] = coded[u],
         coded' \in [Tiles(walk) -> Nat],
         UNCHANGED <<walk, cancelled, spawned, results, answer>>
  PROVE  IInv'
<1>1. TypeOK'
  BY DEF IInv, TypeOK, Tiles
<1>2. WaveByWave'
  BY DEF IInv, TypeOK, WaveByWave, ShortCircuits, Tiles, Limit
<1>3. Unfailed'
  BY DEF IInv, TypeOK, Unfailed, Tiles
<1>4. EndsTruly'
  BY DEF IInv, TypeOK, EndsTruly, Truly, Own, Tiles
<1>5. FirstKnown'
  BY DEF IInv, FirstKnown, AllOk, IsFirstBad
<1>. QED
  BY <1>1, <1>2, <1>3, <1>4, <1>5 DEF IInv

\* A step inside a tile's life.
LEMMA TileMoves ==
  ASSUME IInv, NEW t \in Tiles(walk), at[t] \in {"starting", "polling", "coding"},
         NEW where \in {"polling", "coding"}, at' = [at EXCEPT ![t] = where],
         NEW n \in Nat, coded' = [coded EXCEPT ![t] = n], n < walk.sbs,
         walk.fails[t] # None => walk.fails[t] > n,
         UNCHANGED <<walk, cancelled, outcome, spawned, results, answer>>
  PROVE  IInv'
<1>1. TypeOK'
  BY DEF IInv, TypeOK, Tiles
<1>2. WaveByWave'
  BY DEF IInv, TypeOK, WaveByWave, ShortCircuits, Tiles, Limit
<1>3. Unfailed'
  BY DEF IInv, TypeOK, Unfailed, Tiles
<1>4. EndsTruly'
  BY DEF IInv, TypeOK, EndsTruly, Truly, Own, Tiles
<1>5. FirstKnown'
  BY DEF IInv, FirstKnown, AllOk, IsFirstBad
<1>. QED
  BY <1>1, <1>2, <1>3, <1>4, <1>5 DEF IInv

LEMMA TileStepKeeps ==
  ASSUME IInv, NEW t \in Tiles(walk), TileStep(t)
  PROVE  IInv'
<1>1. /\ walk \in Walks /\ coded[t] \in Nat /\ coded[t] < walk.sbs
      /\ at[t] \in {"starting", "polling", "coding"}
      /\ walk.fails[t] \in 0..walk.sbs \cup {None} /\ walk.sbs \in Nat
      /\ None \notin Nat
      /\ at[t] = "starting" => coded[t] = 0
      /\ at[t] \in {"polling", "coding"} /\ walk.fails[t] # None => walk.fails[t] > coded[t]
      /\ coded \in [Tiles(walk) -> Nat]
      /\ outcome \in [Tiles(walk) -> Outcomes \cup {None}]
  BY LimitBounds DEF IInv, TypeOK, Unfailed, TileStep, Start, Poll, CodeSb, StopInside
<1>2. CASE Start(t)
  <2>1. CASE walk.fails[t] = 0
    <3>1. Own(t) = "error"
      BY <1>1, <2>1 DEF Own
    <3>2. /\ outcome' \in [Tiles(walk) -> Outcomes \cup {None}] /\ Truly(t, outcome'[t])
          /\ \A u \in Tiles(walk) \ {t} : outcome'[u] = outcome[u] /\ coded'[u] = coded[u]
          /\ coded' \in [Tiles(walk) -> Nat]
      BY <1>1, <1>2, <2>1, <3>1 DEF Start, End, Truly, Outcomes
    <3>. QED
      BY <1>1, <1>2, <2>1, <3>2, TileEnds DEF Start, End
  <2>2. CASE walk.fails[t] # 0
    <3>1. walk.fails[t] # None => walk.fails[t] > 0
      BY <1>1, <2>2
    <3>2. coded' = [coded EXCEPT ![t] = 0] /\ 0 < walk.sbs
      BY <1>1, <1>2, <2>2 DEF Start
    <3>. QED
      BY <1>1, <1>2, <2>2, <3>1, <3>2, TileMoves DEF Start
  <2>. QED
    BY <2>1, <2>2
<1>3. CASE Poll(t)
  <2>1. CASE cancelled
    BY <1>1, <1>3, <2>1, TileEnds DEF Poll, End, Truly, Outcomes
  <2>2. CASE ~cancelled
    <3>1. coded' = [coded EXCEPT ![t] = coded[t]]
      BY <1>1, <1>3, <2>2 DEF Poll
    <3>. QED
      BY <1>1, <1>3, <2>2, <3>1, TileMoves DEF Poll
  <2>. QED
    BY <2>1, <2>2
<1>4. CASE CodeSb(t)
  <2>1. CASE walk.fails[t] = coded[t] + 1
    <3>1. Own(t) = "error"
      BY <1>1, <2>1 DEF Own
    <3>2. /\ outcome' \in [Tiles(walk) -> Outcomes \cup {None}] /\ Truly(t, outcome'[t])
          /\ \A u \in Tiles(walk) \ {t} : outcome'[u] = outcome[u] /\ coded'[u] = coded[u]
          /\ coded' \in [Tiles(walk) -> Nat]
      BY <1>1, <1>4, <2>1, <3>1 DEF CodeSb, End, Truly, Outcomes
    <3>. QED
      BY <1>1, <1>4, <2>1, <3>2, TileEnds DEF CodeSb, End
  <2>2. CASE walk.fails[t] # coded[t] + 1 /\ coded[t] + 1 = walk.sbs
    <3>1. Own(t) = "ok"
      BY <1>1, <1>4, <2>2 DEF CodeSb, Own
    <3>2. /\ outcome' \in [Tiles(walk) -> Outcomes \cup {None}] /\ Truly(t, outcome'[t])
          /\ \A u \in Tiles(walk) \ {t} : outcome'[u] = outcome[u] /\ coded'[u] = coded[u]
          /\ coded' \in [Tiles(walk) -> Nat]
      BY <1>1, <1>4, <2>2, <3>1 DEF CodeSb, Truly, Outcomes
    <3>. QED
      BY <1>1, <1>4, <2>2, <3>2, TileEnds DEF CodeSb
  <2>3. CASE walk.fails[t] # coded[t] + 1 /\ coded[t] + 1 # walk.sbs
    <3>1. coded[t] + 1 \in Nat /\ coded[t] + 1 < walk.sbs
      BY <1>1, <2>3
    <3>2. walk.fails[t] # None => walk.fails[t] > coded[t] + 1
      BY <1>1, <1>4, <2>3 DEF CodeSb
    <3>3. /\ coded' = [coded EXCEPT ![t] = coded[t] + 1]
          /\ at' = [at EXCEPT ![t] = "polling"]
      BY <1>4, <2>3 DEF CodeSb
    <3>. QED
      BY <1>1, <1>4, <2>3, <3>1, <3>2, <3>3, TileMoves DEF CodeSb
  <2>. QED
    BY <2>1, <2>2, <2>3
<1>5. CASE StopInside(t)
  BY <1>1, <1>5, TileEnds DEF StopInside, End, Truly, Outcomes
<1>. QED
  BY <1>2, <1>3, <1>4, <1>5 DEF TileStep

LEMMA SpawnKeeps ==
  ASSUME IInv, SpawnWave
  PROVE  IInv'
<1>1. /\ walk \in Walks /\ walk.num_tiles \in Nat /\ Limit(walk) \in Nat /\ spawned \in Nat
      /\ spawned < walk.num_tiles /\ Len(results) = spawned
      /\ spawned' = Smaller(spawned + Limit(walk), walk.num_tiles)
  BY LimitBounds DEF SpawnWave, IInv, TypeOK
<1>2. spawned' \in spawned..walk.num_tiles /\ spawned' <= spawned + Limit(walk)
  BY <1>1 DEF Smaller
<1>3. \A t \in Tiles(walk) : at'[t] = IF t \in (spawned + 1)..spawned' THEN "starting" ELSE at[t]
  BY DEF SpawnWave
<1>4. /\ at' \in [Tiles(walk) -> {"waiting", "starting", "polling", "coding", "ended"}]
      /\ UNCHANGED <<walk, cancelled, coded, outcome, results, answer>>
  BY <1>3 DEF SpawnWave, IInv, TypeOK
<1>5. TypeOK'
  BY <1>1, <1>2, <1>4 DEF IInv, TypeOK
<1>6. WaveByWave'
  <2>1. \A t \in Tiles(walk) : t > spawned <=> at[t] = "waiting"
    BY DEF IInv, WaveByWave
  <2>2. \A t \in Tiles(walk) : at'[t] = "waiting" <=> t > spawned'
    BY <1>1, <1>2, <1>3, <2>1 DEF Tiles
  <2>3. \A t \in Tiles(walk) : t <= Len(results) => at'[t] = at[t]
    BY <1>1, <1>3 DEF Tiles
  <2>4. answer = None
    BY DEF SpawnWave, IInv, WaveByWave
  <2>5. Limit(walk') = Limit(walk) /\ Len(results') = Len(results)
    BY <1>4
  <2>6. Len(results) <= spawned' /\ spawned' <= Len(results) + Limit(walk)
    BY <1>1, <1>2
  <2>7. \A t \in Tiles(walk) : t <= Len(results) => at'[t] = "ended" /\ results[t] = outcome[t]
    BY <2>3 DEF IInv, WaveByWave
  <2>. QED
    BY <1>4, <2>2, <2>4, <2>5, <2>6, <2>7 DEF WaveByWave
<1>7. Unfailed'
  <2>. SUFFICES ASSUME NEW t \in Tiles(walk),
                       at'[t] \in {"waiting", "starting", "polling", "coding"}
                PROVE  /\ coded[t] < walk.sbs
                       /\ at'[t] \in {"waiting", "starting"} => coded[t] = 0
                       /\ at'[t] \in {"polling", "coding"} /\ walk.fails[t] # None
                            => walk.fails[t] > coded[t]
    BY <1>4 DEF Unfailed
  <2>1. at'[t] = at[t] \/ (at'[t] = "starting" /\ at[t] = "waiting")
    BY <1>1, <1>3 DEF IInv, WaveByWave, Tiles
  <2>. QED
    BY <2>1 DEF IInv, Unfailed
<1>8. EndsTruly'
  BY <1>3, <1>4 DEF IInv, EndsTruly, Truly, Own
<1>9. FirstKnown'
  BY <1>4 DEF IInv, FirstKnown
<1>. QED
  BY <1>5, <1>6, <1>7, <1>8, <1>9 DEF IInv

LEMMA JoinKeeps ==
  ASSUME IInv, Join
  PROVE  /\ IInv'
         /\ results' = Append(results, outcome[Len(results) + 1])
         /\ Len(results) + 1 \in Tiles(walk)
         /\ Len(results') = Len(results) + 1 /\ Len(results) \in Nat
         /\ \A i \in 1..Len(results) : results'[i] = results[i]
         /\ results'[Len(results) + 1] = outcome[Len(results) + 1]
         /\ \/ outcome[Len(results) + 1] = Own(Len(results) + 1)
            \/ outcome[Len(results) + 1] = "cancelled" /\ cancelled
<1>. DEFINE t == Len(results) + 1
<1>1. /\ walk \in Walks /\ walk.num_tiles \in Nat /\ spawned \in 0..walk.num_tiles
      /\ results \in Seq(Outcomes) /\ Len(results) \in Nat /\ Len(results) < spawned
      /\ at[t] = "ended" /\ results' = Append(results, outcome[t])
      /\ UNCHANGED <<walk, cancelled, at, coded, outcome, spawned, answer>>
  BY LimitBounds DEF Join, IInv, TypeOK
<1>2. t \in Tiles(walk)
  BY <1>1 DEF Tiles
<1>3. outcome[t] = Own(t) \/ (outcome[t] = "cancelled" /\ cancelled)
  BY <1>1, <1>2 DEF IInv, EndsTruly, Truly
<1>4. outcome[t] \in Outcomes
  BY <1>3 DEF Truly, Own, Outcomes
<1>5. /\ results' \in Seq(Outcomes) /\ Len(results') = t
      /\ \A i \in 1..Len(results) : results'[i] = results[i]
      /\ results'[t] = outcome[t]
  BY <1>1, <1>4, AppendProperties
<1>6. TypeOK'
  BY <1>1, <1>5 DEF IInv, TypeOK
<1>. HIDE DEF t
<1>7. WaveByWave'
  <2>1. \A u \in Tiles(walk) : u <= t => u = t \/ u \in 1..Len(results)
    BY <1>1 DEF Tiles, t
  <2>2. \A u \in Tiles(walk) : u <= t => at[u] = "ended" /\ results'[u] = outcome[u]
    BY <1>1, <1>5, <2>1 DEF IInv, WaveByWave
  <2>3. t <= spawned /\ spawned <= t + Limit(walk)
    BY <1>1, LimitBounds DEF IInv, WaveByWave, t
  <2>4. answer = None
    BY <1>1 DEF IInv, WaveByWave
  <2>. QED
    BY <1>1, <1>5, <2>2, <2>3, <2>4 DEF IInv, WaveByWave
<1>8. Unfailed' /\ EndsTruly'
  BY <1>1 DEF IInv, Unfailed, EndsTruly, Truly, Own
<1>9. FirstKnown'
  <2>1. CASE AllOk(results) /\ outcome[t] = "ok"
    <3>1. \A i \in 1..t : i = t \/ i \in 1..Len(results)
      BY <1>1 DEF t
    <3>. QED
      BY <1>5, <2>1, <3>1 DEF FirstKnown, AllOk
  <2>2. CASE AllOk(results) /\ outcome[t] # "ok"
    <3>1. t \in 1..t /\ \A j \in 1..(t - 1) : j \in 1..Len(results)
      BY <1>1 DEF t
    <3>. QED
      BY <1>5, <2>2, <3>1 DEF FirstKnown, AllOk, IsFirstBad
  <2>3. CASE ~AllOk(results)
    <3>1. PICK i \in 1..Len(results) : IsFirstBad(results, i)
      BY <2>3 DEF IInv, FirstKnown
    <3>2. i \in 1..t /\ \A j \in 1..(i - 1) : j \in 1..Len(results)
      BY <1>1 DEF t
    <3>. QED
      BY <1>5, <3>1, <3>2 DEF FirstKnown, IsFirstBad
  <2>. QED
    BY <2>1, <2>2, <2>3
<1>. QED
  BY <1>1, <1>2, <1>3, <1>5, <1>6, <1>7, <1>8, <1>9 DEF IInv, t

\* What Collect answers.
LEMMA CollectKeeps ==
  ASSUME IInv, Collect
  PROVE  IInv'
<1>1. answer' \in Outcomes
  <2>1. CASE AllOk(results)
    BY <2>1 DEF Collect, Outcomes
  <2>2. CASE ~AllOk(results)
    <3>1. results \in Seq(Outcomes)
      BY DEF IInv, TypeOK
    <3>2. PICK i \in 1..Len(results) : IsFirstBad(results, i)
      BY <2>2 DEF IInv, FirstKnown
    <3>3. results[FirstBad(results)] \in Outcomes
      BY <3>1, <3>2, FirstBadChosen, ElementOfSeq
    <3>. QED
      BY <2>2, <3>3 DEF Collect
  <2>. QED
    BY <2>1, <2>2
<1>2. UNCHANGED <<walk, cancelled, at, coded, outcome, spawned, results>>
  BY DEF Collect
<1>3. TypeOK'
  BY <1>1, <1>2 DEF IInv, TypeOK
<1>4. WaveByWave'
  BY <1>2 DEF Collect, IInv, WaveByWave, ShortCircuits
<1>. QED
  BY <1>2, <1>3, <1>4 DEF IInv, Unfailed, EndsTruly, Truly, Own, FirstKnown

\* The invariant holds of every reachable state of the walk.
THEOREM InductiveInvariant == Spec => []IInv
<1>1. Init => IInv
  <2>. SUFFICES ASSUME Init PROVE IInv
    OBVIOUS
  <2>1. /\ walk \in Walks /\ walk.num_tiles \in Nat /\ Limit(walk) \in Nat
        /\ walk.sbs \in Nat /\ walk.sbs > 0 /\ None \notin Outcomes
    BY LimitBounds DEF Init
  <2>2. results \in Seq(Outcomes) /\ Len(results) = 0
    BY EmptySeq DEF Init
  <2>3. TypeOK
    <3>1. at \in [Tiles(walk) -> {"waiting", "starting", "polling", "coding", "ended"}]
      BY DEF Init
    <3>2. coded \in [Tiles(walk) -> Nat] /\ outcome \in [Tiles(walk) -> Outcomes \cup {None}]
      BY DEF Init
    <3>3. spawned \in 0..walk.num_tiles /\ answer \in Outcomes \cup {None}
      BY <2>1 DEF Init
    <3>. QED
      BY <2>1, <2>2, <3>1, <3>2, <3>3 DEF Init, TypeOK
  <2>4. WaveByWave
    BY <2>1, <2>2 DEF Init, WaveByWave, Tiles
  <2>5. FirstKnown
    BY <2>2 DEF FirstKnown, AllOk
  <2>. QED
    BY <2>1, <2>3, <2>4, <2>5 DEF Init, IInv, Unfailed, EndsTruly
<1>2. IInv /\ [Next]_vars => IInv'
  <2>. SUFFICES ASSUME IInv, [Next]_vars PROVE IInv'
    OBVIOUS
  <2>1. CASE Cancel
    BY <2>1
       DEF Cancel, IInv, TypeOK, WaveByWave, ShortCircuits, Unfailed, EndsTruly, Truly, Own,
           FirstKnown
  <2>2. CASE CallerStep
    BY <2>2, SpawnKeeps, JoinKeeps, CollectKeeps DEF CallerStep
  <2>3. CASE \E t \in Tiles(walk) : TileStep(t)
    BY <2>3, TileStepKeeps
  <2>4. CASE UNCHANGED vars
    BY <2>4
       DEF vars, IInv, TypeOK, WaveByWave, ShortCircuits, Unfailed, EndsTruly, Truly, Own,
           FirstKnown
  <2>. QED
    BY <2>1, <2>2, <2>3, <2>4 DEF Next
<1>. QED
  BY <1>1, <1>2, PTL DEF Spec

-----------------------------------------------------------------------------
(* What follows.                                                            *)

\* The tiles in the works are the unjoined ones of a wave.
LEMMA RunningUnjoined ==
  ASSUME IInv
  PROVE  Running \subseteq (Len(results) + 1)..spawned
<1>1. walk.num_tiles \in Nat /\ spawned \in Nat /\ Len(results) \in Nat
  BY LimitBounds DEF IInv, TypeOK
<1>2. ASSUME NEW t \in Tiles(walk), at[t] \notin {"waiting", "ended"}
      PROVE  t \in (Len(results) + 1)..spawned
  <2>1. ~(t > spawned) /\ ~(t <= Len(results))
    BY <1>2 DEF IInv, WaveByWave
  <2>. QED
    BY <1>1, <2>1 DEF Tiles
<1>. QED
  BY <1>2 DEF Running

\* encode_tile_rows never has more threads at work than thread_count, or the
\* machine's parallelism, whatever the tiles do.
THEOREM ThreadsStayBounded == Spec => []BoundedThreads
<1>1. IInv => BoundedThreads
  <2>. SUFFICES ASSUME IInv PROVE BoundedThreads
    OBVIOUS
  <2>. DEFINE wave == (Len(results) + 1)..spawned
  <2>1. /\ spawned \in Nat /\ Len(results) \in Nat /\ Limit(walk) \in Nat
        /\ spawned <= Len(results) + Limit(walk)
        /\ walk.cores \in Nat /\ walk.thread_count \in Nat
        /\ Limit(walk) <= IF walk.thread_count = 0 THEN walk.cores ELSE walk.thread_count
    BY LimitBounds DEF IInv, TypeOK, WaveByWave
  <2>2. IsFiniteSet(wave) /\ Cardinality(wave) <= Limit(walk) /\ Cardinality(wave) \in Nat
    <3>1. Len(results) + 1 \in Int /\ spawned \in Int
      BY <2>1
    <3>2. IsFiniteSet(wave)
          /\ Cardinality(wave) = IF Len(results) + 1 > spawned THEN 0
                                 ELSE spawned - (Len(results) + 1) + 1
      BY <3>1, FS_Interval
    <3>. QED
      BY <2>1, <3>2
  <2>3. Cardinality(Running) <= Cardinality(wave) /\ Cardinality(Running) \in Nat
    BY <2>2, RunningUnjoined, FS_Subset, FS_CardinalityType
  <2>. QED
    BY <2>1, <2>2, <2>3 DEF BoundedThreads
<1>. QED
  BY <1>1, InductiveInvariant, PTL

\* No thread works on behind the call's return.
THEOREM ThreadsEndWithTheCall == Spec => []NoThreadOutlives
<1>1. IInv => NoThreadOutlives
  BY RunningUnjoined DEF NoThreadOutlives, IInv, TypeOK, WaveByWave
<1>. QED
  BY <1>1, InductiveInvariant, PTL

-----------------------------------------------------------------------------
(* The walk in tile order.                                                  *)

OwnOf == [t \in Tiles(walk) |-> IF walk.fails[t] = None THEN "ok" ELSE "error"]
StoppedBy == IF AllOk(results) THEN None ELSE results[FirstBad(results)]

\* What the abstract walk shows of a state.
LEMMA Shown ==
  ASSUME IInv
  PROVE  /\ Len(OwnOf) = walk.num_tiles /\ OwnOf \in Seq({"ok", "error"})
         /\ \A t \in Tiles(walk) : OwnOf[t] = Own(t)
         /\ Len(results) \in Nat /\ Len(results) <= walk.num_tiles /\ None \notin Outcomes
         /\ AllOk(results) => Leading = Len(results) /\ StoppedBy = None
         /\ ~AllOk(results) => StoppedBy \in Outcomes
<1>1. /\ walk.num_tiles \in Nat /\ results \in Seq(Outcomes) /\ spawned \in 0..walk.num_tiles
      /\ Len(results) <= spawned /\ None \notin Outcomes
  BY LimitBounds DEF IInv, TypeOK, WaveByWave
<1>2. Len(OwnOf) = walk.num_tiles /\ OwnOf \in Seq({"ok", "error"})
  <2>1. OwnOf \in [1..walk.num_tiles -> {"ok", "error"}]
    BY DEF OwnOf, Tiles
  <2>. QED
    BY <1>1, <2>1
<1>3. ASSUME ~AllOk(results)
      PROVE  StoppedBy \in Outcomes
  <2>1. PICK i \in 1..Len(results) : IsFirstBad(results, i)
    BY <1>3 DEF IInv, FirstKnown
  <2>. QED
    BY <1>1, <1>3, <2>1, FirstBadChosen, ElementOfSeq DEF StoppedBy
<1>. QED
  BY <1>1, <1>2, <1>3 DEF OwnOf, Own, Leading, StoppedBy

\* A thread joined moves the walk in tile order on, unless it has stopped before.
LEMMA JoinWalks ==
  ASSUME IInv, Join
  PROVE  Promise!Walk \/ UNCHANGED <<OwnOf, cancelled, Leading, StoppedBy, answer>>
<1>. DEFINE t == Len(results) + 1
<1>1. /\ results' = Append(results, outcome[t]) /\ t \in Tiles(walk) /\ Len(results') = t
      /\ Len(results) \in Nat /\ \A i \in 1..Len(results) : results'[i] = results[i]
      /\ results'[t] = outcome[t] /\ IInv'
      /\ (outcome[t] = Own(t) \/ (outcome[t] = "cancelled" /\ cancelled))
  BY JoinKeeps
<1>2. UNCHANGED <<walk, cancelled, answer>> /\ OwnOf' = OwnOf
  BY DEF Join, OwnOf
<1>3. results' \in Seq(Outcomes) /\ results \in Seq(Outcomes)
  BY <1>1 DEF IInv, TypeOK
<1>4. CASE AllOk(results)
  <2>1. /\ StoppedBy = None /\ Leading = Len(results) /\ Leading < Len(OwnOf)
        /\ OwnOf[Leading + 1] = Own(t) /\ Leading + 1 = t
    BY <1>1, <1>4, Shown DEF Tiles
  <2>2. CASE outcome[t] = "ok"
    <3>1. \A i \in 1..t : i = t \/ i \in 1..Len(results)
      BY <1>1
    <3>2. AllOk(results')
      BY <1>1, <1>4, <2>2, <3>1 DEF AllOk
    <3>3. Leading' = Leading + 1 /\ StoppedBy' = StoppedBy
      BY <1>1, <2>1, <3>2 DEF Leading, StoppedBy
    <3>4. Own(t) = "ok"
      BY <1>1, <2>2
    <3>. QED
      BY <1>2, <2>1, <3>3, <3>4 DEF Promise!Walk, OwnOf, StoppedBy
  <2>3. CASE outcome[t] # "ok"
    <3>1. t \in 1..t /\ \A j \in 1..(t - 1) : j \in 1..Len(results)
      BY <1>1
    <3>2. IsFirstBad(results', t)
      BY <1>1, <1>4, <2>3, <3>1 DEF AllOk, IsFirstBad
    <3>3. ~AllOk(results') /\ FirstBad(results') = t
      BY <1>1, <1>3, <3>1, <3>2, FirstBadUnique
    <3>4. Leading' = Leading /\ StoppedBy' = outcome[t]
      BY <1>1, <2>1, <3>3 DEF Leading, StoppedBy
    <3>5. \E how \in {OwnOf[Leading + 1]} \cup (IF cancelled THEN {"cancelled"} ELSE {}) :
            how # "ok" /\ StoppedBy' = how
      BY <1>1, <2>1, <2>3, <3>4
    <3>. QED
      BY <1>2, <2>1, <3>4, <3>5 DEF Promise!Walk, OwnOf, StoppedBy
  <2>. QED
    BY <2>2, <2>3
<1>5. CASE ~AllOk(results)
  <2>1. PICK i \in 1..Len(results) : IsFirstBad(results, i)
    BY <1>5 DEF IInv, FirstKnown
  <2>2. i \in 1..t /\ \A j \in 1..(i - 1) : j \in 1..Len(results)
    BY <1>1
  <2>3. IsFirstBad(results', i)
    BY <1>1, <2>1, <2>2 DEF IsFirstBad
  <2>4. FirstBad(results) = i /\ FirstBad(results') = i /\ ~AllOk(results')
    BY <1>1, <1>3, <2>1, <2>2, <2>3, FirstBadUnique
  <2>. QED
    BY <1>1, <1>2, <1>5, <2>4 DEF Leading, StoppedBy
<1>. QED
  BY <1>4, <1>5

\* collect() answers for the walk in tile order.
LEMMA CollectReturns ==
  ASSUME IInv, Collect
  PROVE  Promise!Return
<1>1. UNCHANGED <<OwnOf, cancelled, Leading, StoppedBy>> /\ answer = None
  <2>1. UNCHANGED <<walk, cancelled, results>> /\ answer = None
    BY DEF Collect
  <2>2. OwnOf' = OwnOf
    BY <2>1 DEF OwnOf
  <2>3. AllOk(results') = AllOk(results) /\ FirstBad(results') = FirstBad(results)
    BY <2>1
  <2>4. Leading' = Leading /\ StoppedBy' = StoppedBy
    BY <2>1, <2>3 DEF Leading, StoppedBy
  <2>. QED
    BY <2>1, <2>2, <2>4
<1>2. CASE AllOk(results)
  <2>1. ~ShortCircuits
    BY <1>2 DEF AllOk, ShortCircuits
  <2>2. Leading = Len(OwnOf) /\ StoppedBy = None /\ answer' = "ok"
    BY <1>2, <2>1, Shown DEF Collect
  <2>. QED
    BY <1>1, <2>2 DEF Promise!Return, OwnOf, StoppedBy
<1>3. CASE ~AllOk(results)
  <2>1. StoppedBy # None /\ answer' = StoppedBy
    BY <1>3, Shown DEF Collect, StoppedBy
  <2>. QED
    BY <1>1, <2>1 DEF Promise!Return, OwnOf, StoppedBy
<1>. QED
  BY <1>2, <1>3

\* Whatever the number of threads and their pace, encode_tile_rows takes only the
\* steps of a walk in tile order: its answer is that of the first tile that fails.
THEOREM ImplementsTheOrderedWalk == Spec => Promise!Spec
<1>1. Init => Promise!Init
  <2>. SUFFICES ASSUME Init PROVE Promise!Init
    OBVIOUS
  <2>1. AllOk(results) /\ Leading = 0 /\ StoppedBy = None
    BY EmptySeq DEF Init, AllOk, Leading, StoppedBy
  <2>2. OwnOf \in Seq({"ok", "error"})
    <3>1. walk.num_tiles \in Nat /\ OwnOf \in [1..walk.num_tiles -> {"ok", "error"}]
      BY LimitBounds DEF Init, OwnOf, Tiles
    <3>. QED
      BY <3>1
  <2>. QED
    BY <2>1, <2>2 DEF Init, Promise!Init, OwnOf, StoppedBy
<1>2. IInv /\ [Next]_vars => [Promise!Next]_(Promise!vars)
  <2>. SUFFICES ASSUME IInv, [Next]_vars PROVE [Promise!Next]_(Promise!vars)
    OBVIOUS
  <2>1. CASE Cancel
    <3>1. UNCHANGED <<OwnOf, Leading, StoppedBy, answer>> /\ ~cancelled /\ cancelled'
      BY <2>1 DEF Cancel, OwnOf, Leading, StoppedBy, AllOk, FirstBad
    <3>2. cancelled' = TRUE
      BY <2>1 DEF Cancel
    <3>. QED
      BY <3>1, <3>2 DEF Promise!Next, Promise!Cancel, OwnOf, StoppedBy
  <2>2. CASE Join
    BY <2>2, JoinWalks DEF Promise!Next, Promise!vars, OwnOf, StoppedBy
  <2>3. CASE Collect
    BY <2>3, CollectReturns DEF Promise!Next
  <2>4. CASE UNCHANGED <<walk, cancelled, results, answer>>
    BY <2>4 DEF Promise!vars, Leading, AllOk, FirstBad
  <2>5. SpawnWave => UNCHANGED <<walk, cancelled, results, answer>>
    BY DEF SpawnWave
  <2>6. ASSUME NEW t \in Tiles(walk), TileStep(t)
        PROVE  UNCHANGED <<walk, cancelled, results, answer>>
    BY <2>6 DEF TileStep, Start, Poll, CodeSb, StopInside
  <2>7. UNCHANGED vars => UNCHANGED <<walk, cancelled, results, answer>>
    BY DEF vars
  <2>. QED
    BY <2>1, <2>2, <2>3, <2>4, <2>5, <2>6, <2>7 DEF Next, CallerStep
<1>. QED
  BY <1>1, <1>2, InductiveInvariant, PTL DEF Spec, Promise!Spec

=============================================================================
