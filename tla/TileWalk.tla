------------------------------ MODULE TileWalk ------------------------------
(***************************************************************************)
(* encode_tile_rows (pipeline/tile_walk.rs): the tiles of a frame encoded  *)
(* by scoped threads in waves of at most `limit`, each wave joined in tile *)
(* order before the next is spawned; or, with a limit of one, by the       *)
(* calling thread itself, which ends at the first tile that fails.         *)
(* A tile runs superblock by superblock and polls the caller's stop token, *)
(* which may fire at any time.                                             *)
(*                                                                         *)
(* A walk w is a record: num_tiles, thread_count and cores                 *)
(* (available_parallelism), std (the crate's feature), sbs (superblocks of *)
(* a tile) and fails, per tile the superblock whose encode returns Err     *)
(* (0: the tile's allocations; None: none does).                           *)
(***************************************************************************)
EXTENDS Naturals, Sequences, FiniteSets

CONSTANTS
  Walks,  \* the walks
  None

VARIABLES
  walk,       \* the walk, never changed
  cancelled,  \* the caller's stop token has fired
  at,         \* where each tile is: "waiting", "starting", "polling", "coding" or "ended"
  coded,      \* superblocks each tile has coded
  outcome,    \* how each tile has ended: "ok", "error", "cancelled", or None
  spawned,    \* tiles 1..spawned have been started (`start`, behind a wave `end`)
  results,    \* the joined tiles' outcomes, in the order they were pushed
  answer      \* what the call returned: "ok", or an error's outcome, or None

vars == <<walk, cancelled, at, coded, outcome, spawned, results, answer>>

Tiles(w) == 1..w.num_tiles

ASSUME WalkAssumption ==
  \A w \in Walks :
    /\ w.num_tiles \in Nat \ {0} /\ w.thread_count \in Nat /\ w.cores \in Nat \ {0}
    /\ w.std \in BOOLEAN /\ w.sbs \in Nat \ {0}
    /\ w.fails \in [Tiles(w) -> 0..w.sbs \cup {None}]
    /\ None \notin Nat \cup {"ok", "error", "cancelled"}

Smaller(a, b) == IF a < b THEN a ELSE b

\* Mutant of Limit: 0 threads mean one per tile.
LimitUnbounded(w) ==
  IF w.num_tiles > 1 /\ w.std
    THEN Smaller(IF w.thread_count = 0 THEN w.num_tiles ELSE w.thread_count, w.num_tiles)
    ELSE 1

\* The threads of a wave; 1 is the sequential walk.
Limit(w) ==
  IF w.num_tiles > 1 /\ w.std
    THEN Smaller(IF w.thread_count = 0 THEN w.cores ELSE w.thread_count, w.num_tiles)
    ELSE 1

Init ==
  /\ walk \in Walks
  /\ cancelled = FALSE
  /\ at = [t \in Tiles(walk) |-> "waiting"]
  /\ coded = [t \in Tiles(walk) |-> 0]
  /\ outcome = [t \in Tiles(walk) |-> None]
  /\ spawned = 0
  /\ results = <<>>
  /\ answer = None

-----------------------------------------------------------------------------
(* The caller.                                                              *)

Cancel ==
  /\ ~cancelled
  /\ cancelled' = TRUE
  /\ UNCHANGED <<walk, at, coded, outcome, spawned, results, answer>>

-----------------------------------------------------------------------------
(* A tile: encode_one_tile_body, with superblocks as its steps.             *)

End(t, how) ==
  /\ at' = [at EXCEPT ![t] = "ended"]
  /\ outcome' = [outcome EXCEPT ![t] = how]
  /\ UNCHANGED coded

\* The tile's buffers are allocated.
Start(t) ==
  /\ at[t] = "starting"
  /\ IF walk.fails[t] = 0
       THEN End(t, "error")
       ELSE at' = [at EXCEPT ![t] = "polling"] /\ UNCHANGED <<coded, outcome>>
  /\ UNCHANGED <<walk, cancelled, spawned, results, answer>>

\* The poll in front of each superblock row and superblock.
Poll(t) ==
  /\ at[t] = "polling"
  /\ IF cancelled
       THEN End(t, "cancelled")
       ELSE at' = [at EXCEPT ![t] = "coding"] /\ UNCHANGED <<coded, outcome>>
  /\ UNCHANGED <<walk, cancelled, spawned, results, answer>>

\* One superblock is searched and coded, or its encode fails.
CodeSb(t) ==
  /\ at[t] = "coding"
  /\ IF walk.fails[t] = coded[t] + 1
       THEN End(t, "error")
       ELSE /\ coded' = [coded EXCEPT ![t] = @ + 1]
            /\ IF coded[t] + 1 = walk.sbs
                 THEN /\ at' = [at EXCEPT ![t] = "ended"]
                      /\ outcome' = [outcome EXCEPT ![t] = "ok"]
                 ELSE at' = [at EXCEPT ![t] = "polling"] /\ UNCHANGED outcome
  /\ UNCHANGED <<walk, cancelled, spawned, results, answer>>

\* The polls inside a superblock: encode_coding_unit's and the mode decision's.
StopInside(t) ==
  /\ at[t] = "coding"
  /\ cancelled
  /\ End(t, "cancelled")
  /\ UNCHANGED <<walk, cancelled, spawned, results, answer>>

TileStep(t) == Start(t) \/ Poll(t) \/ CodeSb(t) \/ StopInside(t)

-----------------------------------------------------------------------------
(* The calling thread.                                                      *)

\* The sequential collect() has met an Err.
ShortCircuits == Limit(walk) = 1 /\ \E i \in 1..Len(results) : results[i] # "ok"

\* A wave is spawned once the one before has been joined; the sequential walk takes
\* one tile at a time itself.
SpawnWave ==
  /\ Len(results) = spawned
  /\ spawned < walk.num_tiles
  /\ ~ShortCircuits
  /\ spawned' = Smaller(spawned + Limit(walk), walk.num_tiles)
  /\ at' = [t \in Tiles(walk) |-> IF t \in (spawned + 1)..spawned' THEN "starting" ELSE at[t]]
  /\ UNCHANGED <<walk, cancelled, coded, outcome, results, answer>>

\* Mutant of Join: the threads are joined as they end.
JoinFirstEnded ==
  /\ Len(results) < spawned
  /\ \E t \in Tiles(walk) :
       /\ at[t] = "ended"
       /\ at' = [at EXCEPT ![t] = "joined"]
       /\ results' = Append(results, outcome[t])
  /\ UNCHANGED <<walk, cancelled, coded, outcome, spawned, answer>>

\* The wave's next thread in tile order is joined.
Join ==
  /\ Len(results) < spawned
  /\ at[Len(results) + 1] = "ended"
  /\ results' = Append(results, outcome[Len(results) + 1])
  /\ UNCHANGED <<walk, cancelled, at, coded, outcome, spawned, answer>>

FirstBad(outcomes) ==
  CHOOSE i \in 1..Len(outcomes) :
    outcomes[i] # "ok" /\ \A j \in 1..(i - 1) : outcomes[j] = "ok"

AllOk(outcomes) == \A i \in 1..Len(outcomes) : outcomes[i] = "ok"

\* Mutant of Collect: the first Err ends the walk before its wave has been joined.
CollectEarly ==
  /\ answer = None
  /\ (spawned = walk.num_tiles /\ Len(results) = spawned) \/ ~AllOk(results)
  /\ answer' = IF AllOk(results) THEN "ok" ELSE results[FirstBad(results)]
  /\ UNCHANGED <<walk, cancelled, at, coded, outcome, spawned, results>>

\* collect(): the results in order, or the first Err among them.
Collect ==
  /\ answer = None
  /\ Len(results) = spawned
  /\ spawned = walk.num_tiles \/ ShortCircuits
  /\ answer' = IF AllOk(results) THEN "ok" ELSE results[FirstBad(results)]
  /\ UNCHANGED <<walk, cancelled, at, coded, outcome, spawned, results>>

CallerStep == SpawnWave \/ Join \/ Collect

Next == Cancel \/ CallerStep \/ \E t \in Tiles(walk) : TileStep(t)

Spec == Init /\ [][Next]_vars

\* The operating system runs every thread: the calling thread and the tiles'.
FairSpec ==
  /\ Spec
  /\ WF_vars(CallerStep)
  /\ WF_vars(\E t \in Tiles(walk) : TileStep(t))

-----------------------------------------------------------------------------
(* What must hold.                                                          *)

Running == {t \in Tiles(walk) : at[t] \notin {"waiting", "ended"}}

\* No more tiles are in the works than thread_count allows, or the machine's
\* parallelism if it is 0 ("the maximum number of OS threads the tile-parallel encode
\* may run at once", state.rs:481-483).
BoundedThreads ==
  Cardinality(Running) <= IF walk.thread_count = 0 THEN walk.cores ELSE walk.thread_count

\* Whatever the number of threads, their pace and the moment of a cancellation, the
\* call answers what a walk in tile order would have.
Leading ==
  IF AllOk(results) THEN Len(results) ELSE FirstBad(results) - 1

Promise ==
  INSTANCE OrderedWalk WITH
    own     <- [t \in Tiles(walk) |-> IF walk.fails[t] = None THEN "ok" ELSE "error"],
    leading <- Leading,
    stopped <- IF AllOk(results) THEN None ELSE results[FirstBad(results)]

ImplementsOrderedWalk == Promise!FairSpec

\* Once the call has returned no thread of it is running: what the threads borrow is
\* the caller's again.
NoThreadOutlives == answer # None => Running = {}
=============================================================================
