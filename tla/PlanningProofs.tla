--------------------------- MODULE PlanningProofs ---------------------------
(***************************************************************************)
(* For every number of acceptance criteria and every size of the pool: no  *)
(* call of a model outlives the planning, no failure in the pool costs a   *)
(* criterion its chunk, the pool has no more futures than threads, and no  *)
(* criterion costs more than four calls before the pool has failed and     *)
(* four after.  PlanningInv says which futures there may be in which       *)
(* stage; SpendInv adds what each criterion has cost by then.              *)
(***************************************************************************)
EXTENDS Planning, NaturalFacts

Before == Roles \union {"merger", "plan", "overview"}
Tasks == Finished \union {"waiting", "queued", "running", "kept", "dropped"}

\* The domains that the steps write to.
Shape ==
  /\ criteria \subseteq Nat \ {0}
  /\ call \in [Threads -> Calls \union {"none"}]
  /\ task \in [criteria -> Tasks]

\* A thread of the pool that waits for a model runs its criterion's future.
WaitsForItsFuture == \A k \in criteria : call[k] # "none" => task[k] = "running"

\* No future before the pool, none left after it, and none to be begun once a
\* failure is draining it.
FuturesFollowStage ==
  \A k \in criteria :
    /\ stage \in Before => task[k] = "waiting"
    /\ stage \in {"drain", "alone", "merge", "over"} => task[k] # "queued"
    /\ stage \in {"alone", "merge", "over"} => task[k] # "running"

\* What the main thread has taken up it holds.
KeptIsMade == \A k \in criteria : task[k] = "kept" => k \in made

MainHasEnded == stage = "over" => call[main] = "none"

\* The property, for every criterion that was ever given up.
NothingLacks == stage = "merge" \/ outcome = "by one" => Remaining = {}
\* The outcome is the last thing there is.
OutcomeAtEnd == outcome # "none" => stage = "over"

PlanningInv ==
  /\ Shape /\ WaitsForItsFuture /\ FuturesFollowStage /\ KeptIsMade
  /\ MainHasEnded /\ NothingLacks /\ OutcomeAtEnd

-----------------------------------------------------------------------------
(* Steps that several actions share.                                       *)

\* The main thread's call is not one of the pool's: whatever it asks, the
\* functions keep their domains and the threads of the pool their calls.
LEMMA MainCallsAlone ==
  ASSUME Shape, NEW c \in Calls \union {"none"}, call' = [call EXCEPT ![main] = c],
         UNCHANGED criteria
  PROVE  /\ call' \in [Threads' -> Calls \union {"none"}]
         /\ call'[main] = c
         /\ \A k \in criteria : call'[k] = call[k]
  BY DEF Shape, Threads, main

\* The initial states satisfy the invariant.
LEMMA InitInvariant == Init => PlanningInv
<1> SUFFICES ASSUME Init PROVE PlanningInv
  OBVIOUS
<1>1. criteria \subseteq Nat \ {0}
  BY PlanningAssumption DEF Init
<1>2. stage \in Before /\ stage # "merge" /\ stage # "over"
      /\ stage \notin {"drain", "alone", "merge", "over"}
  BY DEF Init, Before, Roles
<1>3. \A k \in criteria : call[k] = "none" /\ task[k] = "waiting"
  BY <1>1 DEF Init, Threads, main
<1>4. Shape
  BY <1>1 DEF Init, Shape, Calls, Tasks, Finished
<1> QED
  BY <1>1, <1>2, <1>3, <1>4
  DEF PlanningInv, WaitsForItsFuture, FuturesFollowStage, KeptIsMade, MainHasEnded,
      NothingLacks, OutcomeAtEnd, Init

\* A step of the main thread that leaves the futures alone: the stages it goes
\* between are both before the pool, or both after it.
LEMMA FuturesLeftAlone ==
  ASSUME PlanningInv, UNCHANGED <<criteria, task>>,
         NEW c \in Calls \union {"none"}, call' = [call EXCEPT ![main] = c],
         made \subseteq made',
         \/ stage \in Before /\ stage' \in Before \union {"over"}
         \/ stage = "overview" /\ stage' = "alone"
         \/ stage \in {"alone", "merge", "over"} /\ stage' \in {"alone", "merge", "over"}
  PROVE  Shape' /\ WaitsForItsFuture' /\ FuturesFollowStage' /\ KeptIsMade'
<1>1. /\ call' \in [Threads' -> Calls \union {"none"}]
      /\ \A k \in criteria : call'[k] = call[k]
  BY MainCallsAlone DEF PlanningInv
<1>2. Shape'
  BY <1>1 DEF PlanningInv, Shape
<1>3. WaitsForItsFuture'
  BY <1>1 DEF PlanningInv, WaitsForItsFuture
<1>4. FuturesFollowStage'
  BY DEF PlanningInv, FuturesFollowStage, Before, Roles
<1>5. KeptIsMade'
  BY DEF PlanningInv, KeptIsMade
<1> QED
  BY <1>2, <1>3, <1>4, <1>5

\* A request goes on: no future and no stage changes with it.
LEMMA AsksAgainKeeps ==
  ASSUME PlanningInv, NEW t \in Threads, AsksAgain(t)
  PROVE  PlanningInv'
<1>1. PICK c \in Calls : call[t] # "none" /\ call' = [call EXCEPT ![t] = c]
  BY DEF AsksAgain
<1>2. UNCHANGED <<criteria, stage, made, task, outcome>>
  BY DEF AsksAgain, held
<1>3. Shape'
  BY <1>1, <1>2 DEF PlanningInv, Shape, Threads
<1>4. \A u \in Threads : call'[u] # "none" => call[u] # "none"
  BY <1>1, <1>2 DEF PlanningInv, Shape
<1>5. WaitsForItsFuture'
  BY <1>2, <1>4 DEF PlanningInv, WaitsForItsFuture, Threads
<1>6. MainHasEnded'
  BY <1>2, <1>4 DEF PlanningInv, MainHasEnded, Threads
<1> QED
  BY <1>2, <1>3, <1>5, <1>6
  DEF PlanningInv, FuturesFollowStage, KeptIsMade, NothingLacks, OutcomeAtEnd, Remaining

\* The main thread before and after the pool.
LEMMA MainKeeps ==
  ASSUME PlanningInv,
         RoleEnds \/ MergerEnds \/ Raises \/ PlanEnds \/ ChunkEnds \/ Merges
         \/ (OverviewEnds /\ Parallelism = 1)
  PROVE  PlanningInv'
<1>1. \E c \in Calls \union {"none"} :
         call' = [call EXCEPT ![main] = c] /\ (stage' = "over" => c = "none")
  BY DEF RoleEnds, MergerEnds, Raises, PlanEnds, ChunkEnds, Merges, OverviewEnds,
         CommitteeFails, Asks, Goes, Over, Calls
<1>2. UNCHANGED <<criteria, task>> /\ made \subseteq made'
  BY DEF RoleEnds, MergerEnds, Raises, PlanEnds, ChunkEnds, Merges, OverviewEnds,
         held, Holds
<1>3. \/ stage \in Before /\ stage' \in Before \union {"over"}
      \/ stage = "overview" /\ stage' = "alone"
      \/ stage \in {"alone", "merge"} /\ stage' \in {"alone", "merge", "over"}
  <2>1. CASE RoleEnds
    BY <2>1 DEF RoleEnds, CommitteeFails, Asks, Goes, Over, Before, Roles
  <2>2. CASE MergerEnds
    BY <2>2 DEF MergerEnds, CommitteeFails, Asks, Goes, Over, Before
  <2>3. CASE Raises
    BY <2>3 DEF Raises, Goes, Over, Before
  <2>4. CASE PlanEnds
    BY <2>4 DEF PlanEnds, Asks, Before
  <2>5. CASE ChunkEnds
    BY <2>5 DEF ChunkEnds, Asks, Goes
  <2>6. CASE Merges
    BY <2>6 DEF Merges, Goes, Over
  <2>7. CASE OverviewEnds /\ Parallelism = 1
    BY <2>7 DEF OverviewEnds, Asks
  <2> QED
    BY <2>1, <2>2, <2>3, <2>4, <2>5, <2>6, <2>7
<1>4. Shape' /\ WaitsForItsFuture' /\ FuturesFollowStage' /\ KeptIsMade'
  <2>1. PICK c \in Calls \union {"none"} : call' = [call EXCEPT ![main] = c]
    BY <1>1
  <2> QED
    BY <1>2, <1>3, <2>1, FuturesLeftAlone
<1>5. MainHasEnded'
  BY <1>1, <1>2, MainCallsAlone DEF PlanningInv, MainHasEnded
<1>6. outcome = "none"
  BY <1>3 DEF PlanningInv, OutcomeAtEnd, Before, Roles
<1>7. OutcomeAtEnd'
  BY <1>6 DEF OutcomeAtEnd, RoleEnds, MergerEnds, Raises, PlanEnds, ChunkEnds, Merges,
              OverviewEnds, CommitteeFails, Asks, Goes, Over
<1>8. NothingLacks'
  <2>1. CASE RoleEnds
    BY <1>6, <2>1 DEF NothingLacks, RoleEnds, CommitteeFails, Asks, Goes, Over
  <2>2. CASE MergerEnds
    BY <1>6, <2>2 DEF NothingLacks, MergerEnds, CommitteeFails, Asks, Goes, Over
  <2>3. CASE Raises
    BY <2>3 DEF NothingLacks, Raises, Goes, Over
  <2>4. CASE PlanEnds
    BY <1>6, <2>4 DEF NothingLacks, PlanEnds, Asks
  <2>5. CASE ChunkEnds
    BY <1>6, <2>5 DEF NothingLacks, ChunkEnds, Asks, Goes, LeftToMake, Remaining, Holds
  <2>6. CASE Merges
    BY <2>6 DEF NothingLacks, Merges, Goes, Over, Remaining, held
  <2>7. CASE OverviewEnds /\ Parallelism = 1
    BY <1>6, <2>7 DEF NothingLacks, OverviewEnds, Asks
  <2> QED
    BY <2>1, <2>2, <2>3, <2>4, <2>5, <2>6, <2>7
<1> QED
  BY <1>4, <1>5, <1>7, <1>8 DEF PlanningInv

\* The pool is opened: the first criteria are submitted.
LEMMA PoolOpens ==
  ASSUME PlanningInv, OverviewEnds, Parallelism # 1
  PROVE  PlanningInv'
<1>1. /\ call' = [call EXCEPT ![main] = "none"]
      /\ stage = "overview" /\ stage' = "pool"
      /\ task' = [k \in criteria |-> IF k <= Parallelism THEN "queued" ELSE "waiting"]
      /\ UNCHANGED <<criteria, outcome>> /\ made' = made \union {}
  BY DEF OverviewEnds, Goes, Holds
<1>2. /\ call' \in [Threads' -> Calls \union {"none"}]
      /\ \A k \in criteria : call'[k] = call[k]
  BY <1>1, MainCallsAlone DEF PlanningInv
<1>3. \A k \in criteria : call[k] = "none"
  BY <1>1 DEF PlanningInv, WaitsForItsFuture, FuturesFollowStage, Before
<1>4. Shape'
  BY <1>1, <1>2 DEF PlanningInv, Shape, Tasks
<1> QED
  BY <1>1, <1>2, <1>3, <1>4
  DEF PlanningInv, WaitsForItsFuture, FuturesFollowStage, KeptIsMade, MainHasEnded,
      NothingLacks, OutcomeAtEnd, Before, Roles

\* A future is taken up.
LEMMA HarvestKeeps ==
  ASSUME PlanningInv, NEW k \in criteria, Harvests(k)
  PROVE  PlanningInv'
<1>1. /\ stage = "pool" /\ stage' \in {"pool", "merge"}
      /\ task[k] \in {"object", "value"} /\ made' = made \union {k}
      /\ UNCHANGED <<criteria, call, outcome>>
  BY DEF Harvests, Holds
<1>2. \A j \in criteria : \/ j = k /\ task'[j] = "kept"
                          \/ j # k /\ task[j] = "waiting" /\ task'[j] = "queued"
                          \/ j # k /\ task'[j] = task[j]
  BY DEF Harvests, NextSubmitted
<1>3. stage' = "merge" => \A j \in criteria : task'[j] = "kept"
  BY <1>1 DEF Harvests
<1>4. Shape'
  <2>1. task' = [j \in criteria |-> task'[j]]
    BY DEF Harvests
  <2>2. \A j \in criteria : task'[j] \in Tasks
    BY <1>2 DEF PlanningInv, Shape, Tasks
  <2> QED
    BY <1>1, <2>1, <2>2 DEF PlanningInv, Shape, Threads
<1>5. WaitsForItsFuture'
  BY <1>1, <1>2 DEF PlanningInv, WaitsForItsFuture
<1>6. FuturesFollowStage'
  BY <1>1, <1>2, <1>3 DEF PlanningInv, FuturesFollowStage, Before, Roles
<1>7. KeptIsMade'
  BY <1>1, <1>2 DEF PlanningInv, KeptIsMade
<1>8. NothingLacks'
  BY <1>1, <1>3, <1>7
  DEF PlanningInv, NothingLacks, OutcomeAtEnd, KeptIsMade, Remaining
<1> QED
  BY <1>1, <1>4, <1>5, <1>6, <1>7, <1>8 DEF PlanningInv, MainHasEnded, OutcomeAtEnd

\* A failure empties the pool of all but what a thread has taken.
LEMMA FailureKeeps ==
  ASSUME PlanningInv, NEW k \in criteria, HarvestsFailure(k)
  PROVE  PlanningInv'
<1>1. /\ stage = "pool" /\ stage' = "drain"
      /\ UNCHANGED <<criteria, call, made, outcome>>
  BY DEF HarvestsFailure, held
<1>2. task' = [j \in criteria |->
                 IF task[j] \in Finished \union {"queued"} THEN "dropped" ELSE task[j]]
  BY DEF HarvestsFailure
<1>3. Shape'
  BY <1>1, <1>2 DEF PlanningInv, Shape, Threads, Tasks
<1> QED
  BY <1>1, <1>2, <1>3
  DEF PlanningInv, WaitsForItsFuture, FuturesFollowStage, KeptIsMade, MainHasEnded,
      NothingLacks, OutcomeAtEnd, Finished, Before, Roles, Remaining

\* The pool has been shut down, and the main thread goes on alone.
LEMMA FallsBackKeeps ==
  ASSUME PlanningInv, FallsBack
  PROVE  PlanningInv'
<1>1. /\ stage = "drain" /\ stage' = "alone" /\ Drained
      /\ call' = [call EXCEPT ![main] = "first"]
      /\ UNCHANGED <<criteria, made, task, outcome>>
  BY DEF FallsBack, Asks, held
<1>2. /\ call' \in [Threads' -> Calls \union {"none"}]
      /\ \A k \in criteria : call'[k] = call[k]
  BY <1>1, MainCallsAlone DEF PlanningInv, Calls
<1>3. Shape'
  BY <1>1, <1>2 DEF PlanningInv, Shape
<1> QED
  BY <1>1, <1>2, <1>3
  DEF PlanningInv, WaitsForItsFuture, FuturesFollowStage, KeptIsMade, MainHasEnded,
      NothingLacks, OutcomeAtEnd, Drained, Before, Roles

\* A thread of the pool begins a future, or ends it.
LEMMA WorkerKeeps ==
  ASSUME PlanningInv, NEW k \in criteria, Takes(k) \/ WorkerEnds(k)
  PROVE  PlanningInv'
<1>1. UNCHANGED <<criteria, stage, made, outcome>>
  BY DEF Takes, WorkerEnds, held
<1>2. k \in Threads /\ k # main
  BY DEF PlanningInv, Shape, Threads, main
<1>3. PICK c \in Calls \union {"none"}, s \in Tasks :
        /\ call' = [call EXCEPT ![k] = c] /\ task' = [task EXCEPT ![k] = s]
        /\ \/ task[k] = "queued" /\ s = "running"
           \/ task[k] = "running" /\ s \in Finished /\ c = "none"
  BY DEF Takes, WorkerEnds, Calls, Tasks, Finished
<1>4. Shape'
  BY <1>1, <1>2, <1>3 DEF PlanningInv, Shape, Threads
<1>5. /\ call'[k] = c /\ task'[k] = s
      /\ \A j \in Threads \ {k} : call'[j] = call[j]
      /\ \A j \in criteria \ {k} : task'[j] = task[j]
  BY <1>2, <1>3 DEF PlanningInv, Shape
<1>6. WaitsForItsFuture'
  BY <1>1, <1>3, <1>5 DEF PlanningInv, WaitsForItsFuture, Threads
<1>7. FuturesFollowStage'
  BY <1>1, <1>3, <1>5 DEF PlanningInv, FuturesFollowStage, Finished
<1>8. KeptIsMade'
  BY <1>1, <1>3, <1>5 DEF PlanningInv, KeptIsMade, Finished
<1>9. MainHasEnded'
  BY <1>1, <1>2, <1>5 DEF PlanningInv, MainHasEnded, Threads
<1> QED
  BY <1>1, <1>4, <1>6, <1>7, <1>8, <1>9
  DEF PlanningInv, NothingLacks, OutcomeAtEnd, Remaining

-----------------------------------------------------------------------------
(* The theorems.                                                           *)

\* Every step keeps the invariant.
LEMMA StepInvariant == PlanningInv /\ [Next]_vars => PlanningInv'
<1> SUFFICES ASSUME PlanningInv, [Next]_vars PROVE PlanningInv'
  OBVIOUS
<1>1. CASE UNCHANGED vars
  BY <1>1 DEF vars, held, PlanningInv, Shape, Threads, WaitsForItsFuture,
              FuturesFollowStage, KeptIsMade, MainHasEnded, NothingLacks, OutcomeAtEnd,
              Remaining
<1>2. ASSUME NEW t \in Threads, AsksAgain(t) PROVE PlanningInv'
  BY <1>2, AsksAgainKeeps
<1>3. CASE Main
  <2>1. main \in Threads
    BY DEF Threads
  <2> QED
    BY <1>2, <1>3, <2>1, MainKeeps, PoolOpens, HarvestKeeps, FailureKeeps, FallsBackKeeps
    DEF Main
<1>4. ASSUME NEW k \in criteria, Worker(k) PROVE PlanningInv'
  BY <1>2, <1>4, WorkerKeeps DEF Worker, Threads
<1> QED
  BY <1>1, <1>3, <1>4 DEF Next

\* The futures follow the stage in every reachable state.
THEOREM InvariantHolds == Spec => []PlanningInv
<1>1. Init => PlanningInv
  BY InitInvariant
<1>2. PlanningInv /\ [Next]_vars => PlanningInv'
  BY StepInvariant
<1> QED
  BY <1>1, <1>2, PTL DEF Spec

\* No call of a model is left behind, by the pool or by the end of the planning.
THEOREM NobodyLeftHolds == Spec => []NobodyLeft
<1>1. PlanningInv => NobodyLeft
  BY DEF PlanningInv, WaitsForItsFuture, FuturesFollowStage, MainHasEnded, NobodyLeft,
         Threads
<1> QED
  BY <1>1, InvariantHolds, PTL

\* No criterion is merged without its chunk, however many there are and whichever
\* of them the pool has lost.
THEOREM ChunksHold == Spec => []EveryCriterionHasItsChunk
<1>1. PlanningInv => EveryCriterionHasItsChunk
  BY DEF PlanningInv, NothingLacks, EveryCriterionHasItsChunk
<1> QED
  BY <1>1, InvariantHolds, PTL

-----------------------------------------------------------------------------
(* The size of the pool and the cost of a criterion.                       *)

Stages == Before \union {"pool", "drain", "alone", "merge", "over"}
Later == {"alone", "merge", "over"}

\* The rest of the type invariant, and the count of the calls.
Domains ==
  /\ \E n \in Nat \ {0} : criteria = 1..n
  /\ raising \in BOOLEAN /\ sound \in BOOLEAN
  /\ stage \in Stages /\ made \subseteq criteria
  /\ outcome \in {"none", "by committee", "by one", "raised"}
  /\ spent \in [criteria -> Nat]

Pending == {k \in criteria : task[k] \in Finished \union {"queued", "running"}}
WithinPool == Cardinality(Pending) <= Parallelism

\* The first call of a request, or one of the others: each comes once at most.
Rank(c) == CASE c = "first" -> 1 [] c = "barred" -> 2 [] c = "empty" -> 3 [] OTHER -> 4

GivenUp == \E j \in criteria : task[j] = "dropped"
Lost == IF GivenUp THEN 4 ELSE 0

\* What a criterion has cost until the pool is closed.
SpentInPool ==
  \A k \in criteria :
    /\ task[k] = "running" => call[k] # "none" /\ spent[k] <= Rank(call[k])
    /\ stage \notin Later => spent[k] <= 4
    /\ stage \notin Later /\ task[k] \in {"waiting", "queued"} => spent[k] = 0

\* What one that is missing has cost while the main thread makes them.
SpentAlone ==
  stage = "alone" =>
    /\ call[main] # "none" /\ Remaining # {}
    /\ \A k \in Remaining :
         spent[k] <= Lost + IF k = Min(Remaining) THEN Rank(call[main]) ELSE 0

SpentAtMost == \A k \in criteria : spent[k] <= Lost + 4

DrainsAfterFailure == stage = "drain" => GivenUp

\* Until the pool is closed the main thread holds what it has taken up only.
MadeIsKept == stage \notin Later => \A k \in made : task[k] = "kept"

SpendInv ==
  /\ PlanningInv /\ Domains /\ WithinPool /\ MadeIsKept
  /\ SpentInPool /\ SpentAlone /\ SpentAtMost /\ DrainsAfterFailure

\* The criteria are numbered from one, and there are threads for some of them.
LEMMA CriteriaFacts ==
  ASSUME Domains
  PROVE  /\ criteria \subseteq Nat \ {0} /\ criteria # {} /\ main \notin criteria
         /\ IsFiniteSet(criteria)
         /\ Parallelism \in Nat \ {0} /\ Parallelism <= Cardinality(criteria)
         /\ Cardinality(criteria) \in Nat
         /\ criteria = 1..Cardinality(criteria)
<1>1. PICK n \in Nat \ {0} : criteria = 1..n
  BY DEF Domains
<1>2. IsFiniteSet(criteria) /\ Cardinality(criteria) = n
  <2>1. Cardinality(1..n) = IF 1 > n THEN 0 ELSE n - 1 + 1
    BY FS_Interval
  <2>2. IsFiniteSet(1..n)
    BY FS_Interval
  <2> QED
    BY <1>1, <2>1, <2>2
<1>3. PICK m \in {n, MaxParallel} : \A j \in {n, MaxParallel} : m <= j
  BY PlanningAssumption
<1>4. /\ Min({n, MaxParallel}) \in {n, MaxParallel}
      /\ \A j \in {n, MaxParallel} : Min({n, MaxParallel}) <= j
  BY <1>3 DEF Min
<1>5. Parallelism \in {n, MaxParallel} /\ Parallelism <= n
  BY <1>2, <1>4 DEF Parallelism
<1> QED
  BY <1>1, <1>2, <1>5, PlanningAssumption DEF main

\* The least of the criteria that are missing is one of them.
LEMMA LeastIsMissing ==
  ASSUME NEW S, S \subseteq Nat, S # {}
  PROVE  Min(S) \in S
BY LeastExists DEF Min

\* A request that is made again is made in a way it was not before.
LEMMA RanksRise ==
  ASSUME NEW c \in Calls, NEW answer \in Answers, After(c, answer) \in Calls
  PROVE  Rank(After(c, answer)) >= Rank(c) + 1
<1>1. /\ c \in {"first", "barred", "empty", "again"}
      /\ After(c, answer) \in {"again", "empty", "barred"}
      /\ After(c, answer) = "again" => c # "again"
      /\ After(c, answer) = "empty" => c \in {"first", "barred"}
      /\ After(c, answer) = "barred" => c = "first"
  BY DEF Calls, Answers, After
<1> QED
  BY <1>1 DEF Rank

\* The calls of a request have ranks one to four.
LEMMA RankBounds ==
  ASSUME NEW c
  PROVE  Rank(c) \in 1..4
BY DEF Rank

\* The types, in every step.
LEMMA DomainsStep ==
  ASSUME SpendInv, Next
  PROVE  Domains'
<1>0. Domains
  BY DEF SpendInv
<1>1. UNCHANGED criteria
  BY DEF Next, Main, Worker, AsksAgain, RoleEnds, MergerEnds, Raises, PlanEnds, OverviewEnds,
     FallsBack, ChunkEnds, Merges, Harvests, HarvestsFailure, Takes, WorkerEnds
<1>2. raising' \in BOOLEAN /\ sound' \in BOOLEAN
  BY <1>0 DEF Domains, held, Holds, CommitteeFails, Next, Main, Worker, AsksAgain, RoleEnds, MergerEnds,
     Raises, PlanEnds, OverviewEnds, FallsBack, ChunkEnds, Merges, Harvests, HarvestsFailure,
     Takes, WorkerEnds
<1>3. stage' \in Stages
  BY <1>0 DEF Domains, Stages, Before, Roles, Asks, Goes, Over, CommitteeFails, Next, Main, Worker,
     AsksAgain, RoleEnds, MergerEnds,
     Raises, PlanEnds, OverviewEnds, FallsBack, ChunkEnds, Merges, Harvests, HarvestsFailure,
     Takes, WorkerEnds
<1>4. made' \subseteq criteria
  <2>1. CASE ChunkEnds
    <3>1. Remaining # {} /\ Remaining \subseteq criteria
      BY <2>1 DEF ChunkEnds, SpendInv, SpentAlone, Remaining
    <3>2. Min(Remaining) \in criteria
      BY <1>0, <3>1, CriteriaFacts, LeastIsMissing
    <3> QED
      BY <1>0, <2>1, <3>2 DEF ChunkEnds, Holds, Domains
  <2>2. made' = made \/ (\E k \in criteria : made' = made \union {k}) \/ ChunkEnds
    BY DEF held, Holds, CommitteeFails, Next, Main, Worker, AsksAgain, RoleEnds, MergerEnds,
       Raises, PlanEnds, OverviewEnds, FallsBack, Merges, Harvests, HarvestsFailure,
       Takes, WorkerEnds
  <2> QED
    BY <1>0, <2>1, <2>2 DEF Domains
<1>5. outcome' \in {"none", "by committee", "by one", "raised"}
  BY <1>0 DEF Domains, Over, CommitteeFails, Next, Main, Worker,
     AsksAgain, RoleEnds, MergerEnds,
     Raises, PlanEnds, OverviewEnds, FallsBack, ChunkEnds, Merges, Harvests, HarvestsFailure,
     Takes, WorkerEnds
<1>6. spent' \in [criteria -> Nat]
  <2>1. UNCHANGED spent \/ \E ks : Spend(ks)
    BY DEF Next, Main, Worker, AsksAgain, RoleEnds, MergerEnds, Raises, PlanEnds,
       OverviewEnds, FallsBack, ChunkEnds, Merges, Harvests, HarvestsFailure, Takes, WorkerEnds
  <2>2. ASSUME NEW ks, Spend(ks) PROVE spent' \in [criteria -> Nat]
    <3>1. \A k \in criteria : spent[k] \in Nat
      BY <1>0 DEF Domains
    <3>2. spent' = [k \in criteria |-> spent[k] + IF k \in ks THEN 1 ELSE 0]
      BY <2>2 DEF Spend
    <3> QED
      BY <3>1, <3>2
  <2> QED
    BY <1>0, <2>1, <2>2 DEF Domains
<1>7. \E n \in Nat \ {0} : criteria' = 1..n
  BY <1>0, <1>1 DEF Domains
<1> QED
  BY <1>1, <1>2, <1>3, <1>4, <1>5, <1>6, <1>7 DEF Domains

\* The pool takes in as many as have left it.
LEMMA PoolStep ==
  ASSUME SpendInv, Next, Domains'
  PROVE  WithinPool'
<1>1. UNCHANGED criteria
  BY DEF Next, Main, Worker, AsksAgain, RoleEnds, MergerEnds, Raises, PlanEnds, OverviewEnds,
     FallsBack, ChunkEnds, Merges, Harvests, HarvestsFailure, Takes, WorkerEnds
<1>2. /\ IsFiniteSet(criteria) /\ Parallelism \in Nat \ {0} /\ Parallelism' = Parallelism
      /\ Parallelism <= Cardinality(criteria) /\ Cardinality(criteria) \in Nat
      /\ criteria = 1..Cardinality(criteria)
  BY <1>1, CriteriaFacts DEF SpendInv, Parallelism
<1>3. IsFiniteSet(Pending) /\ Cardinality(Pending) \in Nat /\ Cardinality(Pending) <= Parallelism
  BY <1>2, FS_Subset, FS_CardinalityType DEF Pending, SpendInv, WithinPool
<1>4. ASSUME Pending' \subseteq Pending PROVE WithinPool'
  BY <1>2, <1>3, <1>4, FS_Subset, FS_CardinalityType DEF WithinPool
<1>5. CASE OverviewEnds /\ Parallelism # 1
  <2>1. task' = [k \in criteria |-> IF k <= Parallelism THEN "queued" ELSE "waiting"]
    BY <1>5 DEF OverviewEnds
  <2>2. Pending' = {k \in criteria : k <= Parallelism}
    BY <1>1, <2>1 DEF Pending, Finished
  <2>3. Pending' = 1..Parallelism
    BY <1>2, <2>2
  <2>4. Cardinality(Pending') = Parallelism
    <3>1. Cardinality(1..Parallelism) = IF 1 > Parallelism THEN 0 ELSE Parallelism - 1 + 1
      BY <1>2, FS_Interval
    <3> QED
      BY <1>2, <2>3, <3>1
  <2> QED
    BY <1>2, <2>4 DEF WithinPool
<1>6. ASSUME NEW k \in criteria, Harvests(k) PROVE WithinPool'
  <2>1. k \in Pending
    BY <1>6 DEF Harvests, Pending, Finished
  <2>2. Pending' \subseteq (Pending \ {k}) \union NextSubmitted
    BY <1>1, <1>6 DEF Harvests, Pending, Finished, SpendInv, PlanningInv, Shape
  <2>3. IsFiniteSet(Pending \ {k}) /\ Cardinality(Pending \ {k}) = Cardinality(Pending) - 1
    BY <1>3, <2>1, FS_RemoveElement
  <2>4. CASE NextSubmitted = {}
    BY <2>1, <2>2, <2>4, <1>4
  <2>5. CASE NextSubmitted # {}
    <3>1. PICK j \in NextSubmitted : TRUE
      BY <2>5
    <3>2. NextSubmitted = {j}
      BY <1>2, <3>1 DEF NextSubmitted
    <3>3. IsFiniteSet((Pending \ {k}) \union {j})
          /\ Cardinality((Pending \ {k}) \union {j}) <= Cardinality(Pending)
      BY <1>3, <2>3, FS_AddElement
    <3> QED
      BY <1>2, <1>3, <2>2, <3>2, <3>3, FS_Subset, FS_CardinalityType DEF WithinPool
  <2> QED
    BY <2>4, <2>5
<1>7. CASE UNCHANGED task
  BY <1>1, <1>4, <1>7 DEF Pending
<1>8. ASSUME NEW k \in criteria, HarvestsFailure(k) \/ Takes(k) \/ WorkerEnds(k)
      PROVE  WithinPool'
  <2>1. task \in [criteria -> Tasks]
    BY DEF SpendInv, PlanningInv, Shape
  <2>2. Pending' \subseteq Pending
    BY <1>1, <1>8, <2>1 DEF HarvestsFailure, Takes, WorkerEnds, Pending, Finished
  <2> QED
    BY <1>4, <2>2
<1>9. \/ OverviewEnds /\ Parallelism # 1
      \/ UNCHANGED task
      \/ \E k \in criteria : Harvests(k) \/ HarvestsFailure(k) \/ Takes(k) \/ WorkerEnds(k)
  BY DEF Next, Main, Worker, AsksAgain, RoleEnds, MergerEnds, Raises, PlanEnds, OverviewEnds,
     FallsBack, ChunkEnds, Merges
<1> QED
  BY <1>5, <1>6, <1>7, <1>8, <1>9

\* What the main thread holds, and what it drains.
LEMMA KeptStep ==
  ASSUME SpendInv, Next
  PROVE  MadeIsKept' /\ DrainsAfterFailure'
<1>1. task \in [criteria -> Tasks] /\ made \subseteq criteria /\ MadeIsKept /\ DrainsAfterFailure
  BY DEF SpendInv, PlanningInv, Shape, Domains
<1>2. CASE /\ UNCHANGED <<task, made, criteria>>
           /\ stage' \in Later \/ (stage' # "drain" /\ stage \notin Later) \/ stage' = stage
  BY <1>1, <1>2 DEF MadeIsKept, DrainsAfterFailure, GivenUp, Later
<1>3. CASE stage' \in Later
  BY <1>3 DEF MadeIsKept, DrainsAfterFailure, Later
<1>4. CASE PlanEnds \/ OverviewEnds
  <2>1. made = {}
    BY <1>1, <1>4 DEF PlanEnds, OverviewEnds, SpendInv, PlanningInv, FuturesFollowStage, Before,
       MadeIsKept, Later
  <2>2. made' = {} /\ (stage' = "overview" \/ stage' = "pool" \/ stage' \in Later)
    BY <1>4, <2>1 DEF PlanEnds, OverviewEnds, Holds, Asks, Goes, Later
  <2> QED
    BY <2>2 DEF MadeIsKept, DrainsAfterFailure, Later
<1>5. ASSUME NEW k \in criteria, Harvests(k) PROVE MadeIsKept' /\ DrainsAfterFailure'
  <2>1. /\ stage = "pool" /\ stage' \in {"pool", "merge"} /\ made' = made \union {k}
        /\ task' = [j \in criteria |-> IF j = k THEN "kept"
                                   ELSE IF j \in NextSubmitted THEN "queued"
                                   ELSE task[j]]
    BY <1>5 DEF Harvests, Holds
  <2>2. \A j \in made : task[j] = "kept"
    BY <1>1, <2>1 DEF MadeIsKept, Later
  <2>3. \A j \in made' : task'[j] = "kept"
    BY <1>1, <2>1, <2>2 DEF NextSubmitted
  <2> QED
    BY <2>1, <2>3 DEF MadeIsKept, DrainsAfterFailure, Later
<1>6. ASSUME NEW k \in criteria, HarvestsFailure(k) PROVE MadeIsKept' /\ DrainsAfterFailure'
  BY <1>1, <1>6 DEF HarvestsFailure, MadeIsKept, DrainsAfterFailure, GivenUp, Finished, held, Later
<1>7. ASSUME NEW k \in criteria, Takes(k) \/ WorkerEnds(k) PROVE MadeIsKept' /\ DrainsAfterFailure'
  <2>1. PICK r : task' = [task EXCEPT ![k] = r] /\ task[k] \in {"queued", "running"}
    BY <1>7 DEF Takes, WorkerEnds
  <2>2. UNCHANGED <<stage, made, criteria>>
    BY <1>7 DEF Takes, WorkerEnds, held
  <2> QED
    BY <1>1, <2>1, <2>2 DEF MadeIsKept, DrainsAfterFailure, GivenUp
<1>8. ASSUME NEW t, AsksAgain(t) PROVE MadeIsKept' /\ DrainsAfterFailure'
  BY <1>2, <1>8 DEF AsksAgain, held
<1>9. CASE RoleEnds \/ MergerEnds
  <2>1. stage \notin Later /\ stage' # "drain" /\ UNCHANGED <<task, made, criteria>>
    BY <1>9 DEF RoleEnds, MergerEnds, CommitteeFails, Asks, Goes, Over, Later, Roles, held
  <2> QED
    BY <1>2, <2>1
<1>10. CASE Raises \/ FallsBack \/ ChunkEnds \/ Merges
  BY <1>3, <1>10 DEF Raises, FallsBack, ChunkEnds, Merges, Asks, Goes, Over, Later
<1> QED
  BY <1>4, <1>5, <1>6, <1>7, <1>8, <1>9, <1>10 DEF Next, Main, Worker

Spending == SpentInPool /\ SpentAlone /\ SpentAtMost

\* What Spend adds, to the criteria it names.
LEMMA SpendFacts ==
  ASSUME Domains, NEW ks, Spend(ks)
  PROVE  \A k \in criteria : /\ spent'[k] = (IF k \in ks THEN spent[k] + 1 ELSE spent[k])
                              /\ spent'[k] \in Nat
<1>1. \A k \in criteria : spent[k] \in Nat
  BY DEF Domains
<1> QED
  BY <1>1 DEF Spend

\* Nothing has been given up that was not before, and nothing is taken back.
LEMMA LostFacts ==
  /\ Lost \in {0, 4}
  /\ task' = task /\ criteria' = criteria => Lost' = Lost
BY DEF Lost, GivenUp

\* A request of the main thread while it makes no chunk, which costs none.
LEMMA SpentBefore ==
  ASSUME SpendInv, stage \in Before, UNCHANGED <<criteria, task, spent>>,
         NEW c \in Calls \union {"none"}, call' = [call EXCEPT ![main] = c],
         stage' \in Before \union {"over"}
  PROVE  Spending'
<1>1. /\ \A k \in criteria : task[k] = "waiting" /\ spent[k] = 0
      /\ \A k \in criteria : task'[k] = "waiting" /\ spent'[k] = 0
  BY DEF SpendInv, PlanningInv, FuturesFollowStage, SpentInPool, Later, Before, Roles
<1>2. stage' # "alone"
  BY DEF Before, Roles
<1> QED
  BY <1>1, <1>2, LostFacts DEF Spending, SpentInPool, SpentAlone, SpentAtMost

\* The main thread calls the model again.
LEMMA SpentAgain ==
  ASSUME SpendInv, AsksAgain(main)
  PROVE  Spending'
<1>1. /\ Domains /\ Shape
      /\ UNCHANGED <<criteria, stage, made, task>> /\ Spend(Making(main)) /\ Lost' = Lost
  BY LostFacts DEF SpendInv, PlanningInv, AsksAgain, held
<1>2. PICK answer \in Answers :
        /\ call[main] \in Calls /\ After(call[main], answer) \in Calls
        /\ call' = [call EXCEPT ![main] = After(call[main], answer)]
  BY <1>1 DEF AsksAgain, Shape, Threads
<1>3. /\ call'[main] = After(call[main], answer)
      /\ \A k \in criteria : call'[k] = call[k]
      /\ call'[main] # "none"
  BY <1>1, <1>2, CriteriaFacts DEF Shape, Threads, Calls
<1>4. Rank(call'[main]) >= Rank(call[main]) + 1
  BY <1>2, <1>3, RanksRise
<1>5. CASE stage # "alone"
  <2>1. \A k \in criteria : spent'[k] = spent[k]
    BY <1>1, <1>5, SpendFacts DEF Making
  <2> QED
    BY <1>1, <1>3, <1>5, <2>1 DEF SpendInv, Spending, SpentInPool, SpentAlone, SpentAtMost
<1>6. CASE stage = "alone"
  <2> DEFINE least == Min(Remaining)
  <2>1. /\ Remaining # {} /\ Remaining \subseteq criteria /\ Remaining' = Remaining
        /\ \A k \in Remaining :
             spent[k] <= Lost + IF k = least THEN Rank(call[main]) ELSE 0
    BY <1>1, <1>6 DEF SpendInv, SpentAlone, Remaining
  <2>2. \A k \in criteria : spent'[k] = (IF k = least THEN spent[k] + 1 ELSE spent[k])
    BY <1>1, <1>6, SpendFacts DEF Making
  <2>3. least \in Remaining
    BY <1>1, <2>1, CriteriaFacts, LeastIsMissing
  <2>4. Rank(call[main]) \in 1..4 /\ Rank(call'[main]) \in 1..4 /\ Lost \in {0, 4}
    BY RankBounds, LostFacts
  <2>5. \A k \in criteria : spent[k] \in Nat
    BY <1>1 DEF Domains
  <2>6. \A k \in Remaining :
          spent'[k] <= Lost + IF k = least THEN Rank(call'[main]) ELSE 0
    <3> HIDE DEF least
    <3> QED
      BY <1>4, <2>1, <2>2, <2>4, <2>5
  <2>7. \A k \in criteria : spent'[k] <= Lost + 4
    <3>1. \A k \in criteria : spent[k] <= Lost + 4
      BY DEF SpendInv, SpentAtMost
    <3>2. \A k \in criteria : spent'[k] \in Nat
      BY <1>1, SpendFacts
    <3>3. spent'[least] <= Lost + Rank(call'[main])
      BY <2>3, <2>6
    <3> HIDE DEF least
    <3> QED
      BY <2>1, <2>2, <2>3, <2>4, <3>1, <3>2, <3>3
  <2>8. \A k \in criteria : task[k] # "running"
    BY <1>6 DEF SpendInv, PlanningInv, FuturesFollowStage
  <2> QED
    BY <1>1, <1>3, <1>6, <2>1, <2>6, <2>7, <2>8 DEF Spending, SpentInPool, SpentAlone, SpentAtMost, Later
<1> QED
  BY <1>5, <1>6

\* A thread of the pool calls the model again.
LEMMA SpentInFuture ==
  ASSUME SpendInv, NEW k \in criteria, AsksAgain(k)
  PROVE  Spending'
<1>1. /\ Domains /\ Shape /\ k # main
      /\ UNCHANGED <<criteria, stage, made, task>> /\ Spend({k}) /\ Lost' = Lost
  BY CriteriaFacts, LostFacts DEF SpendInv, PlanningInv, AsksAgain, held, Making
<1>2. PICK answer \in Answers :
        /\ call[k] \in Calls /\ After(call[k], answer) \in Calls
        /\ call' = [call EXCEPT ![k] = After(call[k], answer)]
  BY <1>1 DEF AsksAgain, Shape, Threads
<1>3. /\ call'[k] = After(call[k], answer)
      /\ \A j \in Threads \ {k} : call'[j] = call[j]
      /\ call'[k] # "none"
  BY <1>1, <1>2 DEF Shape, Threads, Calls
<1>4. Rank(call'[k]) >= Rank(call[k]) + 1 /\ Rank(call[k]) \in 1..4 /\ Rank(call'[k]) \in 1..4
  BY <1>2, <1>3, RanksRise, RankBounds
<1>5. task[k] = "running" /\ stage \notin Later
  BY <1>2 DEF SpendInv, PlanningInv, WaitsForItsFuture, FuturesFollowStage, Calls, Later
<1>6. \A j \in criteria : spent'[j] = (IF j = k THEN spent[j] + 1 ELSE spent[j])
  BY <1>1, SpendFacts
<1>7. \A j \in criteria : spent[j] \in Nat
  BY <1>1 DEF Domains
<1>8. spent'[k] <= Rank(call'[k]) /\ spent'[k] <= 4
  BY <1>4, <1>5, <1>6, <1>7 DEF SpendInv, SpentInPool
<1>9. SpentInPool'
  BY <1>1, <1>3, <1>5, <1>6, <1>8 DEF SpendInv, SpentInPool, Threads
<1>10. SpentAtMost'
  <2>1. /\ \A j \in criteria : spent'[j] \in Nat
        /\ \A j \in criteria : spent[j] <= Lost + 4
    BY <1>1, SpendFacts DEF SpendInv, SpentAtMost
  <2> QED
    BY <1>1, <1>6, <1>8, <2>1, LostFacts DEF SpentAtMost
<1> QED
  BY <1>1, <1>5, <1>9, <1>10 DEF Spending, SpentAlone, Later

\* A future is begun by a thread of the pool, or ends.
LEMMA SpentByWorker ==
  ASSUME SpendInv, NEW k \in criteria, Takes(k) \/ WorkerEnds(k)
  PROVE  Spending'
<1>1. /\ Domains /\ Shape /\ k # main
      /\ UNCHANGED <<criteria, stage, made>>
  BY CriteriaFacts DEF SpendInv, PlanningInv, Takes, WorkerEnds, held
<1>2. /\ \A j \in Threads \ {k} : call'[j] = call[j]
      /\ \A j \in criteria \ {k} : task'[j] = task[j] /\ spent'[j] = spent[j]
  BY <1>1, SpendFacts DEF Shape, Takes, WorkerEnds
<1>3. stage \notin Later /\ task[k] \in {"queued", "running"}
  BY DEF SpendInv, PlanningInv, FuturesFollowStage, Takes, WorkerEnds, Later
<1>4. \/ task'[k] = "running" /\ call'[k] = "first" /\ spent'[k] = 1
      \/ task'[k] \in Finished /\ spent'[k] = spent[k]
  <2>1. CASE Takes(k)
    <3>1. spent[k] = 0
      BY <1>3, <2>1 DEF SpendInv, SpentInPool, Takes
    <3>2. spent'[k] = spent[k] + 1
      BY <1>1, <2>1, SpendFacts DEF Takes
    <3> QED
      BY <1>1, <2>1, <3>1, <3>2 DEF Takes, Shape, Threads
  <2>2. CASE WorkerEnds(k)
    BY <1>1, <2>2 DEF WorkerEnds, Shape
  <2> QED
    BY <2>1, <2>2
<1>5. spent'[k] <= 4 /\ (task'[k] = "running" => call'[k] # "none" /\ spent'[k] <= Rank(call'[k]))
      /\ task'[k] \notin {"waiting", "queued"}
  BY <1>3, <1>4 DEF SpendInv, SpentInPool, Rank, Finished
<1>6. SpentInPool'
  BY <1>1, <1>2, <1>3, <1>5 DEF SpendInv, SpentInPool, Threads
<1>7. \A j \in criteria : task[j] = "dropped" <=> task'[j] = "dropped"
  BY <1>2, <1>3, <1>4 DEF Finished
<1>8. Lost' = Lost
  BY <1>1, <1>7 DEF Lost, GivenUp
<1>9. SpentAtMost'
  <2>1. spent[k] \in Nat /\ spent'[k] \in Nat
    <3>1. spent[k] \in Nat
      BY <1>1 DEF Domains
    <3> QED
      BY <1>4, <3>1
  <2>2. \A j \in criteria : spent[j] <= Lost + 4
    BY DEF SpendInv, SpentAtMost
  <2> QED
    BY <1>1, <1>2, <1>5, <1>8, <2>1, <2>2, LostFacts DEF SpentAtMost
<1> QED
  BY <1>1, <1>3, <1>6, <1>9 DEF Spending, SpentAlone, Later

\* The overview is there and no pool is needed.
LEMMA SpentFromStart ==
  ASSUME SpendInv, OverviewEnds, Parallelism = 1
  PROVE  Spending'
<1>1. /\ Domains /\ Shape /\ stage = "overview" /\ stage' = "alone" /\ task' = task
      /\ UNCHANGED criteria /\ made' = made
      /\ call' = [call EXCEPT ![main] = "first"] /\ Spend({Min(criteria)}) /\ Lost' = Lost
  BY LostFacts DEF SpendInv, PlanningInv, OverviewEnds, Asks, Holds
<1>2. call'[main] = "first"
  BY <1>1 DEF Shape, Threads
<1>3. \A k \in criteria : task[k] = "waiting" /\ spent[k] = 0
  BY <1>1 DEF SpendInv, PlanningInv, FuturesFollowStage, SpentInPool, Later, Before
<1>4. made = {} /\ Remaining' = criteria
  BY <1>1, <1>3 DEF SpendInv, MadeIsKept, Domains, Remaining, Later
<1>5. \A k \in criteria : spent'[k] = (IF k = Min(criteria) THEN 1 ELSE 0)
  BY <1>1, <1>3, SpendFacts
<1>6. SpentAlone'
  <2>1. \A k \in criteria : spent'[k] <= Lost + IF k = Min(criteria) THEN Rank(call'[main]) ELSE 0
    BY <1>2, <1>5, LostFacts DEF Rank
  <2> QED
    BY <1>1, <1>2, <1>4, <2>1, CriteriaFacts DEF SpentAlone
<1> QED
  BY <1>1, <1>3, <1>5, <1>6, LostFacts DEF Spending, SpentInPool, SpentAtMost, Later

\* The first futures are queued.
LEMMA SpentAtOpening ==
  ASSUME SpendInv, OverviewEnds, Parallelism # 1
  PROVE  Spending'
<1>1. /\ stage = "overview" /\ stage' = "pool" /\ UNCHANGED <<criteria, spent>>
      /\ task' = [k \in criteria |-> IF k <= Parallelism THEN "queued" ELSE "waiting"]
  BY DEF OverviewEnds, Goes
<1>2. \A k \in criteria : spent[k] = 0
  BY <1>1 DEF SpendInv, PlanningInv, FuturesFollowStage, SpentInPool, Later, Before
<1>3. \A k \in criteria : task'[k] # "running"
  BY <1>1
<1> QED
  BY <1>1, <1>2, <1>3, LostFacts DEF Spending, SpentInPool, SpentAlone, SpentAtMost, Lost

\* What is taken up, given up or left out costs nothing.
LEMMA SpentAtHarvest ==
  ASSUME SpendInv, NEW k \in criteria, Harvests(k) \/ HarvestsFailure(k)
  PROVE  Spending'
<1>1. /\ stage = "pool" /\ stage' \in {"pool", "merge", "drain"}
      /\ UNCHANGED <<criteria, call, spent>>
  BY DEF Harvests, HarvestsFailure
<1>2. \A j \in criteria :
        /\ task'[j] = "running" => task[j] = "running"
        /\ task'[j] \in {"waiting", "queued"} => task[j] \in {"waiting", "queued"}
  BY DEF Harvests, HarvestsFailure, NextSubmitted
<1>3. \A j \in criteria : spent[j] \in Nat /\ spent[j] <= 4
  BY <1>1 DEF SpendInv, Domains, SpentInPool, Later
<1>4. Lost' \in {0, 4}
  BY DEF Lost
<1>5. SpentInPool'
  BY <1>1, <1>2, <1>3 DEF SpendInv, SpentInPool, Later
<1>6. SpentAtMost'
  BY <1>1, <1>3, <1>4 DEF SpentAtMost
<1> QED
  BY <1>1, <1>5, <1>6 DEF Spending, SpentAlone

\* The main thread begins again what is missing: the pool has spent four calls.
LEMMA SpentAfterPool ==
  ASSUME SpendInv, FallsBack
  PROVE  Spending'
<1>1. /\ Domains /\ Shape /\ stage = "drain" /\ stage' = "alone" /\ Drained
      /\ UNCHANGED <<criteria, task, made>>
      /\ call' = [call EXCEPT ![main] = "first"] /\ Spend({Min(Remaining)}) /\ Lost' = Lost
  BY LostFacts DEF SpendInv, PlanningInv, FallsBack, Asks, held
<1>2. call'[main] = "first" /\ Remaining' = Remaining
  BY <1>1 DEF Shape, Threads, Remaining
<1>3. GivenUp /\ Lost = 4
  BY <1>1 DEF SpendInv, DrainsAfterFailure, Lost
<1>4. Remaining # {}
  BY <1>1, <1>3 DEF SpendInv, MadeIsKept, GivenUp, Remaining, Later
<1>5. \A k \in criteria : /\ spent[k] <= 4 /\ spent[k] \in Nat
                          /\ spent'[k] = (IF k = Min(Remaining) THEN spent[k] + 1 ELSE spent[k])
  <2>1. \A k \in criteria : spent[k] <= 4 /\ spent[k] \in Nat
    BY <1>1 DEF SpendInv, SpentInPool, Later, Domains
  <2> QED
    BY <1>1, <2>1, SpendFacts
<1>6. \A k \in criteria : spent'[k] <= Lost + IF k = Min(Remaining) THEN Rank(call'[main]) ELSE 0
  BY <1>2, <1>3, <1>5 DEF Rank
<1>7. \A k \in criteria : spent'[k] <= 8
  BY <1>5
<1>8. \A k \in criteria : task[k] # "running"
  BY <1>1 DEF Drained
<1> QED
  BY <1>1, <1>2, <1>3, <1>4, <1>6, <1>7, <1>8
  DEF Spending, SpentInPool, SpentAlone, SpentAtMost, Later, Remaining

\* A chunk is made, and the next one begun.
LEMMA SpentByChunk ==
  ASSUME SpendInv, ChunkEnds
  PROVE  Spending'
<1> DEFINE least == Min(Remaining)
           next == Min(LeftToMake(least))
<1>1. /\ Domains /\ Shape /\ stage = "alone" /\ UNCHANGED <<criteria, task>>
      /\ made' = made \union {least} /\ Lost' = Lost
      /\ \/ LeftToMake(least) = {} /\ stage' = "merge" /\ UNCHANGED spent
         \/ /\ LeftToMake(least) # {} /\ stage' = "alone" /\ Spend({next})
            /\ call' = [call EXCEPT ![main] = "first"]
  BY LostFacts DEF SpendInv, PlanningInv, ChunkEnds, Asks, Goes, Holds
<1>2. Remaining' = LeftToMake(least) /\ Remaining' \subseteq Remaining \ {least}
  BY <1>1 DEF LeftToMake, Remaining
<1>3. /\ \A k \in criteria : task[k] # "running"
      /\ \A k \in criteria : spent[k] \in Nat /\ spent[k] <= Lost + 4
      /\ \A k \in Remaining \ {least} : spent[k] <= Lost
      /\ Lost \in {0, 4}
  <2>1. \A k \in Remaining \ {least} : spent[k] <= Lost + 0
    BY <1>1 DEF SpendInv, SpentAlone
  <2>2. \A k \in criteria : spent[k] \in Nat
    BY <1>1 DEF Domains
  <2>3. /\ \A k \in criteria : task[k] # "running"
        /\ \A k \in criteria : spent[k] <= Lost + 4
    BY <1>1 DEF SpendInv, PlanningInv, FuturesFollowStage, SpentAtMost
  <2>4. Remaining \subseteq criteria
    BY DEF Remaining
  <2> HIDE DEF least, next
  <2> QED
    BY <2>1, <2>2, <2>3, <2>4, LostFacts
<1>4. SpentInPool'
  BY <1>1, <1>3 DEF SpentInPool, Later
<1>5. CASE stage' = "merge" /\ UNCHANGED spent
  BY <1>1, <1>3, <1>4, <1>5 DEF Spending, SpentAlone, SpentAtMost
<1>6. CASE /\ LeftToMake(least) # {} /\ stage' = "alone" /\ Spend({next})
           /\ call' = [call EXCEPT ![main] = "first"]
  <2>1. next \in Remaining'
    BY <1>1, <1>2, <1>6, CriteriaFacts, LeastIsMissing DEF Remaining
  <2>2. call'[main] = "first"
    BY <1>1, <1>6 DEF Shape, Threads
  <2>3. \A k \in criteria : spent'[k] = (IF k = next THEN spent[k] + 1 ELSE spent[k])
    BY <1>1, <1>6, SpendFacts
  <2>4. Remaining' \subseteq criteria
    BY <1>1 DEF Remaining
  <2>5. next = Min(Remaining')
    BY <1>2
  <2> HIDE DEF least, next
  <2>6. \A k \in Remaining' : spent'[k] <= Lost + IF k = next THEN Rank(call'[main]) ELSE 0
    BY <1>2, <1>3, <2>2, <2>3, <2>4 DEF Rank
  <2>7. \A k \in criteria : spent'[k] <= Lost + 4
    BY <1>2, <1>3, <2>1, <2>3
  <2> QED
    BY <1>1, <1>4, <1>6, <2>1, <2>2, <2>5, <2>6, <2>7 DEF Spending, SpentAlone, SpentAtMost
<1> QED
  BY <1>1, <1>5, <1>6

\* The planning is over.
LEMMA SpentAtEnd ==
  ASSUME SpendInv, Raises \/ Merges
  PROVE  Spending'
<1>1. stage' = "over" /\ UNCHANGED <<criteria, task, spent>> /\ Lost' = Lost
      /\ stage \in {"plan", "overview", "alone", "merge"}
  BY LostFacts DEF Raises, Merges, Over, Goes
<1>2. \A k \in criteria : task[k] # "running"
  BY <1>1 DEF SpendInv, PlanningInv, FuturesFollowStage, Before, Roles
<1> QED
  BY <1>1, <1>2 DEF SpendInv, Spending, SpentInPool, SpentAlone, SpentAtMost, Later

\* The count is inductive.
LEMMA SpendStep == SpendInv /\ [Next]_vars => SpendInv'
<1> SUFFICES ASSUME SpendInv, [Next]_vars PROVE SpendInv'
  OBVIOUS
<1>1. PlanningInv'
  BY StepInvariant DEF SpendInv
<1>2. CASE UNCHANGED vars
  BY <1>1, <1>2 DEF vars, held, SpendInv, Domains, WithinPool, Pending, Parallelism,
     MadeIsKept, SpentInPool, SpentAlone, SpentAtMost, DrainsAfterFailure, Lost, GivenUp,
     Remaining
<1>3. CASE Next
  <2>1. Domains' /\ WithinPool' /\ MadeIsKept' /\ DrainsAfterFailure'
    BY <1>3, DomainsStep, PoolStep, KeptStep
  <2>2. ASSUME RoleEnds \/ MergerEnds \/ PlanEnds PROVE Spending'
    <3>1. stage \in Before /\ stage' \in Before \union {"over"} /\ UNCHANGED <<criteria, task, spent>>
      BY <2>2 DEF RoleEnds, MergerEnds, PlanEnds, CommitteeFails, Asks, Goes, Over, Before, Roles
    <3>2. \E c \in Calls \union {"none"} : call' = [call EXCEPT ![main] = c]
      BY <2>2 DEF RoleEnds, MergerEnds, PlanEnds, CommitteeFails, Asks, Goes, Over, Calls
    <3> QED
      BY <3>1, <3>2, SpentBefore
  <2>3. Spending'
    BY <1>3, <2>2, SpentAgain, SpentInFuture, SpentByWorker, SpentFromStart, SpentAtOpening,
       SpentAtHarvest, SpentAfterPool, SpentByChunk, SpentAtEnd DEF Next, Main, Worker
  <2> QED
    BY <1>1, <2>1, <2>3 DEF SpendInv, Spending
<1> QED
  BY <1>2, <1>3

\* No call has been made at the start but the first.
LEMMA SpendInitially == Init => SpendInv
<1> SUFFICES ASSUME Init PROVE SpendInv
  OBVIOUS
<1>1. PlanningInv
  BY InitInvariant
<1>2. stage \in Before /\ stage # "alone" /\ stage # "drain" /\ stage \notin Later
  BY DEF Init, Before, Roles, Later
<1>3. Domains
  <2>1. PICK n \in Counts : criteria = 1..n
    BY DEF Init
  <2>2. n \in Nat \ {0}
    BY PlanningAssumption
  <2> QED
    BY <1>2, <2>1, <2>2 DEF Init, Domains, Stages
<1>4. \A k \in criteria : task[k] = "waiting" /\ spent[k] = 0
  BY DEF Init
<1>5. WithinPool
  <2>1. Pending = {}
    BY <1>4 DEF Pending, Finished
  <2> QED
    BY <1>3, <2>1, FS_EmptySet, CriteriaFacts DEF WithinPool
<1>6. MadeIsKept /\ SpentInPool /\ SpentAlone /\ SpentAtMost /\ DrainsAfterFailure
  BY <1>2, <1>4, LostFacts DEF Init, MadeIsKept, SpentInPool, SpentAlone, SpentAtMost,
     DrainsAfterFailure
<1> QED
  BY <1>1, <1>3, <1>5, <1>6 DEF SpendInv

\* What each criterion has cost at each stage, in every reachable state.
THEOREM SpendInvariantHolds == Spec => []SpendInv
  BY SpendInitially, SpendStep, PTL DEF Spec

\* The state is well formed, and the pool never has more futures than threads.
THEOREM TypeCorrect == Spec => []TypeOK
<1>1. SpendInv => TypeOK
  BY DEF SpendInv, PlanningInv, Shape, Domains, WithinPool, Pending, TypeOK, Stages, Before, Tasks
<1> QED
  BY <1>1, SpendInvariantHolds, PTL

\* However often the models answer nothing, prose or an attempt to write, a
\* criterion costs four calls, and four more when the pool has failed.
THEOREM CallsAreBoundedHolds == Spec => []CallsAreBounded
<1>1. SpendInv => CallsAreBounded
  <2> SUFFICES ASSUME SpendInv PROVE CallsAreBounded
    OBVIOUS
  <2>1. Lost = (IF \E j \in criteria : task[j] = "dropped" THEN 4 ELSE 0)
    BY DEF Lost, GivenUp
  <2>2. \A k \in criteria : spent[k] <= Lost + 4
    BY DEF SpendInv, SpentAtMost
  <2> QED
    BY <2>1, <2>2 DEF CallsAreBounded
<1> QED
  BY <1>1, SpendInvariantHolds, PTL

=============================================================================
