------------------------- MODULE OrchestratorProofs -------------------------
(***************************************************************************)
(* The run queue of app/orchestrator.py, for every set of issues, every    *)
(* binding of threads to them and every limit: proofs of the safety        *)
(* properties that MCOrchestrator checks on three issues, for the          *)
(* specification without drain().  The last part is about drain().         *)
(*                                                                         *)
(* SingleFlight alone is not inductive.  enqueue() tests _running_keys and *)
(* _queued_keys, so the invariant must say that these sets are exact; and  *)
(* the dispatcher launches some time after it has tested the limit, so the *)
(* invariant must keep the outcome of that test while it waits at the get. *)
(***************************************************************************)
EXTENDS Orchestrator, FiniteSetTheorems, SequenceTheorems, TLAPS

USE OrchestratorAssumption

\* Without drain() nothing is cancelled.
NoDrain ==
  /\ drain = "none"
  /\ dispatcher # "cancelled"
  /\ \A k \in Keys : tasks[k]["cancelled"] = 0

\* A key waits at most once, and the index of the waiting keys is exact.
QueueExact ==
  /\ \A i, j \in 1..Len(queue) : queue[i] = queue[j] => i = j
  /\ queuedKeys = Waiting
  /\ queuedThreads = UNION {ThreadSet(k) : k \in Waiting}

\* A key has at most one run, the index of the runs is exact, and no key
\* both waits and runs.
RunsExact ==
  /\ \A k \in Keys : TaskCount(k) <= 1
  /\ running = LiveKeys
  /\ runningKeys = LiveKeys
  /\ \A k \in Keys : k \in Waiting => k \notin running

\* The test of the limit still holds when the get returns.
LimitKept ==
  /\ Cardinality(running) <= MaxConcurrency
  /\ dispatcher = "getting" => Cardinality(running) < MaxConcurrency

\* A thread is mapped to its own key or to none, and to its own while that
\* key waits or runs.
ThreadsExact ==
  /\ \A t \in Threads : threadKey[t] # NoKey => ThreadOf[threadKey[t]] = t
  /\ \A k \in Keys : HasThread(k) /\ (k \in Waiting \/ k \in running)
                       => threadKey[ThreadOf[k]] = k

IInv ==
  /\ TypeOK
  /\ NoDrain
  /\ QueueExact
  /\ RunsExact
  /\ LimitKept

-----------------------------------------------------------------------------
(* Lemmas on the operators of the model *)

\* The empty queue has no waiting key; Append and Tail change Waiting by the
\* item they add or take.
LEMMA WaitingAppend ==
  ASSUME NEW q \in Seq(Keys), NEW k \in Keys
  PROVE  {Append(q, k)[i] : i \in 1..Len(Append(q, k))} = {q[i] : i \in 1..Len(q)} \union {k}
<1>1. /\ Append(q, k) \in Seq(Keys)
      /\ Len(Append(q, k)) = Len(q) + 1
      /\ \A i \in 1..Len(q) : Append(q, k)[i] = q[i]
      /\ Append(q, k)[Len(q) + 1] = k
      /\ Len(q) \in Nat
  OBVIOUS
<1>2. QED
  BY <1>1

\* Taking the head of a queue without duplicates removes exactly that key.
LEMMA WaitingTail ==
  ASSUME NEW q \in Seq(Keys), q # <<>>,
         \A i, j \in 1..Len(q) : q[i] = q[j] => i = j
  PROVE  /\ Head(q) \in Keys
         /\ Head(q) \in {q[i] : i \in 1..Len(q)}
         /\ {Tail(q)[i] : i \in 1..Len(Tail(q))} = {q[i] : i \in 1..Len(q)} \ {Head(q)}
         /\ \A i, j \in 1..Len(Tail(q)) : Tail(q)[i] = Tail(q)[j] => i = j
<1>1. /\ Len(q) \in Nat \ {0}
      /\ Tail(q) \in Seq(Keys)
      /\ Len(Tail(q)) = Len(q) - 1
      /\ \A i \in 1..Len(Tail(q)) : Tail(q)[i] = q[i + 1]
      /\ Head(q) = q[1]
      /\ \A i \in 1..Len(q) : q[i] \in Keys
  OBVIOUS
<1>2. \A i \in 2..Len(q) : i - 1 \in 1..Len(Tail(q)) /\ q[i] = Tail(q)[i - 1]
  BY <1>1
<1>3. {Tail(q)[i] : i \in 1..Len(Tail(q))} \subseteq {q[i] : i \in 1..Len(q)} \ {Head(q)}
  BY <1>1
<1>4. {q[i] : i \in 1..Len(q)} \ {Head(q)} \subseteq {Tail(q)[i] : i \in 1..Len(Tail(q))}
  BY <1>1, <1>2
<1>5. QED
  BY <1>1, <1>3, <1>4

\* A run that starts stays the one run it was.
LEMMA StartCounts ==
  ASSUME TypeOK, NEW k \in Keys, Start(k)
  PROVE  /\ tasks' \in [Keys -> [Phase -> Nat]]
         /\ \A l \in Keys : TaskCount(l)' = TaskCount(l)
         /\ \A l \in Keys : tasks'[l]["cancelled"] = tasks[l]["cancelled"]
<1>1. /\ \A l \in Keys : tasks[l] \in [Phase -> Nat]
      /\ tasks' = [tasks EXCEPT ![k] =
                     [tasks[k] EXCEPT !["created"] = @ - 1, !["executing"] = @ + 1]]
  BY DEF TypeOK, Start
<1>2. tasks[k]["created"] \in Nat /\ tasks[k]["executing"] \in Nat /\ tasks[k]["created"] > 0
  BY <1>1 DEF Start, Phase
<1>3. [tasks[k] EXCEPT !["created"] = @ - 1, !["executing"] = @ + 1] \in [Phase -> Nat]
  BY <1>1, <1>2 DEF Phase
<1>4. QED
  BY <1>1, <1>2, <1>3 DEF TypeOK, TaskCount, Phase

\* The finally clause takes the run it belongs to out of the count.
LEMMA FinallyCounts ==
  ASSUME TypeOK, NEW k \in Keys, tasks[k]["executing"] > 0, Finally(k, "executing")
  PROVE  /\ tasks' \in [Keys -> [Phase -> Nat]]
         /\ TaskCount(k)' = TaskCount(k) - 1
         /\ \A l \in Keys \ {k} : TaskCount(l)' = TaskCount(l)
         /\ \A l \in Keys : tasks'[l]["cancelled"] = tasks[l]["cancelled"]
<1>1. /\ \A l \in Keys : tasks[l] \in [Phase -> Nat]
      /\ tasks' = [tasks EXCEPT ![k] = [tasks[k] EXCEPT !["executing"] = @ - 1]]
  BY DEF TypeOK, Finally
<1>2. tasks[k]["executing"] \in Nat
  BY <1>1 DEF Phase
<1>3. [tasks[k] EXCEPT !["executing"] = @ - 1] \in [Phase -> Nat]
  BY <1>1, <1>2 DEF Phase
<1>4. QED
  BY <1>1, <1>2, <1>3 DEF TypeOK, TaskCount, Phase

\* A launch adds one run of the key.
LEMMA LaunchCounts ==
  ASSUME TypeOK, NEW k \in Keys, NEW q, Launch(k, q)
  PROVE  /\ tasks' \in [Keys -> [Phase -> Nat]]
         /\ TaskCount(k)' = TaskCount(k) + 1
         /\ \A l \in Keys \ {k} : TaskCount(l)' = TaskCount(l)
         /\ \A l \in Keys : tasks'[l]["cancelled"] = tasks[l]["cancelled"]
<1>1. /\ \A l \in Keys : tasks[l] \in [Phase -> Nat]
      /\ tasks' = [tasks EXCEPT ![k] = [tasks[k] EXCEPT !["created"] = @ + 1]]
  BY DEF TypeOK, Launch
<1>2. tasks[k]["created"] \in Nat
  BY <1>1 DEF Phase
<1>3. [tasks[k] EXCEPT !["created"] = @ + 1] \in [Phase -> Nat]
  BY <1>1, <1>2 DEF Phase
<1>4. QED
  BY <1>1, <1>2, <1>3 DEF TypeOK, TaskCount, Phase

\* Counts are natural numbers.
LEMMA CountNat ==
  ASSUME TypeOK
  PROVE  \A k \in Keys : TaskCount(k) \in Nat
  BY DEF TypeOK, TaskCount, Phase

-----------------------------------------------------------------------------
(* The inductive invariant *)

\* The entries of _running are finitely many.
LEMMA RunningFinite ==
  ASSUME TypeOK
  PROVE  IsFiniteSet(running) /\ Cardinality(running) \in Nat
  BY FS_Subset, FS_CardinalityType DEF TypeOK

\* Where the loop goes next, given the set it has just tested.
LEMMA LoopHeadLimit ==
  ASSUME NEW S \in SUBSET Keys, Cardinality(S) \in Nat
  PROVE  /\ LoopHead(S) \in {"sleeping", "getting"}
         /\ LoopHead(S) = "getting" => Cardinality(S) < MaxConcurrency
  BY DEF LoopHead

\* At first nothing waits and nothing runs.
LEMMA InitIInv == Init => IInv
<1> SUFFICES ASSUME Init PROVE IInv
  OBVIOUS
<1>1. queue = <<>> /\ queuedKeys = {} /\ queuedThreads = {}
  BY DEF Init
<1>2. running = {} /\ runningKeys = {}
  BY DEF Init
<1>3. tasks = [k \in Keys |-> [p \in Phase |-> 0]]
  BY DEF Init
<1>4. dispatcher = "off" /\ drain = "none"
  BY DEF Init
<1>5. queue \in Seq(Keys) /\ Waiting = {}
  BY <1>1, EmptySeq DEF Waiting
<1>6. TypeOK
  <2>1. threadKey \in [Threads -> Keys \union {NoKey}]
    BY DEF Init
  <2>2. /\ runtime \in [Keys -> RuntimeStatus]
        /\ status \in [Keys -> LocalStatus]
    BY DEF Init, RuntimeStatus, LocalStatus
  <2>3. tasks \in [Keys -> [Phase -> Nat]]
    BY <1>3
  <2>4. dispatcher \in DispatcherState /\ drain \in DrainState
    BY <1>4 DEF DispatcherState, DrainState
  <2>5. QED
    BY <1>1, <1>2, <1>5, <2>1, <2>2, <2>3, <2>4 DEF TypeOK
<1>7. \A k \in Keys : TaskCount(k) = 0 /\ tasks[k]["cancelled"] = 0
  BY <1>3 DEF TaskCount, Phase
<1>8. NoDrain
  BY <1>4, <1>7 DEF NoDrain
<1>9. QueueExact
  BY <1>1, <1>5 DEF QueueExact
<1>10. RunsExact
  BY <1>2, <1>5, <1>7 DEF RunsExact, LiveKeys, Live
<1>11. LimitKept
  BY <1>2, <1>4, FS_EmptySet DEF LimitKept
<1>12. QED
  BY <1>6, <1>8, <1>9, <1>10, <1>11 DEF IInv

\* enqueue() adds a key that neither waits nor runs.
LEMMA EnqueueIInv ==
  ASSUME IInv, NEW k \in Keys, Enqueue(k)
  PROVE  IInv'
<1> USE DEF IInv
<1>1. k \notin Waiting /\ k \notin running
  BY DEF Enqueue, Duplicate, QueueExact, RunsExact
<1>2. TypeOK'
  <2>1. queue' \in Seq(Keys) /\ queuedKeys' \subseteq Keys
    BY DEF Enqueue, TypeOK
  <2>2. queuedThreads' \subseteq Threads
    BY DEF Enqueue, TypeOK, ThreadSet
  <2>3. threadKey' \in [Threads -> Keys \union {NoKey}]
    BY DEF Enqueue, TypeOK
  <2>4. dispatcher' \in DispatcherState
    BY DEF Enqueue, TypeOK, EnsureStarted, DispatcherState
  <2>5. runtime' \in [Keys -> RuntimeStatus]
    BY DEF Enqueue, TypeOK, RuntimeStatus
  <2>6. UNCHANGED <<running, runningKeys, tasks, drain, status>>
    BY DEF Enqueue
  <2>7. QED
    BY <2>1, <2>2, <2>3, <2>4, <2>5, <2>6 DEF TypeOK
<1>3. NoDrain'
  BY DEF Enqueue, NoDrain, EnsureStarted
<1>4. Waiting' = Waiting \union {k}
  <2>1. queue' = Append(queue, k) /\ queue \in Seq(Keys)
    BY DEF Enqueue, TypeOK
  <2>2. QED
    BY <2>1, WaitingAppend DEF Waiting
<1>5. \A i, j \in 1..Len(queue') : queue'[i] = queue'[j] => i = j
  <2>1. /\ queue' = Append(queue, k) /\ queue \in Seq(Keys)
        /\ Len(queue') = Len(queue) + 1
        /\ \A i \in 1..Len(queue) : queue'[i] = queue[i]
        /\ queue'[Len(queue) + 1] = k
    BY DEF Enqueue, TypeOK
  <2>2. \A i \in 1..Len(queue) : queue[i] # k
    BY <1>1 DEF Waiting
  <2>3. QED
    BY <2>1, <2>2 DEF QueueExact
<1>6. QueueExact'
  BY <1>4, <1>5 DEF QueueExact, Enqueue
<1>7. LiveKeys' = LiveKeys /\ \A l \in Keys : TaskCount(l)' = TaskCount(l)
  BY DEF LiveKeys, Live, TaskCount, Enqueue
<1>8. RunsExact'
  BY <1>1, <1>4, <1>7 DEF RunsExact, Enqueue
<1>9. LimitKept'
  BY DEF LimitKept, Enqueue, EnsureStarted
<1>10. QED
  BY <1>2, <1>3, <1>6, <1>8, <1>9

\* A step of the dispatcher that launches nothing.
LEMMA IdleDispatcherIInv ==
  ASSUME IInv, Begin \/ Wake \/ ActiveCount
  PROVE  IInv'
<1> USE DEF IInv
<1>1. Cleaned = running
  BY DEF Cleaned, RunsExact, LiveKeys
<1>2. /\ running' = running
      /\ UNCHANGED <<queue, queuedKeys, queuedThreads, threadKey, runningKeys, tasks, drain, meta>>
      /\ dispatcher' = dispatcher \/ dispatcher' = LoopHead(running)
  BY <1>1 DEF Begin, Wake, ActiveCount, bookkeeping
<1>3. running \in SUBSET Keys /\ Cardinality(running) \in Nat
  BY RunningFinite DEF TypeOK
<1>4. LimitKept' /\ dispatcher' # "cancelled" /\ dispatcher' \in DispatcherState
  BY <1>2, <1>3, LoopHeadLimit DEF LimitKept, NoDrain, TypeOK, DispatcherState
<1>5. TypeOK' /\ NoDrain'
  BY <1>2, <1>4 DEF TypeOK, NoDrain, meta
<1>6. QueueExact' /\ Waiting' = Waiting
  BY <1>2 DEF QueueExact, Waiting
<1>7. RunsExact'
  BY <1>2, <1>6 DEF RunsExact, LiveKeys, Live, TaskCount
<1>8. QED
  BY <1>4, <1>5, <1>6, <1>7

\* The dispatcher launches the oldest item: its key leaves the queue and the
\* place the limit left for it is taken.
LEMMA DispatchIInv ==
  ASSUME IInv, Dispatch
  PROVE  IInv'
<1> USE DEF IInv
<1>1. /\ queue \in Seq(Keys) /\ queue # <<>>
      /\ \A i, j \in 1..Len(queue) : queue[i] = queue[j] => i = j
      /\ dispatcher = "getting"
  BY DEF Dispatch, TypeOK, QueueExact
<1>2. PICK k \in Keys : k = Head(queue) /\ Launch(k, Tail(queue))
  BY <1>1, WaitingTail DEF Dispatch
<1>3. /\ k \in Waiting
      /\ Waiting' = Waiting \ {k}
      /\ \A i, j \in 1..Len(queue') : queue'[i] = queue'[j] => i = j
      /\ queue' \in Seq(Keys)
  <2>1. queue' = Tail(queue) /\ Tail(queue) \in Seq(Keys)
    BY <1>1, <1>2 DEF Launch
  <2>2. /\ Head(queue) \in Waiting
        /\ {Tail(queue)[i] : i \in 1..Len(Tail(queue))} = Waiting \ {Head(queue)}
        /\ \A i, j \in 1..Len(Tail(queue)) : Tail(queue)[i] = Tail(queue)[j] => i = j
    BY <1>1, WaitingTail DEF Waiting
  <2>3. Waiting' = {Tail(queue)[i] : i \in 1..Len(Tail(queue))}
    BY <2>1 DEF Waiting
  <2>4. QED
    BY <1>2, <2>1, <2>2, <2>3
<1>4. k \notin running /\ TaskCount(k) = 0
  BY <1>3, CountNat DEF RunsExact, LiveKeys, Live
<1>5. Cleaned = running
  BY DEF Cleaned, RunsExact, LiveKeys
<1>6. /\ tasks' \in [Keys -> [Phase -> Nat]]
      /\ TaskCount(k)' = 1
      /\ \A l \in Keys \ {k} : TaskCount(l)' = TaskCount(l)
      /\ \A l \in Keys : tasks'[l]["cancelled"] = 0
  BY <1>2, <1>4, LaunchCounts DEF NoDrain
<1>7. /\ running' = running \union {k}
      /\ dispatcher' = LoopHead(running \union {k})
      /\ running \union {k} \in SUBSET Keys
  BY <1>2, <1>5 DEF Launch, TypeOK
<1>8. /\ LimitKept'
      /\ dispatcher' \in DispatcherState /\ dispatcher' # "cancelled"
  <2>1. /\ Cardinality(running \union {k}) = Cardinality(running) + 1
        /\ Cardinality(running) \in Nat
    BY <1>4, RunningFinite, FS_AddElement
  <2>2. QED
    BY <1>1, <1>7, <2>1, LoopHeadLimit DEF LimitKept, DispatcherState
<1>9. TypeOK'
  BY <1>2, <1>3, <1>6, <1>7, <1>8 DEF TypeOK, Launch, ThreadSet, RuntimeStatus
<1>10. NoDrain'
  BY <1>2, <1>6, <1>8 DEF NoDrain, Launch
<1>11. QueueExact'
  <2>1. queuedKeys' = Waiting'
    BY <1>2, <1>3 DEF QueueExact, Launch
  <2>2. queuedThreads' = queuedThreads \ ThreadSet(k)
    BY <1>2 DEF Launch
  <2>3. \A l \in Waiting : l \in Keys
    BY DEF Waiting, TypeOK
  <2>4. queuedThreads' = UNION {ThreadSet(l) : l \in Waiting'}
    BY <1>3, <2>2, <2>3 DEF QueueExact, ThreadSet
  <2>5. QED
    BY <1>3, <2>1, <2>4 DEF QueueExact
<1>12. RunsExact'
  <2>1. LiveKeys' = LiveKeys \union {k}
    BY <1>6 DEF LiveKeys, Live
  <2>2. runningKeys' = runningKeys \union {k}
    BY <1>2 DEF Launch
  <2>3. \A l \in Keys : TaskCount(l)' <= 1
    BY <1>6 DEF RunsExact
  <2>4. QED
    BY <1>3, <1>7, <2>1, <2>2, <2>3 DEF RunsExact
<1>13. QED
  BY <1>8, <1>9, <1>10, <1>11, <1>12

\* A run starts.
LEMMA StartIInv ==
  ASSUME IInv, NEW k \in Keys, Start(k)
  PROVE  IInv'
<1> USE DEF IInv
<1>1. UNCHANGED <<bookkeeping, dispatcher, drain, meta>>
  BY DEF Start
<1>2. /\ tasks' \in [Keys -> [Phase -> Nat]]
      /\ \A l \in Keys : TaskCount(l)' = TaskCount(l)
      /\ \A l \in Keys : tasks'[l]["cancelled"] = tasks[l]["cancelled"]
  BY StartCounts
<1>3. LiveKeys' = LiveKeys /\ Waiting' = Waiting
  BY <1>1, <1>2 DEF LiveKeys, Live, Waiting, bookkeeping
<1>4. TypeOK' /\ NoDrain'
  BY <1>1, <1>2 DEF TypeOK, NoDrain, bookkeeping, meta
<1>5. QueueExact' /\ LimitKept'
  BY <1>1, <1>3 DEF QueueExact, LimitKept, bookkeeping
<1>6. RunsExact'
  BY <1>1, <1>2, <1>3 DEF RunsExact, bookkeeping
<1>7. QED
  BY <1>4, <1>5, <1>6

\* A run ends, by return or by exception: both run the finally clause.
LEMMA EndIInv ==
  ASSUME IInv, NEW k \in Keys, Finish(k) \/ Fail(k)
  PROVE  IInv'
<1> USE DEF IInv
<1>1. /\ tasks[k]["executing"] > 0
      /\ Finally(k, "executing")
      /\ status' \in [Keys -> LocalStatus]
  BY DEF Finish, Fail, TypeOK, LocalStatus
<1>2. /\ tasks' \in [Keys -> [Phase -> Nat]]
      /\ TaskCount(k)' = TaskCount(k) - 1
      /\ \A l \in Keys \ {k} : TaskCount(l)' = TaskCount(l)
      /\ \A l \in Keys : tasks'[l]["cancelled"] = 0
  BY <1>1, FinallyCounts DEF NoDrain
<1>3. TaskCount(k)' = 0 /\ TaskCount(k) = 1
  <2>1. TaskCount(k)' \in Nat
    BY <1>2 DEF TaskCount, Phase
  <2>2. QED
    BY <1>2, <2>1, CountNat DEF RunsExact
<1>4. LiveKeys' = LiveKeys \ {k}
  BY <1>2, <1>3 DEF LiveKeys, Live
<1>5. Waiting' = Waiting
  BY <1>1 DEF Finally, Waiting
<1>6. TypeOK' /\ NoDrain'
  BY <1>1, <1>2 DEF TypeOK, NoDrain, Finally, RuntimeStatus
<1>7. QueueExact'
  BY <1>1, <1>5 DEF QueueExact, Finally
<1>8. RunsExact'
  <2>1. \A l \in Keys : TaskCount(l)' <= 1
    BY <1>2, <1>3 DEF RunsExact
  <2>2. running' = running \ {k} /\ runningKeys' = runningKeys \ {k}
    BY <1>1 DEF Finally
  <2>3. QED
    BY <1>4, <1>5, <2>1, <2>2 DEF RunsExact
<1>9. LimitKept'
  <2>1. k \in running /\ IsFiniteSet(running) /\ Cardinality(running) \in Nat
    BY <1>3, RunningFinite DEF RunsExact, LiveKeys, Live
  <2>2. Cardinality(running \ {k}) = Cardinality(running) - 1
    BY <2>1, FS_RemoveElement
  <2>3. running' = running \ {k} /\ dispatcher' = dispatcher
    BY <1>1 DEF Finally
  <2>4. QED
    BY <2>1, <2>2, <2>3 DEF LimitKept
<1>10. QED
  BY <1>6, <1>7, <1>8, <1>9

\* Every step keeps the invariant.
LEMMA NextIInv == IInv /\ [Next]_vars => IInv'
<1> SUFFICES ASSUME IInv, [Next]_vars PROVE IInv'
  OBVIOUS
<1>1. ASSUME NEW k \in Keys, Enqueue(k) PROVE IInv'
  BY <1>1, EnqueueIInv
<1>2. CASE DispatcherStep
  BY <1>2, IdleDispatcherIInv, DispatchIInv DEF DispatcherStep
<1>3. ASSUME NEW k \in Keys, RunStep(k) PROVE IInv'
  BY <1>3, StartIInv, EndIInv DEF RunStep
<1>4. CASE ActiveCount
  BY <1>4, IdleDispatcherIInv
<1>5. CASE UNCHANGED vars
  BY <1>5 DEF vars, bookkeeping, meta, IInv, TypeOK, NoDrain, QueueExact, RunsExact,
              LimitKept, Waiting, LiveKeys, Live, TaskCount
<1>6. QED
  BY <1>1, <1>2, <1>3, <1>4, <1>5 DEF Next

\* The indexes of the queue are exact, and the limit is kept, in every reachable state.
THEOREM Invariance == Spec => []IInv
  BY InitIInv, NextIInv, PTL DEF Spec

-----------------------------------------------------------------------------
(* What the invariant is for *)

\* The variables keep the types of the class's fields.
THEOREM TypeCorrect == Spec => []TypeOK
  BY Invariance, PTL DEF IInv

\* An issue key never has two requests or runs, whatever the number of
\* issues and the order of enqueue() calls, launches and ends.
THEOREM SingleFlightHolds == Spec => []SingleFlight
<1>1. IInv => SingleFlight
  <2> SUFFICES ASSUME IInv, NEW k \in Keys
               PROVE  Cardinality(Positions(k)) + TaskCount(k) <= 1
    BY DEF SingleFlight
  <2>1. TaskCount(k) \in Nat /\ TaskCount(k) <= 1
    BY CountNat DEF IInv, RunsExact
  <2>2. CASE k \notin Waiting
    <3>1. Positions(k) = {}
      BY <2>2 DEF Waiting, Positions
    <3>2. QED
      BY <2>1, <3>1, FS_EmptySet
  <2>3. CASE k \in Waiting
    <3>1. PICK i \in 1..Len(queue) : queue[i] = k
      BY <2>3 DEF Waiting
    <3>2. \A j \in 1..Len(queue) : queue[j] = k => j = i
      BY <3>1 DEF IInv, QueueExact
    <3>3. Positions(k) = {i}
      BY <3>1, <3>2 DEF Positions
    <3>4. TaskCount(k) = 0
      BY <2>1, <2>3 DEF IInv, RunsExact, LiveKeys, Live
    <3>5. Cardinality(Positions(k)) = 1
      BY <3>3, FS_Singleton
    <3>6. QED
      BY <3>4, <3>5
  <2>4. QED
    BY <2>2, <2>3
<1>2. QED
  BY <1>1, Invariance, PTL

\* The number of runs never exceeds max_concurrency, for every value of it.
THEOREM ConcurrencyBoundHolds == Spec => []ConcurrencyBound
<1>1. IInv => ConcurrencyBound
  BY DEF IInv, RunsExact, LimitKept, ConcurrencyBound
<1>2. QED
  BY <1>1, Invariance, PTL

\* What enqueue() looks up is what waits and runs.
THEOREM IndexAgreesHolds == Spec => []IndexAgrees
<1>1. IInv => IndexAgrees
  BY DEF IInv, QueueExact, RunsExact, IndexAgrees
<1>2. QED
  BY <1>1, Invariance, PTL

-----------------------------------------------------------------------------
(* Two properties with an invariant of their own on top of IInv *)

\* How a step changes the sets that the two properties speak of.
LEMMA StepShape ==
  ASSUME IInv, [Next]_vars
  PROVE  \/ \E k \in Keys : Enqueue(k) /\ Waiting' = Waiting \union {k} /\ LiveKeys' = LiveKeys
         \/ \E k \in Keys : /\ Dispatch /\ Launch(k, Tail(queue)) /\ k \in Waiting
                            /\ Waiting' = Waiting \ {k} /\ LiveKeys' = LiveKeys \union {k}
         \/ \E k \in Keys : /\ (Finish(k) \/ Fail(k)) /\ Finally(k, "executing") /\ k \in LiveKeys
                            /\ Waiting' = Waiting /\ LiveKeys' = LiveKeys \ {k}
         \/ UNCHANGED <<Waiting, LiveKeys, runtime, threadKey, running>>
<1>1. ASSUME NEW k \in Keys, Enqueue(k)
      PROVE  Waiting' = Waiting \union {k} /\ LiveKeys' = LiveKeys
  <2>1. queue' = Append(queue, k) /\ queue \in Seq(Keys) /\ tasks' = tasks
    BY <1>1 DEF Enqueue, IInv, TypeOK
  <2>2. Waiting' = Waiting \union {k}
    BY <2>1, WaitingAppend DEF Waiting
  <2>3. QED
    BY <2>1, <2>2 DEF LiveKeys, Live, TaskCount
<1>2. ASSUME Dispatch
      PROVE  \E k \in Keys : /\ Launch(k, Tail(queue)) /\ k \in Waiting
                             /\ Waiting' = Waiting \ {k} /\ LiveKeys' = LiveKeys \union {k}
  <2>1. /\ queue \in Seq(Keys) /\ queue # <<>>
        /\ \A i, j \in 1..Len(queue) : queue[i] = queue[j] => i = j
        /\ TypeOK
    BY <1>2 DEF Dispatch, IInv, TypeOK, QueueExact
  <2>2. PICK k \in Keys : k = Head(queue) /\ Launch(k, Tail(queue))
    BY <1>2, <2>1, WaitingTail DEF Dispatch
  <2>3. /\ Head(queue) \in Waiting
        /\ {Tail(queue)[i] : i \in 1..Len(Tail(queue))} = Waiting \ {Head(queue)}
    BY <2>1, WaitingTail DEF Waiting
  <2>4. Waiting' = {Tail(queue)[i] : i \in 1..Len(Tail(queue))}
    BY <2>2 DEF Waiting, Launch
  <2>5. /\ TaskCount(k)' = TaskCount(k) + 1
        /\ \A l \in Keys \ {k} : TaskCount(l)' = TaskCount(l)
        /\ TaskCount(k) \in Nat
    BY <2>1, <2>2, LaunchCounts, CountNat
  <2>6. LiveKeys' = LiveKeys \union {k}
    BY <2>5 DEF LiveKeys, Live
  <2>7. QED
    BY <2>2, <2>3, <2>4, <2>6
<1>3. ASSUME NEW k \in Keys, Finish(k) \/ Fail(k)
      PROVE  /\ Finally(k, "executing") /\ k \in LiveKeys
             /\ Waiting' = Waiting /\ LiveKeys' = LiveKeys \ {k}
  <2>1. Finally(k, "executing") /\ tasks[k]["executing"] > 0 /\ TypeOK
    BY <1>3 DEF Finish, Fail, IInv
  <2>2. /\ TaskCount(k)' = TaskCount(k) - 1
        /\ \A l \in Keys \ {k} : TaskCount(l)' = TaskCount(l)
        /\ tasks' \in [Keys -> [Phase -> Nat]]
    BY <2>1, FinallyCounts
  <2>3. TaskCount(k)' \in Nat /\ TaskCount(k) \in Nat /\ TaskCount(k) <= 1
    BY <2>1, <2>2, CountNat DEF TaskCount, Phase, IInv, RunsExact
  <2>4. LiveKeys' = LiveKeys \ {k} /\ k \in LiveKeys
    BY <2>2, <2>3 DEF LiveKeys, Live
  <2>5. QED
    BY <2>1, <2>4 DEF Finally, Waiting
<1>4. ASSUME NEW k \in Keys, Start(k)
      PROVE  UNCHANGED <<Waiting, LiveKeys, runtime, threadKey, running>>
  <2>1. \A l \in Keys : TaskCount(l)' = TaskCount(l)
    BY <1>4, StartCounts DEF IInv
  <2>2. QED
    BY <1>4, <2>1 DEF Start, bookkeeping, meta, Waiting, LiveKeys, Live
<1>5. ASSUME Begin \/ Wake \/ ActiveCount \/ UNCHANGED vars
      PROVE  UNCHANGED <<Waiting, LiveKeys, runtime, threadKey, running>>
  <2>1. Cleaned = running
    BY DEF Cleaned, IInv, RunsExact, LiveKeys
  <2>2. UNCHANGED <<queue, tasks, runtime, threadKey, running>>
    BY <1>5, <2>1 DEF Begin, Wake, ActiveCount, vars, bookkeeping, meta
  <2>3. QED
    BY <2>2 DEF Waiting, LiveKeys, Live, TaskCount
<1>6. QED
  BY <1>1, <1>2, <1>3, <1>4, <1>5 DEF Next, DispatcherStep, RunStep

\* The runtime_status in meta.json never contradicts the queue: a waiting key
\* reads "queued", a running one "running", any other neither.
THEOREM RuntimeTruthfulHolds == Spec => []RuntimeTruthful
<1>1. Init => RuntimeTruthful
  <2> SUFFICES ASSUME Init PROVE RuntimeTruthful
    OBVIOUS
  <2>1. runtime = [k \in Keys |-> ""] /\ IInv /\ running = {}
    BY InitIInv DEF Init
  <2>2. Waiting = {}
    <3>1. queue = <<>>
      BY DEF Init
    <3>2. QED
      BY <3>1 DEF Waiting
  <2>3. \A k \in Keys : ~Live(k)
    BY <2>1 DEF IInv, RunsExact, LiveKeys
  <2>4. QED
    BY <2>1, <2>2, <2>3 DEF RuntimeTruthful
<1>2. IInv /\ IInv' /\ RuntimeTruthful /\ [Next]_vars => RuntimeTruthful'
  <2> SUFFICES ASSUME IInv, IInv', RuntimeTruthful, [Next]_vars PROVE RuntimeTruthful'
    OBVIOUS
  <2>1. /\ \A l \in Keys : (Live(l) <=> l \in LiveKeys) /\ (Live(l)' <=> l \in LiveKeys')
        /\ \A l \in Keys : l \in Waiting => l \notin LiveKeys
        /\ \A l \in Keys : l \in Waiting' => l \notin LiveKeys'
        /\ runtime \in [Keys -> RuntimeStatus]
    BY DEF LiveKeys, IInv, RunsExact, TypeOK
  <2>2. RuntimeTruthful' <=>
          \A l \in Keys : /\ runtime'[l] = "queued" <=> l \in Waiting'
                          /\ runtime'[l] = "running" <=> l \in LiveKeys'
    BY <2>1 DEF RuntimeTruthful
  <2>3. \A l \in Keys : /\ runtime[l] = "queued" <=> l \in Waiting
                        /\ runtime[l] = "running" <=> l \in LiveKeys
    BY <2>1 DEF RuntimeTruthful
  <2>4. ASSUME NEW k \in Keys, Enqueue(k), Waiting' = Waiting \union {k}, LiveKeys' = LiveKeys
        PROVE  RuntimeTruthful'
    <3>1. runtime' = [runtime EXCEPT ![k] = "queued"]
      BY <2>4 DEF Enqueue
    <3>2. QED
      BY <2>1, <2>2, <2>3, <2>4, <3>1
  <2>5. ASSUME NEW k \in Keys, Launch(k, Tail(queue)), k \in Waiting,
               Waiting' = Waiting \ {k}, LiveKeys' = LiveKeys \union {k}
        PROVE  RuntimeTruthful'
    <3>1. runtime' = [runtime EXCEPT ![k] = "running"]
      BY <2>5 DEF Launch
    <3>2. QED
      BY <2>1, <2>2, <2>3, <2>5, <3>1
  <2>6. ASSUME NEW k \in Keys, Finally(k, "executing"), k \in LiveKeys,
               Waiting' = Waiting, LiveKeys' = LiveKeys \ {k}
        PROVE  RuntimeTruthful'
    <3>1. runtime' = [runtime EXCEPT ![k] = ""]
      BY <2>6 DEF Finally
    <3>2. QED
      BY <2>1, <2>2, <2>3, <2>6, <3>1
  <2>7. CASE UNCHANGED <<Waiting, LiveKeys, runtime, threadKey, running>>
    BY <2>2, <2>3, <2>7
  <2>8. QED
    BY <2>4, <2>5, <2>6, <2>7, StepShape
<1>3. QED
  BY <1>1, <1>2, Invariance, PTL DEF Spec

\* is_running(thread), which guards /plan, /approve-plan, /revise and the
\* handling of messages, answers for the one key that is bound to the thread.
THEOREM IsRunningTruthfulHolds == Spec => []IsRunningTruthful
<1>1. Init => ThreadsExact
  <2> SUFFICES ASSUME Init PROVE ThreadsExact
    OBVIOUS
  <2>1. threadKey = [t \in Threads |-> NoKey] /\ running = {}
    BY DEF Init
  <2>2. Waiting = {}
    <3>1. queue = <<>>
      BY DEF Init
    <3>2. QED
      BY <3>1 DEF Waiting
  <2>3. QED
    BY <2>1, <2>2 DEF ThreadsExact
<1>2. IInv /\ IInv' /\ ThreadsExact /\ [Next]_vars => ThreadsExact'
  <2> SUFFICES ASSUME IInv, IInv', ThreadsExact, [Next]_vars PROVE ThreadsExact'
    OBVIOUS
  <2>1. /\ running = LiveKeys /\ running' = LiveKeys'
        /\ threadKey \in [Threads -> Keys \union {NoKey}]
    BY DEF IInv, RunsExact, TypeOK
  <2>2. ASSUME NEW k \in Keys,
               threadKey' = [t \in Threads |-> IF t = ThreadOf[k] THEN k ELSE threadKey[t]],
               \A l \in Keys \ {k} : l \in Waiting' \/ l \in LiveKeys' => l \in Waiting \/ l \in LiveKeys
        PROVE  ThreadsExact'
    <3>1. \A t \in Threads : threadKey'[t] # NoKey => ThreadOf[threadKey'[t]] = t
      BY <2>2 DEF ThreadsExact
    <3>2. ASSUME NEW l \in Keys, HasThread(l), l \in Waiting' \/ l \in running'
          PROVE  threadKey'[ThreadOf[l]] = l
      BY <2>1, <2>2, <3>2 DEF ThreadsExact, HasThread
    <3>3. QED
      BY <3>1, <3>2 DEF ThreadsExact, HasThread
  <2>3. ASSUME NEW k \in Keys, Enqueue(k), Waiting' = Waiting \union {k}, LiveKeys' = LiveKeys
        PROVE  ThreadsExact'
    <3>1. threadKey' = [t \in Threads |-> IF t = ThreadOf[k] THEN k ELSE threadKey[t]]
      BY <2>3 DEF Enqueue
    <3>2. QED
      BY <2>2, <2>3, <3>1
  <2>4. ASSUME NEW k \in Keys, Launch(k, Tail(queue)), k \in Waiting,
               Waiting' = Waiting \ {k}, LiveKeys' = LiveKeys \union {k}
        PROVE  ThreadsExact'
    <3>1. threadKey' = [t \in Threads |-> IF t = ThreadOf[k] THEN k ELSE threadKey[t]]
      BY <2>4 DEF Launch
    <3>2. QED
      BY <2>2, <2>4, <3>1
  <2>5. ASSUME NEW k \in Keys, Finally(k, "executing"),
               Waiting' = Waiting, LiveKeys' = LiveKeys \ {k}
        PROVE  ThreadsExact'
    BY <2>1, <2>5 DEF ThreadsExact, Finally, HasThread
  <2>6. CASE UNCHANGED <<Waiting, LiveKeys, runtime, threadKey, running>>
    BY <2>6 DEF ThreadsExact, HasThread
  <2>7. QED
    BY <2>3, <2>4, <2>5, <2>6, StepShape
<1>3. IInv /\ ThreadsExact => IsRunningTruthful
  <2> SUFFICES ASSUME IInv, ThreadsExact, NEW k \in Keys, HasThread(k)
               PROVE  IsRunning(ThreadOf[k]) <=> Live(k)
    BY DEF IsRunningTruthful
  <2>1. /\ \A l \in Keys : l \in running <=> Live(l)
        /\ ThreadOf[k] \in Threads
        /\ threadKey \in [Threads -> Keys \union {NoKey}]
    BY DEF IInv, RunsExact, LiveKeys, TypeOK, HasThread
  <2>2. ASSUME Live(k) PROVE IsRunning(ThreadOf[k])
    BY <2>1, <2>2 DEF ThreadsExact, IsRunning, IsKeyRunning
  <2>3. ASSUME IsRunning(ThreadOf[k]) PROVE Live(k)
    BY <2>1, <2>3 DEF ThreadsExact, IsRunning, IsKeyRunning, HasThread
  <2>4. QED
    BY <2>2, <2>3
<1>4. QED
  BY <1>1, <1>2, <1>3, Invariance, PTL DEF Spec

-----------------------------------------------------------------------------
(* Refinement *)

\* Every step of the queue is a step of RunService or leaves it as it is:
\* enqueue() accepts, a launch activates within the limit, an end releases.
THEOREM RefinesRunService == Spec => Service!Safety
<1> DEFINE ph == [k \in Keys |-> PhaseOf(k)]
<1>1. Init => Service!Init
  <2> SUFFICES ASSUME Init PROVE Service!Init
    OBVIOUS
  <2>1. Waiting = {}
    <3>1. queue = <<>>
      BY DEF Init
    <3>2. QED
      BY <3>1 DEF Waiting
  <2>2. running = {} /\ IInv
    BY InitIInv DEF Init
  <2>3. \A k \in Keys : PhaseOf(k) = "idle"
    BY <2>1, <2>2 DEF PhaseOf, IInv, RunsExact, LiveKeys
  <2>4. QED
    BY <2>3 DEF Service!Init
<1>2. IInv /\ IInv' /\ [Next]_vars => [Service!Next]_ph
  <2> SUFFICES ASSUME IInv, IInv', [Next]_vars PROVE [Service!Next]_ph
    OBVIOUS
  <2>1. /\ \A k \in Keys : PhaseOf(k) = IF k \in LiveKeys THEN "active"
                                         ELSE IF k \in Waiting THEN "accepted" ELSE "idle"
        /\ \A k \in Keys : PhaseOf(k)' = IF k \in LiveKeys' THEN "active"
                                          ELSE IF k \in Waiting' THEN "accepted" ELSE "idle"
    BY DEF PhaseOf, LiveKeys
  <2>2. /\ \A k \in Keys : k \in Waiting => k \notin LiveKeys
        /\ \A k \in Keys : k \in Waiting' => k \notin LiveKeys'
        /\ LiveKeys \subseteq Keys
    BY DEF IInv, RunsExact, LiveKeys
  <2>3. ASSUME NEW k \in Keys, Enqueue(k), Waiting' = Waiting \union {k}, LiveKeys' = LiveKeys
        PROVE  Service!Next
    <3>1. k \notin Waiting /\ k \notin LiveKeys
      BY <2>3 DEF Enqueue, Duplicate, IInv, QueueExact, RunsExact
    <3>2. PhaseOf(k) = "idle" /\ PhaseOf(k)' = "accepted"
      BY <2>1, <2>3, <3>1
    <3>3. \A l \in Keys \ {k} : PhaseOf(l)' = PhaseOf(l)
      BY <2>1, <2>3
    <3>4. Service!Accept(k)
      BY <3>2, <3>3 DEF Service!Accept
    <3>5. QED
      BY <3>4 DEF Service!Next
  <2>4. ASSUME NEW k \in Keys, Dispatch, Launch(k, Tail(queue)), k \in Waiting,
               Waiting' = Waiting \ {k}, LiveKeys' = LiveKeys \union {k}
        PROVE  Service!Next
    <3>1. PhaseOf(k) = "accepted" /\ PhaseOf(k)' = "active"
      BY <2>1, <2>2, <2>4
    <3>2. \A l \in Keys \ {k} : PhaseOf(l)' = PhaseOf(l)
      BY <2>1, <2>4
    <3>3. Cardinality(LiveKeys) < MaxConcurrency
      BY <2>4 DEF Dispatch, IInv, RunsExact, LimitKept
    <3>4. Service!Active = LiveKeys
      BY <2>1, <2>2 DEF Service!Active
    <3>5. Service!Cardinality(Service!Active) < MaxConcurrency
      BY <3>3, <3>4 DEF Service!Cardinality, Cardinality
    <3>6. Service!Activate(k)
      BY <3>1, <3>2, <3>5 DEF Service!Activate
    <3>7. QED
      BY <3>6 DEF Service!Next
  <2>5. ASSUME NEW k \in Keys, k \in LiveKeys,
               Waiting' = Waiting, LiveKeys' = LiveKeys \ {k}
        PROVE  Service!Next
    <3>1. ph[k] = "active" /\ ph' = [ph EXCEPT ![k] = "idle"]
      BY <2>1, <2>2, <2>5
    <3>2. QED
      BY <3>1 DEF Service!Next, Service!Release
  <2>6. CASE UNCHANGED <<Waiting, LiveKeys, runtime, threadKey, running>>
    BY <2>1, <2>6
  <2>7. QED
    BY <2>3, <2>4, <2>5, <2>6, StepShape
<1>3. QED
  BY <1>1, <1>2, Invariance, PTL DEF Spec, Service!Safety

-----------------------------------------------------------------------------
(* With drain()                                                            *)

\* The exactness of the indexes does not survive a drain: a request that arrives
\* while it waits starts a run that drain() then forgets.  What survives is that
\* the index of the runs names none that does not exist.
LockInv == TypeOK /\ NoKeyLockedOut

\* The steps that drain() does not make itself, in any of its phases.
LEMMA QueueLock ==
  ASSUME LockInv, Next
  PROVE  LockInv'
<1>0. TypeOK
  BY DEF LockInv
<1>1. ASSUME NEW k \in Keys, Enqueue(k) PROVE LockInv'
  <2>1. UNCHANGED <<running, runningKeys, tasks, drain, status>>
    BY <1>1 DEF Enqueue
  <2>2. queue' \in Seq(Keys) /\ queuedKeys' \subseteq Keys
    BY <1>0, <1>1 DEF Enqueue, TypeOK
  <2>3. /\ queuedThreads' \subseteq Threads
        /\ threadKey' \in [Threads -> Keys \union {NoKey}]
    <3>1. queuedThreads' \subseteq Threads
      <4>1. queuedThreads' = queuedThreads \union ThreadSet(k)
        BY <1>1 DEF Enqueue
      <4>2. ThreadSet(k) \subseteq Threads
        BY DEF ThreadSet
      <4> QED
        BY <1>0, <4>1, <4>2 DEF TypeOK
    <3>2. threadKey' \in [Threads -> Keys \union {NoKey}]
      BY <1>0, <1>1 DEF Enqueue, TypeOK
    <3> QED
      BY <3>1, <3>2
  <2>4. dispatcher' \in DispatcherState /\ runtime' \in [Keys -> RuntimeStatus]
    BY <1>0, <1>1 DEF Enqueue, TypeOK, EnsureStarted, DispatcherState, RuntimeStatus
  <2>5. TypeOK'
    BY <1>0, <2>1, <2>2, <2>3, <2>4 DEF TypeOK
  <2>6. LiveKeys' = LiveKeys
    BY <2>1 DEF LiveKeys, Live, TaskCount
  <2> QED
    BY <2>1, <2>5, <2>6 DEF LockInv, NoKeyLockedOut
<1>2. CASE Begin \/ Wake \/ ActiveCount
  <2>1. /\ running' \subseteq Keys /\ dispatcher' \in DispatcherState
        /\ UNCHANGED <<queue, queuedKeys, queuedThreads, threadKey, runningKeys, tasks, drain,
                       meta>>
    BY <1>0, <1>2 DEF Begin, Wake, ActiveCount, Cleaned, TypeOK, LoopHead, DispatcherState,
                bookkeeping
  <2>2. TypeOK'
    BY <1>0, <2>1 DEF TypeOK, meta
  <2>3. LiveKeys' = LiveKeys
    BY <2>1 DEF LiveKeys, Live, TaskCount
  <2> QED
    BY <2>1, <2>2, <2>3 DEF LockInv, NoKeyLockedOut
<1>3. CASE Dispatch
  <2>1. queue \in Seq(Keys) /\ queue # <<>>
    BY <1>0, <1>3 DEF Dispatch, TypeOK
  <2>2. Head(queue) \in Keys /\ Tail(queue) \in Seq(Keys)
    BY <2>1
  <2>3. PICK k \in Keys : k = Head(queue) /\ Launch(k, Tail(queue))
    BY <1>3, <2>2 DEF Dispatch
  <2>4. /\ tasks' \in [Keys -> [Phase -> Nat]]
        /\ TaskCount(k)' = TaskCount(k) + 1
        /\ \A l \in Keys \ {k} : TaskCount(l)' = TaskCount(l)
    BY <1>0, <2>3, LaunchCounts
  <2>5. LiveKeys' = LiveKeys \union {k}
    BY <1>0, <2>4, CountNat DEF LiveKeys, Live
  <2>6. /\ runningKeys' = runningKeys \union {k} /\ UNCHANGED drain
        /\ queue' \in Seq(Keys) /\ running' \subseteq Keys
    BY <1>0, <2>2, <2>3 DEF Launch, Cleaned, TypeOK
  <2>7. dispatcher' \in DispatcherState
    BY <2>3 DEF Launch, LoopHead, DispatcherState
  <2>8. TypeOK'
    BY <1>0, <2>3, <2>4, <2>6, <2>7 DEF Launch, TypeOK, RuntimeStatus
  <2> QED
    BY <2>5, <2>6, <2>8 DEF LockInv, NoKeyLockedOut
<1>4. ASSUME NEW k \in Keys, Start(k) PROVE LockInv'
  <2>1. UNCHANGED <<bookkeeping, dispatcher, drain, meta>>
    BY <1>4 DEF Start
  <2>2. tasks' \in [Keys -> [Phase -> Nat]] /\ \A l \in Keys : TaskCount(l)' = TaskCount(l)
    BY <1>0, <1>4, StartCounts
  <2>3. TypeOK' /\ LiveKeys' = LiveKeys
    BY <1>0, <2>1, <2>2 DEF TypeOK, LiveKeys, Live, bookkeeping, meta
  <2> QED
    BY <2>1, <2>3 DEF LockInv, NoKeyLockedOut, bookkeeping
<1>5. ASSUME NEW k \in Keys, Finish(k) \/ Fail(k) PROVE LockInv'
  <2>1. /\ tasks[k]["executing"] > 0 /\ Finally(k, "executing")
        /\ status' \in [Keys -> LocalStatus]
    BY <1>0, <1>5 DEF Finish, Fail, TypeOK, LocalStatus
  <2>2. /\ tasks' \in [Keys -> [Phase -> Nat]]
        /\ \A l \in Keys \ {k} : TaskCount(l)' = TaskCount(l)
    BY <1>0, <2>1, FinallyCounts
  <2>3. TypeOK'
    BY <1>0, <2>1, <2>2 DEF TypeOK, Finally, RuntimeStatus
  <2>4. LiveKeys \ {k} \subseteq LiveKeys' /\ runningKeys' = runningKeys \ {k}
    BY <2>1, <2>2 DEF LiveKeys, Live, Finally
  <2> QED
    BY <2>1, <2>3, <2>4 DEF LockInv, NoKeyLockedOut, Finally
<1> QED
  BY <1>1, <1>2, <1>3, <1>4, <1>5 DEF Next, DispatcherStep, RunStep

\* Cancelling keeps the counts natural numbers.
LEMMA CancelledCounts ==
  ASSUME TypeOK
  PROVE  Cancelled \in [Keys -> [Phase -> Nat]]
<1>1. \A k \in Keys : /\ tasks[k] \in [Phase -> Nat]
                      /\ tasks[k]["created"] \in Nat /\ tasks[k]["executing"] \in Nat
                      /\ tasks[k]["cancelled"] \in Nat
  BY DEF TypeOK, Phase
<1>2. ASSUME NEW k \in Keys
      PROVE  (IF k \notin running THEN tasks[k]
              ELSE IF tasks[k]["created"] > 0
                THEN [tasks[k] EXCEPT !["created"] = @ - 1]
              ELSE IF tasks[k]["executing"] > 0
                THEN [tasks[k] EXCEPT !["executing"] = @ - 1, !["cancelled"] = @ + 1]
              ELSE tasks[k]) \in [Phase -> Nat]
  <2>1. tasks[k]["created"] > 0 => [tasks[k] EXCEPT !["created"] = @ - 1] \in [Phase -> Nat]
    BY <1>1 DEF Phase
  <2>2. tasks[k]["executing"] > 0 =>
          [tasks[k] EXCEPT !["executing"] = @ - 1, !["cancelled"] = @ + 1] \in [Phase -> Nat]
    BY <1>1 DEF Phase
  <2> QED
    BY <1>1, <2>1, <2>2
<1> QED
  BY <1>2 DEF Cancelled

\* drain() forgets the runs when it is done; before that nothing is promised.
LEMMA DrainLock ==
  ASSUME LockInv, DrainStep
  PROVE  LockInv'
<1>0. TypeOK
  BY DEF LockInv
<1>1. ASSUME EmptyQueueAndCancel, dispatcher' \in DispatcherState PROVE LockInv'
  <2>1. queue' \in Seq(Keys)
    BY <1>1, EmptySeq DEF EmptyQueueAndCancel
  <2>2. /\ queuedKeys' \subseteq Keys /\ queuedThreads' \subseteq Threads
        /\ drain' \in DrainState /\ UNCHANGED <<threadKey, meta>>
    BY <1>1 DEF EmptyQueueAndCancel, DrainState
  <2>3. tasks' \in [Keys -> [Phase -> Nat]]
    BY <1>0, <1>1, CancelledCounts DEF EmptyQueueAndCancel
  <2>4. running' \subseteq Keys /\ runningKeys' \subseteq Keys
    BY <1>0, <1>1 DEF EmptyQueueAndCancel, ForgetRuns, TypeOK
  <2>5. TypeOK'
    BY <1>0, <1>1, <2>1, <2>2, <2>3, <2>4 DEF TypeOK, meta
  <2>6. NoKeyLockedOut'
    BY <1>1 DEF EmptyQueueAndCancel, ForgetRuns, NoKeyLockedOut
  <2> QED
    BY <2>5, <2>6 DEF LockInv
<1>2. CASE DrainCall
  <2>1. CASE dispatcher # "off"
    <3>1. /\ dispatcher' = "cancelled" /\ drain' = "stopping"
          /\ UNCHANGED <<bookkeeping, tasks, meta>>
      BY <1>2, <2>1 DEF DrainCall
    <3>2. TypeOK'
      BY <1>0, <3>1 DEF TypeOK, bookkeeping, meta, DispatcherState, DrainState
    <3> QED
      BY <3>1, <3>2 DEF LockInv, NoKeyLockedOut
  <2>2. CASE dispatcher = "off"
    BY <1>0, <1>1, <1>2, <2>2 DEF DrainCall, TypeOK
  <2> QED
    BY <2>1, <2>2
<1>3. CASE DrainProceed
  BY <1>1, <1>3 DEF DrainProceed, DispatcherState
<1>4. ASSUME NEW k \in Keys, CancelledEnds(k) PROVE LockInv'
  <2>1. /\ \A l \in Keys : tasks[l] \in [Phase -> Nat]
        /\ tasks' = [tasks EXCEPT ![k] = [tasks[k] EXCEPT !["cancelled"] = @ - 1]]
    BY <1>0, <1>4 DEF TypeOK, CancelledEnds, Finally
  <2>2. tasks[k]["cancelled"] \in Nat /\ tasks[k]["cancelled"] > 0
    BY <1>4, <2>1 DEF CancelledEnds, Phase
  <2>3. [tasks[k] EXCEPT !["cancelled"] = @ - 1] \in [Phase -> Nat]
    BY <2>1, <2>2 DEF Phase
  <2>4. tasks' \in [Keys -> [Phase -> Nat]] /\ \A l \in Keys \ {k} : tasks'[l] = tasks[l]
    <3>1. PICK run \in [Phase -> Nat] : tasks' = [tasks EXCEPT ![k] = run]
      BY <2>1, <2>3
    <3>2. tasks \in [Keys -> [Phase -> Nat]]
      BY <1>0 DEF TypeOK
    <3> QED
      BY <3>1, <3>2
  <2>5. TypeOK'
    BY <1>0, <1>4, <2>4 DEF TypeOK, CancelledEnds, Finally, RuntimeStatus
  <2>6. LiveKeys \ {k} \subseteq LiveKeys'
    BY <2>4 DEF LiveKeys, Live, TaskCount
  <2>7. runningKeys' = runningKeys \ {k} /\ UNCHANGED drain
    BY <1>4 DEF CancelledEnds, Finally
  <2> QED
    BY <2>5, <2>6, <2>7 DEF LockInv, NoKeyLockedOut
<1>5. CASE DrainReturn
  <2>1. /\ running' = {} /\ runningKeys' = {} /\ drain' = "done"
        /\ UNCHANGED <<queue, queuedKeys, queuedThreads, threadKey, tasks, dispatcher, meta>>
    BY <1>5 DEF DrainReturn, ForgetRuns
  <2>2. TypeOK'
    BY <1>0, <2>1 DEF TypeOK, DrainState, meta
  <2> QED
    BY <2>1, <2>2 DEF LockInv, NoKeyLockedOut
<1> QED
  BY <1>2, <1>3, <1>4, <1>5 DEF DrainStep

\* Whatever drain() interrupts, and whatever the requests that arrive meanwhile start
\* again: once it has returned no key is refused for a run that does not exist.
THEOREM NoKeyLockedOutHolds == ShutdownSpec => []NoKeyLockedOut
<1>1. Init => LockInv
  BY InitIInv DEF IInv, LockInv, NoKeyLockedOut, Init
<1>2. LockInv /\ [Next \/ DrainStep]_vars => LockInv'
  <2> SUFFICES ASSUME LockInv, [Next \/ DrainStep]_vars PROVE LockInv'
    OBVIOUS
  <2>1. CASE UNCHANGED vars
    BY <2>1 DEF vars, bookkeeping, meta, LockInv, TypeOK, NoKeyLockedOut, LiveKeys, Live, TaskCount
  <2> QED
    BY <2>1, QueueLock, DrainLock
<1>3. LockInv => NoKeyLockedOut
  BY DEF LockInv
<1> QED
  BY <1>1, <1>2, <1>3, PTL DEF ShutdownSpec
=============================================================================
