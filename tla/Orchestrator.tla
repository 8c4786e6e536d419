---------------------------- MODULE Orchestrator ----------------------------
(***************************************************************************)
(* The asynchronous run queue of app/orchestrator.py.                      *)
(*                                                                         *)
(* Everything here runs on one asyncio event loop, so an action is the     *)
(* code between two awaits.  enqueue() awaits only the put on an unbounded *)
(* queue, which never suspends: the whole call is one action.  The         *)
(* dispatcher suspends at the get of an empty queue and in its one second  *)
(* sleep; a run suspends in the executor, which this module leaves open:   *)
(* it returns, or raises.                                                  *)
(*                                                                         *)
(* A work item is a pair of an issue key and the thread that reports the   *)
(* run.  Runs are counted per key and phase in `tasks', the asyncio tasks  *)
(* that really exist, apart from the bookkeeping the class keeps of them   *)
(* in `running' and `runningKeys': the properties compare the two.         *)
(***************************************************************************)
EXTENDS Naturals, Sequences, FiniteSets

CONSTANTS
  Keys,            \* issue keys, "owner/repo#number"
  Threads,         \* Discord thread ids
  ThreadOf,        \* the thread bound to a key, or NoThread
  NoThread,        \* an item that no thread reports (thread_id None)
  NoKey,           \* _thread_to_key has no entry
  MaxConcurrency   \* the constructor's max_concurrency

(***************************************************************************)
(* StateStore.bind_thread refuses a second key for a thread and a second   *)
(* thread for a key, so the items that reach the queue are one-to-one.     *)
(***************************************************************************)
ASSUME OrchestratorAssumption ==
  /\ IsFiniteSet(Keys)
  /\ NoThread \notin Threads
  /\ NoKey \notin Keys
  /\ ThreadOf \in [Keys -> Threads \union {NoThread}]
  /\ \A k, l \in Keys : ThreadOf[k] = ThreadOf[l] /\ ThreadOf[k] # NoThread => k = l
  /\ MaxConcurrency \in Nat \ {0}

VARIABLES
  queue,          \* _queue: the keys of the waiting items, oldest first
  queuedKeys,     \* _queued_keys
  queuedThreads,  \* _queued_thread_ids
  threadKey,      \* _thread_to_key
  running,        \* the keys of _running
  runningKeys,    \* _running_keys
  tasks,          \* how many run tasks of a key are in each phase
  dispatcher,     \* where _dispatch_loop stands
  drain,          \* where drain() stands
  runtime,        \* meta.json: runtime_status
  status          \* meta.json: status, as far as this class writes it

bookkeeping == <<queue, queuedKeys, queuedThreads, threadKey, running, runningKeys>>
meta == <<runtime, status>>
vars == <<bookkeeping, tasks, dispatcher, drain, meta>>

\* "created": create_task was called, the coroutine has not run yet;
\* "cancelled": cancel() was called on an executing task, its finally is due.
Phase == {"created", "executing", "cancelled"}
DispatcherState == {"off", "starting", "sleeping", "getting", "cancelled"}
DrainState == {"none", "stopping", "waiting", "done"}
RuntimeStatus == {"", "queued", "running"}
LocalStatus == {"other", "Rework"}

TypeOK ==
  /\ queue \in Seq(Keys)
  /\ queuedKeys \subseteq Keys
  /\ queuedThreads \subseteq Threads
  /\ threadKey \in [Threads -> Keys \union {NoKey}]
  /\ running \subseteq Keys
  /\ runningKeys \subseteq Keys
  /\ tasks \in [Keys -> [Phase -> Nat]]
  /\ dispatcher \in DispatcherState
  /\ drain \in DrainState
  /\ runtime \in [Keys -> RuntimeStatus]
  /\ status \in [Keys -> LocalStatus]

-----------------------------------------------------------------------------
(* Reading the state *)

HasThread(k) == ThreadOf[k] # NoThread
ThreadSet(k) == {ThreadOf[k]} \ {NoThread}

\* The run tasks of k that exist and have not finished.
TaskCount(k) == tasks[k]["created"] + tasks[k]["executing"] + tasks[k]["cancelled"]
Live(k) == TaskCount(k) > 0
LiveKeys == {k \in Keys : Live(k)}

Waiting == {queue[i] : i \in 1..Len(queue)}

\* _is_key_running: the entry exists and its task is not done.
IsKeyRunning(k) == k \in running /\ Live(k)

\* is_running and is_queued, as every Discord command asks them.
IsRunning(t) == threadKey[t] # NoKey /\ IsKeyRunning(threadKey[t])
IsQueued(t) == t \in queuedThreads

\* Variant: an entry is popped whether or not its task is done.
CleanedOfAll == {}

\* _cleanup_finished: entries whose task is done are popped.
Cleaned == {k \in running : Live(k)}

\* The head of the loop: sleep when _running is full, else go to the get.
LoopHead(run) == IF Cardinality(run) >= MaxConcurrency THEN "sleeping" ELSE "getting"

-----------------------------------------------------------------------------
Init ==
  /\ queue = <<>>
  /\ queuedKeys = {}
  /\ queuedThreads = {}
  /\ threadKey = [t \in Threads |-> NoKey]
  /\ running = {}
  /\ runningKeys = {}
  /\ tasks = [k \in Keys |-> [p \in Phase |-> 0]]
  /\ dispatcher = "off"
  /\ drain = "none"
  /\ runtime = [k \in Keys |-> ""]
  /\ status = [k \in Keys |-> "other"]

\* Variant: only the queue is searched for the key.
DuplicateInQueueOnly(k) == k \in queuedKeys

\* The first guard of enqueue().
Duplicate(k) ==
  \/ HasThread(k) /\ ThreadOf[k] \in queuedThreads
  \/ k \in runningKeys
  \/ k \in queuedKeys

\* ensure_started: a finished dispatcher is replaced.
EnsureStarted == IF dispatcher = "off" THEN "starting" ELSE dispatcher

\* enqueue() of an item it accepts.  A refused item changes nothing.
Enqueue(k) ==
  /\ ~Duplicate(k)
  /\ ~(HasThread(k) /\ IsKeyRunning(k))
  /\ runtime' = [runtime EXCEPT ![k] = "queued"]
  /\ queuedThreads' = queuedThreads \union ThreadSet(k)
  /\ threadKey' = [t \in Threads |-> IF t = ThreadOf[k] THEN k ELSE threadKey[t]]
  /\ queue' = Append(queue, k)
  /\ queuedKeys' = queuedKeys \union {k}
  /\ dispatcher' = EnsureStarted
  /\ UNCHANGED <<running, runningKeys, tasks, drain, status>>

\* The dispatcher's task takes its first step.
Begin ==
  /\ dispatcher = "starting"
  /\ dispatcher' = LoopHead(running)
  /\ UNCHANGED <<bookkeeping, tasks, drain, meta>>

\* _dispatch_loop wakes from its sleep at the capacity limit.
Wake ==
  /\ dispatcher = "sleeping"
  /\ running' = Cleaned
  /\ dispatcher' = LoopHead(Cleaned)
  /\ UNCHANGED <<queue, queuedKeys, queuedThreads, threadKey, runningKeys, tasks, drain, meta>>

\* The loop's body once the get has returned the item of k, `rest' staying
\* in the queue.
Launch(k, rest) ==
  /\ queue' = rest
  /\ queuedThreads' = queuedThreads \ ThreadSet(k)
  /\ threadKey' = [t \in Threads |-> IF t = ThreadOf[k] THEN k ELSE threadKey[t]]
  /\ queuedKeys' = queuedKeys \ {k}
  /\ runtime' = [runtime EXCEPT ![k] = "running"]
  /\ tasks' = [tasks EXCEPT ![k]["created"] = @ + 1]
  /\ running' = Cleaned \union {k}
  /\ runningKeys' = runningKeys \union {k}
  /\ dispatcher' = LoopHead(Cleaned \union {k})
  /\ UNCHANGED <<drain, status>>

\* Variant: the newest item first.
DispatchNewest ==
  /\ dispatcher = "getting"
  /\ queue # <<>>
  /\ Launch(queue[Len(queue)], SubSeq(queue, 1, Len(queue) - 1))

\* _dispatch_loop gets the oldest item and creates its run.  The get of a
\* queue that is not empty does not suspend, so the code launches several
\* items with no other step between them; here other steps may come between.
Dispatch ==
  /\ dispatcher = "getting"
  /\ queue # <<>>
  /\ Launch(Head(queue), Tail(queue))

\* Variant: a run that is taken up again and again.
StartTwice(k) ==
  /\ tasks[k]["created"] > 0
  /\ tasks' = [tasks EXCEPT ![k]["created"] = @ - 2, ![k]["executing"] = @ + 2]
  /\ UNCHANGED <<bookkeeping, dispatcher, drain, meta>>

\* _run_item starts: the executor is called.
Start(k) ==
  /\ tasks[k]["created"] > 0
  /\ tasks' = [tasks EXCEPT ![k]["created"] = @ - 1, ![k]["executing"] = @ + 1]
  /\ UNCHANGED <<bookkeeping, dispatcher, drain, meta>>

\* Variant: runtime_status is left as it is.
FinallyKeepsRuntime(k, p) ==
  /\ tasks' = [tasks EXCEPT ![k][p] = @ - 1]
  /\ running' = running \ {k}
  /\ runningKeys' = runningKeys \ {k}
  /\ UNCHANGED <<queue, queuedKeys, queuedThreads, threadKey, dispatcher, drain, runtime>>

\* The finally clause of _run_item, for a task in phase p.
Finally(k, p) ==
  /\ tasks' = [tasks EXCEPT ![k][p] = @ - 1]
  /\ runtime' = [runtime EXCEPT ![k] = ""]
  /\ running' = running \ {k}
  /\ runningKeys' = runningKeys \ {k}
  /\ UNCHANGED <<queue, queuedKeys, queuedThreads, threadKey, dispatcher, drain>>

\* The executor returns.  It has left the issue in a status of its own choice.
Finish(k) ==
  /\ tasks[k]["executing"] > 0
  /\ Finally(k, "executing")
  /\ \E s \in LocalStatus : status' = [status EXCEPT ![k] = s]

\* The executor raises.  The failure is recorded ("failed" is overwritten by
\* the finally clause before any other coroutine runs) and the issue goes to
\* Rework.
Fail(k) ==
  /\ tasks[k]["executing"] > 0
  /\ Finally(k, "executing")
  /\ status' = [status EXCEPT ![k] = "Rework"]

-----------------------------------------------------------------------------
(* drain(): stop the dispatcher, empty the queue, cancel the runs.  Nothing *)
(* under app/ calls it, the tests do; a process drains once.                *)

\* The runs of _running are cancelled: one that has not started is gone with
\* no finally clause, an executing one still has its own to run.
Cancelled ==
  [k \in Keys |->
     IF k \notin running THEN tasks[k]
     ELSE IF tasks[k]["created"] > 0
       THEN [tasks[k] EXCEPT !["created"] = @ - 1]
     ELSE IF tasks[k]["executing"] > 0
       THEN [tasks[k] EXCEPT !["executing"] = @ - 1, !["cancelled"] = @ + 1]
     ELSE tasks[k]]

\* Variant: _running_keys is not cleared.
ForgetRunsKeepsKeys == running' = {} /\ UNCHANGED runningKeys

\* The last two lines of drain().
ForgetRuns == running' = {} /\ runningKeys' = {}

\* From the emptying of the queue to the gather, or to the end when there is
\* no run to gather.
EmptyQueueAndCancel ==
  /\ queue' = <<>>
  /\ queuedThreads' = {}
  /\ queuedKeys' = {}
  /\ tasks' = Cancelled
  /\ \/ running # {} /\ drain' = "waiting" /\ UNCHANGED <<running, runningKeys>>
     \/ running = {} /\ drain' = "done" /\ ForgetRuns
  /\ UNCHANGED <<threadKey, meta>>

\* drain() is called with a dispatcher to wait for, or without.
DrainCall ==
  /\ drain = "none"
  /\ \/ /\ dispatcher # "off"
        /\ dispatcher' = "cancelled"
        /\ drain' = "stopping"
        /\ UNCHANGED <<bookkeeping, tasks, meta>>
     \/ /\ dispatcher = "off"
        /\ EmptyQueueAndCancel
        /\ UNCHANGED dispatcher

\* The cancelled dispatcher is done and drain() goes on.
DrainProceed ==
  /\ drain = "stopping"
  /\ dispatcher' = "off"
  /\ EmptyQueueAndCancel

\* A cancelled run leaves the executor; CancelledError is no Exception.
CancelledEnds(k) ==
  /\ tasks[k]["cancelled"] > 0
  /\ Finally(k, "cancelled")
  /\ UNCHANGED status

\* The gather is over.
DrainReturn ==
  /\ drain = "waiting"
  /\ \A k \in Keys : tasks[k]["cancelled"] = 0
  /\ ForgetRuns
  /\ drain' = "done"
  /\ UNCHANGED <<queue, queuedKeys, queuedThreads, threadKey, tasks, dispatcher, meta>>

\* active_count(), polled by the health check.
ActiveCount ==
  /\ running' = Cleaned
  /\ UNCHANGED <<queue, queuedKeys, queuedThreads, threadKey, runningKeys, tasks, dispatcher, drain, meta>>

-----------------------------------------------------------------------------
RunStep(k) == Start(k) \/ Finish(k) \/ Fail(k)
DispatcherStep == Begin \/ Wake \/ Dispatch

Next ==
  \/ \E k \in Keys : Enqueue(k)
  \/ DispatcherStep
  \/ \E k \in Keys : RunStep(k)
  \/ ActiveCount

(***************************************************************************)
(* The event loop runs the dispatcher and the runs; that an executor       *)
(* returns or raises in the end is an assumption about execute_run.        *)
(***************************************************************************)
Fairness ==
  /\ WF_vars(DispatcherStep)
  /\ \A k \in Keys : WF_vars(RunStep(k))

Spec == Init /\ [][Next]_vars
FairSpec == Spec /\ Fairness

DrainStep ==
  \/ DrainCall
  \/ DrainProceed
  \/ \E k \in Keys : CancelledEnds(k)
  \/ DrainReturn

ShutdownSpec == Init /\ [][Next \/ DrainStep]_vars

-----------------------------------------------------------------------------
(* Properties *)

Positions(k) == {i \in 1..Len(queue) : queue[i] = k}

\* At most one request or run of an issue key exists at a time: enqueue()
\* refuses a key that waits or runs, and nothing runs a key twice.
SingleFlight == \A k \in Keys : Cardinality(Positions(k)) + TaskCount(k) <= 1

\* No more than max_concurrency runs exist, although the dispatcher tests
\* the limit before it waits at the get and launches after it.
ConcurrencyBound == Cardinality(LiveKeys) <= MaxConcurrency

\* The sets enqueue() consults agree with what waits and what runs: a
\* leftover key would be refused for ever, a missing one would run twice.
IndexAgrees ==
  /\ queuedKeys = Waiting
  /\ queuedThreads = UNION {ThreadSet(k) : k \in Waiting}
  /\ runningKeys = LiveKeys

\* is_running(thread), the guard of the Discord commands, is true exactly
\* while a run of the bound key exists.
IsRunningTruthful ==
  \A k \in Keys : HasThread(k) => (IsRunning(ThreadOf[k]) <=> Live(k))

\* runtime_status, which the restart and the reconciliation read, tells a
\* waiting key from a running one and from neither.
RuntimeTruthful ==
  \A k \in Keys : /\ runtime[k] = "queued" <=> k \in Waiting
                  /\ runtime[k] = "running" <=> Live(k)

\* What RunService sees.
PhaseOf(k) ==
  IF Live(k) THEN "active" ELSE IF k \in Waiting THEN "accepted" ELSE "idle"

\* The queue, its sets and the dispatcher implement RunService, its fairness
\* included: a request that was accepted gets its run, since the dispatcher
\* neither stalls at the limit nor lets later requests pass for ever.
Service == INSTANCE RunService WITH phase <- [k \in Keys |-> PhaseOf(k)]
ImplementsRunService == Service!Spec

\* Whatever a drain interrupts, no key stays refused once it has returned.
NoKeyLockedOut == drain = "done" => runningKeys \subseteq LiveKeys

\* drain() "cancel[s] running tasks": no run exists when it returns.  ShutdownSpec
\* does not have this property (README.md).
DrainStopsEverything == [][drain # "done" /\ drain' = "done" => LiveKeys' = {}]_vars
=============================================================================
