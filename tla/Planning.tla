------------------------------ MODULE Planning ------------------------------
(***************************************************************************)
(* How a plan is made: PlanningAgent.build_artifacts                       *)
(* (app/planning_agent.py), the committee of app/planning/, and the        *)
(* retries of ClaudeAgentClient.json_response_with_meta                    *)
(* (app/agent_sdk_client.py).                                              *)
(*                                                                         *)
(* A committee of three roles and a merger makes the plan, or one model    *)
(* makes plan, overview and, for every acceptance criterion, a chunk of    *)
(* the test plan.  The chunks are made by the threads of a pool; the first *)
(* failure empties the pool, and the main thread makes what is missing one *)
(* by one.  Every request is a short dialogue: what the model answers      *)
(* decides whether it is asked again, and in which way.                    *)
(*                                                                         *)
(* Conversation sees of all this one step: the plan is made, or it is not. *)
(***************************************************************************)
EXTENDS Integers, FiniteSets, FiniteSetsExt

CONSTANTS
  Counts,        \* how many acceptance criteria there may be
  MaxParallel    \* planning.test_plan_max_parallelism

ASSUME PlanningAssumption ==
  Counts \subseteq Nat \ {0} /\ Counts # {} /\ MaxParallel \in Nat \ {0}

VARIABLES
  criteria,   \* the acceptance criteria, or the one for all requirements
  stage,      \* where build_artifacts stands
  call,       \* the call of the model that each thread waits for
  raising,    \* a role of the committee has raised
  made,       \* the criteria whose chunk the main thread holds
  sound,      \* all it holds are objects, the plan and the overview as well
  task,       \* the future of each criterion
  spent,      \* how often a model has been called for each criterion
  outcome     \* what build_artifacts came to

held == <<made, sound>>
vars == <<criteria, stage, call, raising, held, task, spent, outcome>>

\* Criterion k is made by a thread of its own, or by the main thread.
main == 0
Threads == {main} \union criteria
Calls == {"first", "barred", "empty", "again"}
Roles == {"repo", "risk", "constraint"}

\* What a call of the model comes to: an object, some other JSON value, text
\* that holds neither, no text, an attempt to write, or any other failure - a
\* timeout, a limit, a file that is too long.
Answers == {"object", "value", "prose", "nothing", "forbidden", "failure"}

-----------------------------------------------------------------------------
(* One request.                                                            *)

\* Only a request for the plan or a part of the test plan may try to write and
\* be asked again without it.
RetriesForbidden == stage \notin Roles \union {"merger"}

\* Variant: an answer without text is asked for again however often it comes.
AfterRetriesNothing(c, answer) ==
  CASE answer \in {"object", "value"} -> answer
    [] answer = "prose" /\ c # "again" -> "again"
    [] answer = "nothing" -> "empty"
    [] answer = "forbidden" /\ c = "first" /\ RetriesForbidden -> "barred"
    [] OTHER -> "raised"

\* json_response_with_meta: what follows call c and its answer is another call,
\* or what the request returns, or an exception.  A value that is no object is
\* returned like an object.
After(c, answer) ==
  CASE answer \in {"object", "value"} -> answer
    [] answer = "prose" /\ c # "again" -> "again"
    [] answer = "nothing" /\ c \in {"first", "barred"} -> "empty"
    [] answer = "forbidden" /\ c = "first" /\ RetriesForbidden -> "barred"
    [] OTHER -> "raised"

\* The criterion whose chunk thread t is making; the main thread makes them in
\* their order.
Remaining == criteria \ made
Making(t) == IF t # main THEN {t}
             ELSE IF stage = "alone" THEN {Min(Remaining)} ELSE {}

Spend(ks) == spent' = [k \in criteria |-> spent[k] + IF k \in ks THEN 1 ELSE 0]

\* The model is called again within the request.
AsksAgain(t) ==
  /\ call[t] # "none"
  /\ \E answer \in Answers :
       /\ After(call[t], answer) \in Calls
       /\ call' = [call EXCEPT ![t] = After(call[t], answer)]
  /\ Spend(Making(t))
  /\ UNCHANGED <<criteria, stage, raising, held, task, outcome>>

Finished == {"object", "value", "raised"}

\* The request of thread t ends with result r.
Ends(t, r) ==
  /\ call[t] # "none"
  /\ \E answer \in Answers : After(call[t], answer) = r

-----------------------------------------------------------------------------
(* The main thread.                                                        *)

\* It goes to stage s, in which it asks a model, or not.
Asks(s) == stage' = s /\ call' = [call EXCEPT ![main] = "first"]
Goes(s) == stage' = s /\ call' = [call EXCEPT ![main] = "none"]

Over(how) == Goes("over") /\ outcome' = how

\* build_artifacts, when the committee raises: legacy_fallback decides.
CommitteeFails ==
  /\ raising' = FALSE
  /\ (Asks("plan") /\ UNCHANGED outcome) \/ Over("raised")

\* The roles do not await anything: gather runs them one after the other, and
\* all three, also when the first has failed.
RoleEnds ==
  \E r \in Finished :
    LET failed == raising \/ r # "object"
        next == CASE stage = "repo" -> "risk" [] stage = "risk" -> "constraint"
                  [] OTHER -> "merger"
    IN  /\ stage \in Roles /\ Ends(main, r)
        /\ IF failed /\ next = "merger" THEN CommitteeFails
           ELSE Asks(next) /\ raising' = failed /\ UNCHANGED outcome
        /\ UNCHANGED <<criteria, held, task, spent>>

\* The plan of the merger passes PlanQualityGate or it does not.
MergerEnds ==
  /\ stage = "merger"
  /\ \/ Ends(main, "object") /\ Over("by committee") /\ UNCHANGED raising
     \/ (\E r \in Finished : Ends(main, r)) /\ CommitteeFails
  /\ UNCHANGED <<criteria, held, task, spent>>

\* A request of the main thread that raises ends the planning.
Raises ==
  /\ stage \in {"plan", "overview", "alone"} /\ Ends(main, "raised")
  /\ Over("raised")
  /\ UNCHANGED <<criteria, raising, held, task, spent>>

Holds(ks, r) == made' = made \union ks /\ sound' = (sound /\ r = "object")

PlanEnds ==
  \E r \in {"object", "value"} :
    /\ stage = "plan" /\ Ends(main, r) /\ Asks("overview")
    /\ Holds({}, r)
    /\ UNCHANGED <<criteria, raising, task, spent, outcome>>

\* _test_plan_parallelism.
Parallelism == Min({Cardinality(criteria), MaxParallel})

\* The overview is there.  One criterion, or no parallelism, needs no pool.
OverviewEnds ==
  \E r \in {"object", "value"} :
    /\ stage = "overview" /\ Ends(main, r)
    /\ Holds({}, r)
    /\ IF Parallelism = 1
       THEN /\ Asks("alone") /\ Spend({Min(criteria)}) /\ UNCHANGED task
       ELSE /\ Goes("pool") /\ UNCHANGED spent
            /\ task' = [k \in criteria |->
                          IF k <= Parallelism THEN "queued" ELSE "waiting"]
    /\ UNCHANGED <<criteria, raising, outcome>>

\* Variant: every criterion that waits is submitted.
NextSubmittedAll == {k \in criteria : task[k] = "waiting"}

\* _submit_next: the next criterion that waits, if there is one.
NextSubmitted ==
  {k \in criteria : /\ task[k] = "waiting"
                    /\ \A j \in criteria : task[j] = "waiting" => k <= j}

\* A future that has finished well is taken up and the next one submitted; when
\* none is pending the pool is shut down.
Harvests(k) ==
  LET after == [j \in criteria |-> IF j = k THEN "kept"
                                   ELSE IF j \in NextSubmitted THEN "queued"
                                   ELSE task[j]]
  IN  /\ stage = "pool" /\ task[k] \in {"object", "value"}
      /\ Holds({k}, task[k])
      /\ task' = after
      /\ stage' = IF \A j \in criteria : after[j] = "kept" THEN "merge" ELSE stage
      /\ UNCHANGED <<criteria, call, raising, spent, outcome>>

\* Variant: the failure is noted and the others are waited for.
HarvestsFailureOnly(k) ==
  /\ stage = "pool" /\ task[k] = "raised"
  /\ task' = [task EXCEPT ![k] = "dropped"]
  /\ UNCHANGED <<criteria, stage, call, raising, held, spent, outcome>>

\* One that has raised ends the pool: what no thread has taken is cancelled, and
\* what has finished or still will is not looked at any more.
HarvestsFailure(k) ==
  /\ stage = "pool" /\ task[k] = "raised"
  /\ stage' = "drain"
  /\ task' = [j \in criteria |->
                IF task[j] \in Finished \union {"queued"} THEN "dropped"
                ELSE task[j]]
  /\ UNCHANGED <<criteria, call, raising, held, spent, outcome>>

\* Variant: the pool is shut down without waiting for its threads.
DrainedAtOnce == TRUE

\* shutdown(wait=True).
Drained == \A k \in criteria : task[k] # "running"

\* What is missing is made again, one criterion after the other.
FallsBack ==
  /\ stage = "drain" /\ Drained
  /\ Asks("alone") /\ Spend({Min(Remaining)})
  /\ UNCHANGED <<criteria, raising, held, task, outcome>>

\* Variant: only what had failed or was pending is made again.
LeftToMakeFailed(k) == {j \in Remaining \ {k} : task[j] # "waiting"}

LeftToMake(k) == Remaining \ {k}

\* The main thread has made chunk k.
ChunkEnds ==
  \E r \in {"object", "value"} :
    LET k == Min(Remaining)
    IN  /\ stage = "alone" /\ Ends(main, r)
        /\ Holds({k}, r)
        /\ IF LeftToMake(k) = {} THEN Goes("merge") /\ UNCHANGED spent
           ELSE Asks("alone") /\ Spend({Min(LeftToMake(k))})
        /\ UNCHANGED <<criteria, raising, task, outcome>>

\* _merge_test_plan_chunks and build_verification_plan raise on a part that is
\* missing or no object: all the requests have been made by then.
Merges ==
  /\ stage = "merge"
  /\ Over(IF sound /\ Remaining = {} THEN "by one" ELSE "raised")
  /\ UNCHANGED <<criteria, raising, held, task, spent>>

-----------------------------------------------------------------------------
(* The threads of the pool: _build_test_plan_chunk.                        *)

Takes(k) ==
  /\ task[k] = "queued"
  /\ task' = [task EXCEPT ![k] = "running"]
  /\ call' = [call EXCEPT ![k] = "first"]
  /\ Spend({k})
  /\ UNCHANGED <<criteria, stage, raising, held, outcome>>

WorkerEnds(k) ==
  \E r \in Finished :
    /\ task[k] = "running" /\ Ends(k, r)
    /\ task' = [task EXCEPT ![k] = r]
    /\ call' = [call EXCEPT ![k] = "none"]
    /\ UNCHANGED <<criteria, stage, raising, held, spent, outcome>>

-----------------------------------------------------------------------------
\* _select_planning_mode: the workflow, or what the summary asks for, decides
\* for the committee or for one model.
Init ==
  /\ \E n \in Counts : criteria = 1..n
  /\ stage \in {"repo", "plan"}
  /\ call = [t \in Threads |-> IF t = main THEN "first" ELSE "none"]
  /\ raising = FALSE
  /\ made = {} /\ sound = TRUE
  /\ task = [k \in criteria |-> "waiting"]
  /\ spent = [k \in criteria |-> 0]
  /\ outcome = "none"

Main ==
  \/ AsksAgain(main) \/ RoleEnds \/ MergerEnds \/ Raises \/ PlanEnds
  \/ OverviewEnds \/ FallsBack \/ ChunkEnds \/ Merges
  \/ \E k \in criteria : Harvests(k) \/ HarvestsFailure(k)

Worker(k) == Takes(k) \/ AsksAgain(k) \/ WorkerEnds(k)

Next == Main \/ \E k \in criteria : Worker(k)

Spec == Init /\ [][Next]_vars

\* Every call of a model has a timeout, so every thread goes on.
FairSpec ==
  Spec /\ WF_vars(Main) /\ \A k \in UNION {1..n : n \in Counts} :
                              WF_vars(k \in criteria /\ Worker(k))

-----------------------------------------------------------------------------
(* Properties.                                                             *)

\* The state is well formed, and no more futures are pending than the pool has
\* threads: a submitted criterion never waits behind another.
TypeOK ==
  /\ raising \in BOOLEAN /\ sound \in BOOLEAN
  /\ stage \in Roles \union {"merger", "plan", "overview", "pool", "drain",
                             "alone", "merge", "over"}
  /\ call \in [Threads -> Calls \union {"none"}]
  /\ made \subseteq criteria
  /\ task \in [criteria -> Finished \union
                             {"waiting", "queued", "running", "kept", "dropped"}]
  /\ outcome \in {"none", "by committee", "by one", "raised"}
  /\ Cardinality({k \in criteria :
                     task[k] \in Finished \union {"queued", "running"}})
       <= Parallelism

\* When planning has ended no call of a model is running, and while chunks are
\* made one by one there is only the one: a thread of the pool that a failure
\* elsewhere has left behind does not go on reading the workspace and spending.
NobodyLeft ==
  /\ stage = "over" => \A t \in Threads : call[t] = "none"
  /\ stage \in {"alone", "merge"} => \A k \in criteria : call[k] = "none"

\* A failure in the pool alone never costs a criterion its chunk: when the chunks
\* are merged every criterion has one, whichever of them had failed, finished
\* unseen, been cancelled or not even been submitted.
EveryCriterionHasItsChunk ==
  stage = "merge" \/ outcome = "by one" => Remaining = {}

\* The retries of a request do not add up: a criterion costs at most four calls
\* of the model, and four more when the pool has failed.
CallsAreBounded ==
  \A k \in criteria :
    spent[k] <= IF \E j \in criteria : task[j] = "dropped" THEN 8 ELSE 4

\* build_artifacts returns or raises, whatever the models answer and whichever
\* threads fail: the thread of the bot it runs in comes back.
PlanningEnds == <>(stage = "over")

=============================================================================
