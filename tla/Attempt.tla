------------------------------ MODULE Attempt -------------------------------
(***************************************************************************)
(* The attempts at one issue, one after the other: execute_run of          *)
(* app/pipeline.py with the candidates it runs side by side, the checks    *)
(* and the review each of them passes, the choice of a winner, the commit, *)
(* the push and the pull request.                                          *)
(*                                                                         *)
(* IssueRuntime tells when a run starts and who writes the issue's status; *)
(* this module tells what a run does with the working copies.  The primary *)
(* candidate works in the copy of the issue, which all attempts share; a   *)
(* second candidate has a copy and a branch of its own in every attempt.   *)
(* A working copy is the set of changes it holds.  The agent writes in it, *)
(* and so do the commands of the workflow and the fast repair checks,      *)
(* which are shell commands; the code reads it when it lists the changed   *)
(* files, before it runs those commands, and when it commits.              *)
(***************************************************************************)
EXTENDS Naturals, FiniteSets

CONSTANTS
  Lanes,        \* candidate_decision.json: the candidates it may name, by attempt
  Parallel,     \* the values candidate_mode.max_parallel_editors may have
  Populated,    \* whether the repository on GitHub has commits at first
  MaxReplans,   \* replanning.max_replans_per_issue
  Workflows,    \* the sets of required_artifacts a WORKFLOW.md may list
  MaxAttempts,  \* bound: attempts
  Reverting,    \* bound: who may undo what the copy held, of "agent", "command", "left"
  MaxChanges,   \* bound: changes in the copies or approved
  MaxFaults     \* bound: calls that raise or never return, processes left behind that write

ASSUME AttemptAssumption ==
  /\ \A a \in 1..MaxAttempts :
       /\ Lanes[a] # {}
       /\ \A lane \in Lanes[a] : "primary" \in lane /\ lane \subseteq {"primary", "alt1"}
  /\ Parallel \union {MaxAttempts} \subseteq Nat \ {0}
  /\ Parallel # {} /\ Populated # {} /\ Populated \subseteq BOOLEAN
  /\ {MaxReplans, MaxChanges, MaxFaults} \subseteq Nat

VARIABLES
  attempt,    \* current_attempt.txt, 0 before the first
  stage,      \* the await at which execute_run stands
  pc,         \* where the task of each candidate stands
  slots,      \* the value of the semaphore its attempt was given
  sessions,   \* coding sessions a candidate has had; two means a handoff
  seen,       \* changed_files of its last session
  result,     \* its CandidateExecutionResult: success or the state to report
  hung,       \* tasks whose call never returns; NoTask is the run itself
  populated,  \* the repository on GitHub has commits
  branch,     \* where the branch of each working copy is
  dirty,      \* uncommitted changes of each working copy
  commits,    \* changes committed on its branch
  remote,     \* changes pushed to that branch
  openPrs,    \* branches with an open pull request
  manifest,   \* attempt_manifest.json of this attempt: status
  winners,    \* attempt_manifest.json of each attempt: winner_candidate_id
  views,      \* the session whose artifacts are in views/ and latest/
  summary,    \* final_summary.json of the run
  status,     \* meta.json: status
  replans,    \* meta.json: replan_count
  faults,     \* what remains of MaxFaults
  approved,   \* history: changes listed for a review that has approved
  held,       \* history: the copy of a candidate when its review approved
  disturbed   \* history: copies written to by what was not awaited any more

control == <<attempt, stage, pc, slots>>
candidate == <<sessions, seen, result, hung>>
git == <<populated, branch, dirty, commits, remote>>
artifacts == <<manifest, winners, views, summary>>
history == <<approved, held, disturbed>>
vars == <<control, candidate, git, openPrs, artifacts, status, replans,
          faults, history>>

Attempts == 1..MaxAttempts
Task == Attempts \X {"primary", "alt1"}
Copy == {<<0, "primary">>} \union (Attempts \X {"alt1"})

\* What the agent changed in one of its sessions, what the commands after the
\* sessions changed, or what a process left behind did (session 0).
Change == [by : Task, session : Nat, how : {"agent", "command", "left"}]

\* _prepare_candidate_workspace: the primary candidate gets the copy of the
\* issue, another one a copy named after the attempt and the candidate.
CopyOf(t) == IF t[2] = "primary" THEN <<0, "primary">> ELSE t

Working == {"session", "commands", "repair", "verify", "review"}
TaskPc == {"off", "queued", "risky", "done", "raised"} \union Working
Stage == {"idle", "prepare", "prepared", "candidates", "gate", "commit", "push", "propose",
          "publish", "report"}
NoTask == <<0, "primary">>
IssueState == {"Ready", "In Progress", "Human Review", "Rework", "Blocked"}

TypeOK ==
  /\ attempt \in 0..MaxAttempts
  /\ stage \in Stage
  /\ pc \in [Task -> TaskPc]
  /\ slots \in [Attempts -> Nat]
  /\ sessions \in [Task -> Nat]
  /\ seen \in [Task -> SUBSET Change]
  /\ result \in [Task -> {"", "success"} \union IssueState]
  /\ hung \subseteq Task \union {NoTask}
  /\ populated \in BOOLEAN
  /\ branch \in [Copy -> {"none", "own", "mirror", "pruned"}]
  /\ {dirty, commits, remote} \subseteq [Copy -> SUBSET Change]
  /\ openPrs \subseteq Copy
  /\ manifest \in {"", "running", "winner_selected", "completed", "failed"}
  /\ winners \in [Attempts -> Task \union {NoTask}]
  /\ views.of \in Task \union {NoTask}
  /\ summary \in {"", "success", "failure"}
  /\ status \in IssueState
  /\ replans \in Nat
  /\ faults \in 0..MaxFaults
  /\ approved \subseteq Change
  /\ held \in [Task -> SUBSET Change]
  /\ disturbed \subseteq Copy

Init ==
  /\ attempt = 0
  /\ stage = "idle"
  /\ pc = [t \in Task |-> "off"]
  /\ slots = [a \in Attempts |-> 0]
  /\ sessions = [t \in Task |-> 0]
  /\ seen = [t \in Task |-> {}]
  /\ result = [t \in Task |-> ""]
  /\ hung = {}
  /\ populated \in Populated
  /\ branch = [w \in Copy |-> "none"]
  /\ dirty = [w \in Copy |-> {}]
  /\ commits = [w \in Copy |-> {}]
  /\ remote = [w \in Copy |-> {}]
  /\ openPrs = {}
  /\ manifest = ""
  /\ winners = [a \in Attempts |-> NoTask]
  /\ views = [of |-> NoTask, session |-> 0]
  /\ summary = ""
  /\ status = "Ready"
  /\ replans = 0
  /\ faults = MaxFaults
  /\ approved = {}
  /\ held = [t \in Task |-> {}]
  /\ disturbed = {}

SpendFault == faults > 0 /\ faults' = faults - 1

-----------------------------------------------------------------------------
(* The run opens *)

Ended(t) == pc[t] \in {"done", "raised"}

\* The run is over with no more said: the queue puts the issue to Rework.
RunStops == stage' = "idle" /\ status' = "Rework"

\* execute_run up to the preparation of the workspace.  The issue has been
\* dispatched: people may have sent it back from any state, and the tick has
\* seen no registered process.  What the tasks that ended held is gone.
AttemptStarts ==
  /\ stage = "idle"
  /\ attempt < MaxAttempts
  /\ \A t \in Task : pc[t] # "session"
  /\ attempt' = attempt + 1
  /\ stage' = "prepare"
  /\ status' = "In Progress"
  /\ summary' = ""
  /\ manifest' = ""
  /\ pc' = [t \in Task |-> IF Ended(t) THEN "off" ELSE pc[t]]
  /\ seen' = [t \in Task |-> IF Ended(t) THEN {} ELSE seen[t]]
  /\ held' = [t \in Task |-> IF Ended(t) THEN {} ELSE held[t]]
  /\ result' = [t \in Task |-> ""]
  /\ sessions' = [t \in Task |-> IF Ended(t) /\ t # views.of THEN 0 ELSE sessions[t]]
  /\ slots' = [a \in Attempts |-> IF \E t \in Task : t[1] = a /\ pc'[t] # "off"
                                  THEN slots[a] ELSE 0]
  /\ UNCHANGED <<git, openPrs, winners, views, replans, faults, hung, approved, disturbed>>

\* _ensure_mirror: the fetch of the shared bare mirror prunes the branches that
\* GitHub does not have, also one on which a working copy stands.
Fetched == [w \in Copy |-> IF branch[w] = "mirror" /\ remote[w] = {} THEN "pruned"
                           ELSE branch[w]]

\* prepare, prepare_attempt_candidate_workspace: a copy is a worktree of the
\* mirror, or a repository of its own while there is nothing to mirror; it is
\* made once and found again later.
Prepared(w) == [Fetched EXCEPT ![w] = IF @ # "none" THEN @
                                      ELSE IF populated THEN "mirror" ELSE "own"]

\* The copy of the issue is prepared and the manifest written.  A copy whose
\* branch is pruned has no HEAD to ask for: rev-parse fails.
PrimaryPrepared ==
  LET w == CopyOf(<<attempt, "primary">>)
  IN /\ stage = "prepare"
     /\ branch' = Prepared(w)
     /\ IF branch'[w] = "pruned"
        THEN RunStops /\ UNCHANGED manifest
        ELSE stage' = "prepared" /\ manifest' = "running" /\ UNCHANGED status
  /\ UNCHANGED <<attempt, pc, slots, candidate, populated, dirty, commits, remote, openPrs,
                 winners, views, summary, replans, faults, history>>

\* The second candidate gets its copy, the semaphore its value
\* (_candidate_parallelism: one candidate needs one slot), and the tasks start.
\* Whether the workflow has a high-risk command is the same for all of them.
CandidatesStart ==
  /\ stage = "prepared"
  /\ \E lane \in Lanes[attempt], first \in {"queued", "risky"}, n \in Parallel :
       /\ pc' = [t \in Task |-> IF t[1] = attempt /\ t[2] \in lane THEN first ELSE pc[t]]
       /\ slots' = [slots EXCEPT ![attempt] = IF n < Cardinality(lane) THEN n
                                              ELSE Cardinality(lane)]
       /\ branch' = IF "alt1" \in lane THEN Prepared(<<attempt, "alt1">>) ELSE branch
  /\ stage' = "candidates"
  /\ UNCHANGED <<attempt, candidate, populated, dirty, commits, remote, openPrs, artifacts,
                 status, replans, faults, history>>

\* A run of another issue of the repository prepares its own copy.
OtherIssuePrepares ==
  /\ branch' = Fetched
  /\ branch' # branch
  /\ UNCHANGED <<control, candidate, populated, dirty, commits, remote, openPrs, artifacts,
                 status, replans, faults, history>>

-----------------------------------------------------------------------------
(* A candidate: _execute_candidate *)

Peers(t) == {u \in Task : u[1] = t[1]}

\* Variant: a task that returned keeps its slot.
SlotKept(t) ==
  /\ Cardinality({u \in Peers(t) : pc[u] \in Working \union {"done"}}) < slots[t[1]]
  /\ t[2] # "primary" => pc[<<t[1], "primary">>] \notin {"queued", "risky"}

\* The semaphore of its run, which serves the candidates in their order.
SlotFree(t) ==
  /\ Cardinality({u \in Peers(t) : pc[u] \in Working}) < slots[t[1]]
  /\ t[2] # "primary" => pc[<<t[1], "primary">>] \notin {"queued", "risky"}

Goes(t, next) == pc' = [pc EXCEPT ![t] = next]
Returns(t, r) == /\ Goes(t, "done")
                 /\ result' = [result EXCEPT ![t] = r]

TaskUnchanged == UNCHANGED <<attempt, stage, slots, hung, openPrs, populated, branch, commits,
                             remote, artifacts, status, faults>>

\* _preflight_workflow_policy comes before the first session.
CandidateBegins(t) ==
  /\ pc[t] \in {"queued", "risky"}
  /\ SlotFree(t)
  /\ IF pc[t] = "risky"
     THEN Returns(t, "Human Review")
     ELSE Goes(t, "session") /\ UNCHANGED result
  /\ TaskUnchanged
  /\ UNCHANGED <<sessions, seen, dirty, replans, history>>

\* The agent or a command adds to its copy, leaves it as it is, or reverts it.
Known == approved \union UNION {dirty[w] \union commits[w] : w \in Copy}
Edits(t, how) ==
  LET was == dirty[CopyOf(t)]
      new == [by |-> t, session |-> IF how = "agent" THEN sessions[t] + 1 ELSE 0, how |-> how]
  IN {tree \in {was, {}, was \union {new}} :
        /\ tree = {} => was = {} \/ how \in Reverting
        /\ tree # was => tree = {} \/ Cardinality(Known \union {new}) <= MaxChanges}

RunIsOver(t) == t[1] # attempt \/ stage # "candidates"

\* A call of the task leaves its copy with the changes in tree.
Leaves(t, tree) ==
  /\ dirty' = [dirty EXCEPT ![CopyOf(t)] = tree]
  /\ disturbed' = IF RunIsOver(t) /\ tree # dirty[CopyOf(t)] THEN disturbed \union {CopyOf(t)}
                  ELSE disturbed

\* codex_runner.run returns; the changed files are listed at once.
SessionEnds(t) ==
  /\ pc[t] = "session"
  /\ \E tree \in Edits(t, "agent") :
       /\ Leaves(t, tree)
       /\ seen' = [seen EXCEPT ![t] = tree]
  /\ sessions' = [sessions EXCEPT ![t] = @ + 1]
  /\ \/ Goes(t, "commands") /\ UNCHANGED result
     \/ Returns(t, "Rework")
  /\ TaskUnchanged
  /\ UNCHANGED <<replans, approved, held>>

\* execute_workflow_commands, with the workflow as the session left it, then
\* the scope of the changed files: the policy or the scope is violated, the
\* environment blocks, or the candidate goes on.  The commands (uv sync, npm
\* install, npm run build) write in the copy; the list stays as it was.
CommandsEnd(t) ==
  /\ pc[t] = "commands"
  /\ \E tree \in Edits(t, "command") : Leaves(t, tree)
  /\ \/ Returns(t, "Human Review")
     \/ Returns(t, "Blocked")
     \/ Goes(t, "repair") /\ UNCHANGED result
  /\ TaskUnchanged
  /\ UNCHANGED <<sessions, seen, replans, approved, held>>

\* Variant: what a second session made is taken to be what the first made.
RepairEndsTrusted(t) ==
  /\ pc[t] = "repair"
  /\ \E tree \in Edits(t, "command") : Leaves(t, tree)
  /\ \/ sessions[t] = 1 /\ Goes(t, "session") /\ UNCHANGED result
     \/ Goes(t, "verify") /\ UNCHANGED result
     \/ /\ sessions[t] > 1
        /\ Returns(t, "success")
  /\ TaskUnchanged
  /\ UNCHANGED <<sessions, seen, replans, approved, held>>

\* The fast repair checks, shell commands in the copy like those before.  What
\* they find goes to a second session when it is small and there was no handoff
\* yet, and is left to the hard checks otherwise.
RepairEnds(t) ==
  /\ pc[t] = "repair"
  /\ \E tree \in Edits(t, "command") : Leaves(t, tree)
  /\ \/ Returns(t, "Human Review")
     \/ sessions[t] = 1 /\ Goes(t, "session") /\ UNCHANGED result
     \/ Goes(t, "verify") /\ UNCHANGED result
  /\ TaskUnchanged
  /\ UNCHANGED <<sessions, seen, replans, approved, held>>

\* The verifier has spoken; a hard check that failed earlier counts first.
VerifyEnds(t) ==
  /\ pc[t] = "verify"
  /\ \/ Returns(t, "Rework")
     \/ Goes(t, "review") /\ UNCHANGED result
  /\ TaskUnchanged
  /\ UNCHANGED <<sessions, seen, dirty, replans, history>>

\* _maybe_write_replan_reason
CountsReplan == replans' = IF replans < MaxReplans THEN replans + 1 ELSE replans

\* The review approves or rejects; a rejection may be a reason to plan again.
\* It is shown the list of the changed files and the diff; what the commands
\* created since the list was made is in neither (README.md).
ReviewEnds(t) ==
  /\ pc[t] = "review"
  /\ \/ /\ Returns(t, "Rework")
        /\ CountsReplan \/ UNCHANGED replans
        /\ UNCHANGED <<approved, held>>
     \/ /\ Returns(t, "success")
        /\ approved' = approved \union seen[t]
        /\ held' = [held EXCEPT ![t] = dirty[CopyOf(t)]]
        /\ UNCHANGED replans
  /\ TaskUnchanged
  /\ UNCHANGED <<sessions, seen, dirty, disturbed>>

\* A call of the candidate raises.  gather raises at once and the run with
\* it; the other task is neither cancelled nor awaited.
CandidateRaises(t) ==
  /\ pc[t] \in Working
  /\ t \notin hung
  /\ SpendFault
  /\ Goes(t, "raised")
  /\ \/ UNCHANGED <<dirty, disturbed>>
     \/ pc[t] = "session" /\ \E tree \in Edits(t, "agent") : Leaves(t, tree)
     \/ pc[t] \in {"commands", "repair"} /\ \E tree \in Edits(t, "command") : Leaves(t, tree)
  /\ IF RunIsOver(t) THEN UNCHANGED <<stage, status>> ELSE RunStops
  /\ UNCHANGED <<attempt, slots, candidate, populated, branch, commits, remote, openPrs,
                 artifacts, replans, approved, held>>

\* The agent, a command of the workflow, a repair check or the review's git
\* diff never returns: _run_blocking is a bare to_thread, and subprocess.run
\* has no timeout.  The task keeps its slot.  (The calls of the verifier and
\* of the reviewer have timeouts.)
TaskHangs(t) ==
  /\ pc[t] \in {"session", "commands", "repair", "review"}
  /\ t \notin hung
  /\ SpendFault
  /\ hung' = hung \union {t}
  /\ UNCHANGED <<control, sessions, seen, result, git, openPrs, artifacts, status, replans,
                 history>>

\* An app server that its client has given up, or what a command left running,
\* writes in the copy beside what comes after it (see AgentRun).
LeftBehindWrites(t) ==
  /\ pc[t] \in (Working \ {"session"}) \union {"done", "raised"}
  /\ SpendFault
  /\ \E tree \in Edits(t, "left") : dirty' = [dirty EXCEPT ![CopyOf(t)] = tree]
  /\ disturbed' = disturbed \union {CopyOf(t)}
  /\ UNCHANGED <<control, candidate, populated, branch, commits, remote, openPrs, artifacts,
                 status, replans, approved, held>>

-----------------------------------------------------------------------------
(* The winner *)

Candidates == {t \in Task : t[1] = attempt /\ pc[t] # "off"}
Successful == {t \in Candidates : result[t] = "success"}
Winner == winners[attempt]

\* _select_candidate_result: one success wins whether eligible or not; of
\* several the first by rank among the eligible does, and which ones are
\* eligible and how they rank is left open here (see Selection).
Selectable(eligible) ==
  IF Cardinality(Successful) = 1 THEN Successful ELSE Successful \intersect eligible

Closes(s, w) == manifest' = s /\ winners' = [winners EXCEPT ![attempt] = w]

\* Variant: the state and the failure type are swapped.
FinalizesSwapped(state) ==
  /\ stage' = "report"
  /\ status' = "failure"
  /\ summary' = state

\* Variant: a failure leaves final_summary.json as it was.
FinalizesQuietly(state) ==
  /\ stage' = "report"
  /\ status' = state
  /\ UNCHANGED summary

\* _finalize_failure, up to its await.
Finalizes(state) ==
  /\ stage' = "report"
  /\ status' = state
  /\ summary' = "failure"

\* Variant: a second candidate is waited for that was never started.
BothReturned ==
  stage = "candidates" /\ \A c \in {"primary", "alt1"} : pc[<<attempt, c>>] = "done"

\* gather has all results.
AllReturned == stage = "candidates" /\ \A t \in Candidates : pc[t] = "done"

\* No winner: the first candidate's failure is the run's.
AllFail ==
  /\ AllReturned
  /\ Successful = {}
  /\ Closes("failed", NoTask)
  /\ Finalizes(result[<<attempt, "primary">>])
  /\ UNCHANGED <<attempt, pc, slots, candidate, git, openPrs, views, replans,
                 faults, history>>

\* select_winner raises when several succeed and none is eligible.
SelectionRaises ==
  /\ AllReturned
  /\ Successful # {}
  /\ Selectable({}) = {}
  /\ RunStops
  /\ UNCHANGED <<attempt, pc, slots, candidate, git, openPrs, artifacts, replans,
                 faults, history>>

\* The names execute_run says are there, written down in the source.
Available == {"issue_snapshot.json", "requirement_summary.json", "plan.json",
              "test_plan.json", "verification_plan.json", "changed_files.json",
              "implementation_result.json", "review_result.json",
              "review_findings.json", "verification_result.json",
              "verification.json", "final_summary.json", "run.log",
              "workpad_updates.jsonl", "runner_metadata.json",
              "incident_bundle_manifest.json", "incident_bundle_summary.md"}

\* evaluate_proof_of_work
ProofComplete(required) == required \subseteq Available

Removed(w) == {CopyOf(t) : t \in {u \in Candidates : u # w /\ u[2] # "primary"}}

\* Variant: the first successful candidate is promoted, whoever won.
PromotedFirst(w) == IF <<attempt, "primary">> \in Successful THEN <<attempt, "primary">> ELSE w

\* _promote_candidate_result
Promoted(w) == w

\* A winner: its artifacts are promoted and the copies of the losers removed.
WinnerPromoted ==
  /\ AllReturned
  /\ \E w \in Selectable(Successful) :
       /\ Closes("winner_selected", w)
       /\ views' = [of |-> Promoted(w), session |-> sessions[Promoted(w)]]
       /\ dirty' = [c \in Copy |-> IF c \in Removed(w) THEN {} ELSE dirty[c]]
  /\ stage' = "gate"
  /\ UNCHANGED <<attempt, pc, slots, candidate, populated, branch, commits, remote, openPrs,
                 summary, status, replans, faults, history>>

\* The channel has been told.  Success is written ahead in the artifacts of the
\* run, and the proof of work decides.
ProofDecides ==
  /\ stage = "gate"
  /\ \E required \in Workflows :
       \/ /\ ProofComplete(required)
          /\ stage' = "commit"
          /\ summary' = "success"
          /\ UNCHANGED <<manifest, winners, status>>
       \/ /\ ~ProofComplete(required)
          /\ Closes("failed", Winner)
          /\ Finalizes("Rework")
  /\ UNCHANGED <<attempt, pc, slots, candidate, git, openPrs, views, replans, faults,
                 history>>

-----------------------------------------------------------------------------
(* Commit, push, pull request *)

WinnerCopy == CopyOf(Winner)

\* Variant: the manifest is completed when the commit is made.
CompletesEarly ==
  /\ stage = "commit"
  /\ Closes("completed", Winner)
  /\ commits' = [commits EXCEPT ![WinnerCopy] = @ \union dirty[WinnerCopy]]
  /\ dirty' = [dirty EXCEPT ![WinnerCopy] = {}]
  /\ stage' = "push"
  /\ UNCHANGED <<attempt, pc, slots, candidate, populated, branch, remote, openPrs, views, replans,
                 faults, history, summary, status>>

\* _commit_and_push looks whether there is anything to commit, and commits
\* all there is.
CommitMade ==
  /\ stage = "commit"
  /\ IF dirty[WinnerCopy] = {} /\ branch[WinnerCopy] # "pruned"
     THEN /\ Closes("failed", Winner)
          /\ Finalizes("Rework")
          /\ UNCHANGED <<dirty, commits>>
     ELSE /\ commits' = [commits EXCEPT ![WinnerCopy] = @ \union dirty[WinnerCopy]]
          /\ dirty' = [dirty EXCEPT ![WinnerCopy] = {}]
          /\ stage' = "push"
          /\ UNCHANGED <<manifest, winners, summary, status>>
  /\ UNCHANGED <<attempt, pc, slots, candidate, populated, branch, remote, openPrs, views, replans,
                 faults, history>>

\* The push sends all commits of the branch.  Git refuses to push a branch from
\* a worktree of the mirror: "--mirror can't be combined with refspecs".
Pushed ==
  /\ stage = "push"
  /\ IF branch[WinnerCopy] = "own"
     THEN /\ remote' = [remote EXCEPT ![WinnerCopy] = commits[WinnerCopy]]
          /\ populated' = TRUE
          /\ stage' = "propose"
          /\ UNCHANGED status
     ELSE RunStops /\ UNCHANGED <<remote, populated>>
  /\ UNCHANGED <<attempt, pc, slots, candidate, branch, dirty, commits, openPrs, artifacts,
                 replans, faults, history>>

\* create_pull_request.  GitHub refuses a second pull request for a branch,
\* and the refusal raises.
Proposed ==
  /\ stage = "propose"
  /\ IF WinnerCopy \in openPrs
     THEN RunStops /\ UNCHANGED openPrs
     ELSE /\ openPrs' = openPrs \union {WinnerCopy}
          /\ stage' = "publish"
          /\ UNCHANGED status
  /\ UNCHANGED <<attempt, pc, slots, candidate, git, artifacts, replans, faults,
                 history>>

\* Ready for review, commented, and everything says so.
Completed ==
  /\ stage = "publish"
  /\ Closes("completed", Winner)
  /\ summary' = "success"
  /\ status' = "Human Review"
  /\ stage' = "report"
  /\ UNCHANGED <<attempt, pc, slots, candidate, git, openPrs, views, replans,
                 faults, history>>

\* The last await: the Project and the workpad are told.
Reported ==
  /\ stage = "report"
  /\ stage' = "idle"
  /\ UNCHANGED <<attempt, pc, slots, candidate, git, openPrs, artifacts, status, replans,
                 faults, history>>

\* A call of the run itself raises.
RunRaises ==
  /\ stage \in Stage \ {"idle", "candidates"}
  /\ NoTask \notin hung
  /\ SpendFault
  /\ RunStops
  /\ UNCHANGED <<attempt, pc, slots, candidate, git, openPrs, artifacts, replans, history>>

\* Git never returns: its calls have no timeout.  (Those to GitHub have one.)
RunHangs ==
  /\ stage \in {"prepare", "prepared", "commit", "push"}
  /\ NoTask \notin hung
  /\ SpendFault
  /\ hung' = hung \union {NoTask}
  /\ UNCHANGED <<control, sessions, seen, result, git, openPrs, artifacts, status, replans,
                 history>>

\* People close a pull request they send back.
PullRequestCloses ==
  /\ stage = "idle"
  /\ openPrs # {}
  /\ \E w \in openPrs : openPrs' = openPrs \ {w}
  /\ UNCHANGED <<control, candidate, git, artifacts, status, replans, faults,
                 history>>

-----------------------------------------------------------------------------
(* The system *)

CandidateStep(t) ==
  /\ t \notin hung
  /\ \/ CandidateBegins(t)
     \/ SessionEnds(t)
     \/ CommandsEnd(t)
     \/ RepairEnds(t)
     \/ VerifyEnds(t)
     \/ ReviewEnds(t)

RunStep ==
  /\ NoTask \notin hung
  /\ \/ PrimaryPrepared
     \/ CandidatesStart
     \/ AllFail
     \/ SelectionRaises
     \/ WinnerPromoted
     \/ ProofDecides
     \/ CommitMade
     \/ Pushed
     \/ Proposed
     \/ Completed
     \/ Reported

Next ==
  \/ AttemptStarts
  \/ \E t \in Task : \/ CandidateStep(t)
                   \/ CandidateRaises(t)
                   \/ TaskHangs(t)
                   \/ LeftBehindWrites(t)
  \/ RunStep
  \/ RunRaises
  \/ RunHangs
  \/ PullRequestCloses
  \/ OtherIssuePrepares

Spec == Init /\ [][Next]_vars

\* A task whose call returns goes on, and so does the run: the event loop is
\* fair.  A call that never returns is TaskHangs or RunHangs.
Fairness == WF_vars(RunStep) /\ \A t \in Task : WF_vars(CandidateStep(t))
FairSpec == Spec /\ Fairness

-----------------------------------------------------------------------------
(* What holds *)

\* What an agent wrote is pushed only if it was listed for a review that has
\* approved, over all attempts, with handoffs, rejected work left in the copy of
\* the issue, commits whose push failed.  What is pushed beside that was written
\* by the commands of a candidate that won.  Copies are left out in which
\* something wrote that the run did not wait for any more.
ShippedWasListed ==
  \A w \in Copy \ disturbed : \A c \in remote[w] :
    c \in approved \/ (c.how = "command" /\ c.by = winners[c.by[1]])

\* A completed attempt has delivered what its copy held when the review
\* approved: the copy is clean and its changes are on the branch of the pull
\* request.
CompletedIsDelivered ==
  LET w == WinnerCopy
  IN manifest = "completed" /\ w \notin disturbed
       => dirty[w] = {} /\ held[Winner] \subseteq remote[w]

\* views/ and latest/ show the last session of the candidate that won the
\* last attempt that had a winner, and of no other (docs/ARCHITECTURE.md:180).
ViewsFollowWinner ==
  LET won == {a \in Attempts : winners[a] # NoTask}
  IN won # {} =>
       LET last == CHOOSE a \in won : \A b \in won : b <= a
       IN views = [of |-> winners[last], session |-> sessions[winners[last]]]

\* When the manifest of an attempt is settled, final_summary.json agrees with
\* it, although success was written ahead of the gate, the push and the pull
\* request; and a failure never leaves the issue In Progress.
SettledAgrees ==
  manifest \in {"completed", "failed"} =>
    /\ summary = (IF manifest = "completed" THEN "success" ELSE "failure")
    /\ status # "In Progress"

\* The replans of an issue stay within the limit, also when two candidates of
\* one attempt are rejected.
ReplansBounded == replans <= MaxReplans

\* A candidate is handed over once in an attempt.
OneHandoff == \A t \in Task : sessions[t] <= 2

\* The second candidate, which may have to wait for the semaphore, has its turn
\* and ends, also when its run has ended while it waited; unless a call of its
\* own never returns, or one of the primary candidate that has the only slot.
SecondCandidateEnds ==
  \A a \in Attempts :
    []<>\/ pc[<<a, "alt1">>] \in {"off", "done", "raised"}
        \/ <<a, "alt1">> \in hung
        \/ <<a, "primary">> \in hung /\ slots[a] = 1

\* Every attempt comes to an end, unless a call of the run itself never returns,
\* or one of a candidate that the run waits for.
EveryAttemptEnds ==
  []<>\/ stage = "idle"
      \/ NoTask \in hung
      \/ stage = "candidates" /\ Candidates \intersect hung # {}

-----------------------------------------------------------------------------
(* What the documents say and the code does not do *)

\* README.md:134: issues share the bare mirror, and the executions are kept
\* apart by the worktrees.  A working copy does not lose its branch to the
\* preparation of another one.
WorktreesAreSeparate ==
  [][\A w \in Copy : branch[w] = "mirror" => branch'[w] = "mirror"]_vars

\* pipeline.py:507: a winner is refused because artifacts of the proof of
\* work are missing, that is, some that the run has not written.  Spec does not
\* have this property with the repository's own WORKFLOW.md (README.md).
Written == Available \union {"repair_feedback.json", "review_decision.json",
                             "postable_findings.json"}
GateRefuses == stage = "gate" /\ manifest' = "failed"
RefusedForLack ==
  [][GateRefuses => \E required \in Workflows : ~(required \subseteq Written)]_vars

\* Nothing is pushed that was not before the review.  Spec does not have this
\* property: what the commands write after the changed files are listed is
\* committed as well (README.md).
ShippedWasReviewed == \A w \in Copy \ disturbed : remote[w] \subseteq approved
=============================================================================
