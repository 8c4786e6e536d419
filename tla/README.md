# dev-bot: a TLA+ model

dev-bot is a Discord bot that turns a conversation into a GitHub issue, plans
it with language-model agents, and then works on it: a scheduler watches a
GitHub Project, starts runs of coding agents, verifies and pushes what they
produce, opens a pull request, waits for people, and merges. This directory
holds TLA+ modules of its core, the TLC configurations that check them and
proofs checked by TLAPS. File names without a directory are under `app/` of
the repository.

## Inventory

| Component | State it keeps | Operations | Talks to |
|---|---|---|---|
| Run queue, `orchestrator.py` | asyncio queue, four index sets and maps, dispatcher task, run tasks | `enqueue`, `restore`, `is_running`, `is_queued`, `active_count`, `drain`, the dispatch loop, `_run_item` | state store, executor |
| Issue scheduler, `issue_scheduler.py` | scheduler task, tick lock | `scheduler_tick`, `sync_project_board_state`, `_dispatch_issue_if_ready`, `restore_pending_runs` | GitHub client, run queue, process registry, state store |
| Pipeline, `pipeline.py` | none of its own; files of attempt, run and candidate | `execute_run`, `_execute_candidates`, `_finalize_failure`, `abort` | everything |
| Process registry, `process_registry.py` | one JSON file of records per issue | `register`, `unregister`, `terminate`, `is_active` | the operating system |
| Discord adapter, `discord_adapter.py` | clients and caches | commands, `on_ready`, merge, reconciliation, plan promotion | all the above |
| State store, `state_store.py` | `meta.json`, artifacts, bindings, counters | `update_meta`, `bind_thread`, `bind_issue`, `create_attempt` ... | the file system |
| Approvals, `approvals.py` | a future per thread, `pending_approval.json` | `create_request`, `wait_for_resolution`, `resolve` | state store |
| Agent runners, `runners/` | child process, reader task, pending requests | `run`, turns, fallback from app server to exec | process registry |
| GitHub client, `github_client.py` | token and field caches | REST and GraphQL calls | GitHub |
| Planning and requirements agents | sessions | committee roles, gates, questions | Claude SDK |
| Workspace manager, containers, hooks | working copies | `prepare`, clean-up | git, Docker |
| Workflow, contracts, profiles, review, telemetry, presentation | none | pure functions and I/O | |

What is hard in this program: one asyncio event loop interleaves the
scheduler, every run, every command and the reconnection of Discord at each
`await`, and calls to GitHub run in worker threads between them; the same two
facts, an issue's local status and its card on the Project, are written by
five parties that do not lock each other out; copies of them are read before an
await and used after it; agents are processes that outlive the bot, on file in a
record that several threads rewrite; a pool of requests to models fails in the
middle; calls fail between two writes that belong together. PROJECT.json lists these as
hazards, each at its line, with the properties that watch them.

What makes each component correct:

- *Run queue*: a key is in flight once; never more runs than the limit; the
  index sets agree with what waits and runs; every accepted request runs.
- *Scheduler, pipeline, registry, adapter together*: one agent at a time works
  on an issue; a finished issue stays finished; an issue is neither left In
  Progress with nobody behind it nor overlooked when its card asks for a run;
  an abort holds.
- *Pipeline, workspace manager, candidate policy*: what an agent wrote is pushed
  after a review of its files; what is said to be completed has been delivered; the shown artifacts
  are the winner's; the better of two candidates wins; limits on replans and
  handoffs hold; every attempt ends.
- *Adapter, store, GitHub client around one thread*: a thread has one issue and
  keeps it; what is let through to a run was approved; a thread is shown as being planned
  only while it is.
- *Registry and runners*: who is at work is on file; a call that returned has no
  agent behind it; an issue is freed only when no agent works; a call returns and its
  record goes.
- *Planning agents*: no criterion loses its chunk; no thread is left behind; the
  retries do not multiply; planning ends.

## Plan

1. `Orchestrator` with its abstraction `RunService`, and the proofs. Done.
2. `IssueRuntime`: the composition around one issue, on top of `RunService`. Done.
3. `Attempt`: the attempts of one issue and their candidates, and the proofs. Done.
4. `Conversation`: a thread from its first message to the run of its issue, with
   bindings, draft, promotion; the proof about bindings. Done.
5. `AgentRun`: the app-server session, exec, the record file, abort and
   restart; the proofs about the end of a call. Done.
6. `Planning`: committee, test plan, pool, retries; the proofs. Done.
7. `Selection`: scope, review and rank of the candidates of an attempt, and the
   proofs. Done.
8. The invariants and action properties of all modules by proof. Done.
9. Open: `update_meta` with its read and its write apart; theorems under weaker
   hypotheses, where the ones below exclude more than the code's own faults.

`Approvals` was planned and is left out: `create_request` has no caller under
`app/`, so no request is ever made, and its states are not states of the program.

## Modules

### RunService

What others expect of the queue: a key is idle, accepted or active, one way
round; at most `MaxConcurrency` are active; an accepted key starts in the end.

### Orchestrator

`orchestrator.py` in full. Everything runs on one event loop, so an action is the
code between two awaits. The put on an unbounded queue never suspends, hence
`Enqueue` is one action; the dispatcher (`Begin`, `Wake`, `Dispatch`) suspends at
the `get` and in its sleep. The variables `queue`, `queuedKeys`, `queuedThreads`,
`threadKey`, `running` and `runningKeys` are the six fields of the class;
`tasks` counts the asyncio tasks that really exist per key and phase, so that the
properties compare bookkeeping with reality. `runtime` and `status` are what the
class writes on meta.json. `Finish` and `Fail` are the two ends of the executor,
whose inside is `IssueRuntime`'s affair. `restore` is a series of enqueues and has
no action of its own. `drain` (`DrainCall` to `DrainReturn`) is only called by
tests, so it belongs to `ShutdownSpec` and not to `Spec`.

### IssueRuntime

The composition: `scheduler_tick` with its listing, sync, dispatch, reconcile and
merge passes; `restore_pending_runs` behind `on_ready`; a run with the awaits of
`execute_run`; agents' processes; `/abort`, `/status`; people who move cards; the
death of the bot. The queue is an instance of `RunService`, which `Orchestrator`
is shown to implement. `local` and `runtime` are meta.json, `board` and `plan` the
Project's fields, `agents` the processes of the current run, `strays` those that
belong to no run any more (of a dead bot, or of a candidate whose sibling brought
the run down), `killed` the candidates an abort has stopped. `tick`, `boot`
and `abort` are the program counters of coroutines, with the copies they carry
over an await (`tick.view`, `tick.metas`, `boot.metas`, `boot.items`): most of what
can go wrong here is a copy that is no longer true.

Abstracted: an issue has its thread and planning artifacts and is open on
GitHub; repair turns inside a candidate are part of `work`; the reason of a
failure is only its resulting state; people use four moves of
docs/ARCHITECTURE.md (unblock, send back, send to merge, change the plan) and not
the emergency ones from any state to Blocked or Cancelled; one update of
meta.json is one step, although the file is rewritten.

### Attempt

What a run does with the working copies: `execute_run` from its preparation to
the pull request, `_execute_candidate`, the choice of a winner, `_commit_and_push`,
over several attempts at one issue. `stage` is the await at which `execute_run`
stands, `pc` where each candidate's task does; a task is an attempt and a
candidate id, because `asyncio.gather` leaves tasks behind when one raises, and
these go on into the next attempt. `dirty`, `commits` and `remote` are what a copy
holds, has committed and has pushed, as sets of changes; a change is named after
the task and the session that made it, and says how: by the agent, by the commands,
or by what was left behind. The workflow's commands (pipeline.py:3289; `uv sync`,
`npm install`, `npm run build` by default) and the fast repair checks (3368) are shell
commands in the copy; they run after the changed files are listed (1037), so
`CommandsEnd` and `RepairEnds` change `dirty` and not `seen`, and `CommitMade` takes all
there is, as `git add -A` does (3628). The primary candidate's copy is the copy of the issue and
survives from attempt to attempt (workspace_manager.py:20-77); a second
candidate's is named after the attempt. `branch` tells a copy with a repository of
its own, which the workspace manager makes while the repository on GitHub is empty,
from a worktree of the shared mirror; `Fetched` is what
`git fetch origin --prune` does in a mirror. `hung` are the tasks, and the run itself,
that stand at a call which never returns (`TaskHangs`, `RunHangs`). `approved`, `held` and
`disturbed` are history: the files listed for a review that has approved, what the
candidate's copy held at that moment, and the copies in which something has written
that no run waited for any more: a candidate that `gather` left behind, an app
server its client has given up, a process a command left running
(`LeftBehindWrites`).

Abstracted: a failure is the state it leads to; which results are eligible and how
they rank is left to `Selection`; the verdicts of commands, checks, verifier and
reviewer are inputs; a review that approves is taken to approve the files it was
listed, although it is shown less (see the observations); the edits of a session, and
those of one round of commands, show when it ends; a copy on a pruned
branch lists all files as changed, which matters only to the scope analysis, whose
verdict is an input. The review of this code only approves or rejects
(`_summarize_review_bundle`), so the repairable branch of `_execute_candidate` is
not entered. What a task that ended held is forgotten at the next attempt, which
keeps the state space small.

### Conversation

One thread of the chat, and the issue it becomes. A message or a command is a
coroutine; `handlers` is the set of those under way, each with its program counter
and with what it read before its last await (`status`, `key`, `number`, `of`).
Between two awaits nothing else happens on the event loop, hence one action per
await: `MessageTaken`, `ReplySent`, `PlanBegins`, `PlanBuilt` and so on.
`store` is the state store: the draft's record, the binding, one record per
issue; each operator on it (`Put`, `BindIssue`, `Clear`) is one of its
methods. `github` is what GitHub holds: issues, cards, State and Plan. `run` is the
way of the issue to its run and back: the tick looks at the thread (`DispatchBegins`),
the gate is asked on GitHub (`GateReads`), the answer puts the issue in the queue
(`Enqueued`), and `execute_run` loads what the thread then has (`RunLoads`) without
asking again. Messages and commands come in between, and admit or refuse
themselves by what they see of it, as `/plan` and `/revise` do by `is_running`, which is
false for a queued issue. `project` says whether there is a Project; without one an
approval puts the issue in the queue itself, with no gate. A call
that raises is `Fault`; `Crash` ends all handlers and starts the bot with its
files; the restart is `restore_pending_runs`, with its own gate.

Abstracted: requirements to the number of messages they take into account, a plan
to its number and the requirements it was drafted from; answers of the requirements
agent to the statuses and summaries they may come with; the run to its start and
its end, the rest being `IssueRuntime` and `Attempt`. `RunLoads` merges the
dispatcher's `get`, the load of the artifacts and the write of In Progress to the files
and the card; the reply of a message taken up earlier comes before all of these or
after them. A tick that runs beside the gate of a restart, and a second `on_ready` in
one process, are not in this module. The constant `Exclusive` names the handlers that a user does not let overlap. `MCConversation` gives it
`ApprovalAlone`: while an approval is under way nothing else is done in the
thread. The code does not see to this; see the observations.

### AgentRun

The agents of one attempt, below `Attempt`'s session: `CodexRunner.run` in one
thread per candidate, the client of the app server, `codex exec`, and the registry's
file. `pc` is where a thread stands (the requests it waits for, the records it
reads and writes, the wait for a completion or an exit), `server`, `turn` and
`exec` what the processes do, `heard` and `reader` what `_reader_loop` has got of
it. A call of the registry is two steps, read and write, with `copy` between; a
reader may meet a file that another has truncated. An app server belongs
to the bot's process group, an exec to one of its own, which is what
`terminate` and `is_active` go by. `Crash`, `BotDies` (the bot's group is signalled),
`Restart` and `Check` follow the issue into the next life of the bot.
`stale` is history: some call has overwritten a file that had changed since it was
read. `OnFileWhileDriven` and `FreedIsQuiet` except such files, which
the code does nothing to prevent. `RecordsGo` looks at one candidate, which has the file
to itself, and asks that its record does not outlive its call.

Abstracted: the JSON of the protocol; output; sessions' names; forks of sessions,
which no caller asks for; the shell that starts a process is taken to exec it.

### Planning

What `Conversation` sees as one step: `build_artifacts`, in a worker thread. `stage`
is where the main thread stands, `task` the future of each acceptance
criterion, `call` the request that each thread waits for. `After` is the dialogue
of one request: which answer is asked again, and how often. `Harvests` and
`HarvestsFailure` take up finished futures in any order; `Drained` is the shutdown of
the executor, `FallsBack` and `ChunkEnds` make what is missing one by one. Answers
of models, the quality gate's verdict and `legacy_fallback` are inputs.

### Selection

The choice that `Attempt` leaves open. Each candidate has sessions and checks; each
session ends with the scope of its changes (`_build_scope_analysis`, with the label
and the allowlist of the issue), a review ends with a list of findings that
decides and counts (`_summarize_review_bundle`, `_winner_input`), and `Chooses` and
`Judges` are `_select_candidate_result` and `_resolve_exact_tie_winner` on the rank of
candidate_policy.py. A pattern for paths is the set of files it matches. A tie
is two candidates, so whatever the judge says, its answer or the first remains.

Abstracted: a successful candidate has its hard checks passed and its proof
complete (the gates of `_execute_candidate` before it), so these places of the rank
are equal and left out; the reviewers, the verifier and the ranker each answer with
a list of their own, so the last list is an input, and the removal of duplicates
before it changes nothing; a session may leave any of `Policies` in WORKFLOW.md,
and the run has one.

### How they fit together

`Conversation` ends where a run starts; `IssueRuntime` holds the scheduler, runs,
commands and restarts of an issue, on the queue that `RunService` promises and
`Orchestrator` implements; `Attempt` opens its run, `AgentRun` the sessions of
that, `Selection` the choice at its end, and `Planning` the planning step of
`Conversation`. They meet at the
artifacts and statuses named in both, not by INSTANCE, except for `RunService`.

### MC modules

The MC modules name model values, the binding of keys to threads, sets of
candidates, workflows and handlers. Definitions introduced by a comment that begins
"Variant:" are plausible mistakes in the definition that follows them. No
specification uses them; they are there to see that the properties notice.

## Runs

| Run | Question | Bounds |
|---|---|---|
| `orchestrator` | queue, limit, refinement of RunService with its fairness | 3 keys, one without a thread, limit 2 |
| `shutdown` | drain at any moment locks no key out | 3 keys, limit 1 |
| `issue` | composition with /abort and death of the bot | 1 issue, 1 candidate, 1 move, 1 fault, 1 interruption |
| `issue_candidates` | composition with two candidates and a raise | 1 issue, 2 candidates, 1 move, 1 fault |
| `issue_rework` | a Rework issue is retried (no) | 1 fault |
| `attempt` | listed for a review, delivered, truthful, ending attempts | 2 attempts, 2 candidates in the first, 1 or 2 slots, 2 changes, no replan, 1 fault |
| `attempt_mirror` | worktrees keep their branches (no) | 2 attempts, no fault |
| `conversation` | one thread, one issue, what passes the gate was approved | with and without a Project, 2 handlers, 2 messages, 4 commands, 1 fault, 1 crash |
| `agents` | records, results, restart | 2 candidates, 1 fault, 1 death |
| `agent_ends` | calls return, records go, abandoned issues are freed | 1 candidate, rollover, 2 faults, 1 death |
| `planning` | chunks, threads, retries, end of planning | 1 or 4 criteria, 2 threads |
| `selection` | the better candidate wins | 3 files, 2 plans, 3 issues, 8 reviews, 2 durations, 1 handoff each |

Bounds. Three keys and a limit of two are the least with which a request waits
behind a full service and two requests can change order; the proofs drop
them. One issue is enough for `IssueRuntime`, since two issues meet only in
the queue and in the sequence of a tick. `MaxMoves`, `MaxFaults` and
`MaxInterruptions` bound people and accidents. One of each at any moment is
what the passing runs cover: a crash can fall between any two steps, and a fault at
any call. Every action fires in a passing run, but for the reconnection, a way
to begin `BootBegins` that no configuration allows (see the observations).

Two attempts are enough for `Attempt`: what an attempt finds in the copy is left by
the ones before, and a third finds nothing a second could not. The second
candidate takes part in the first attempt only, so that the state space stays
small; its task may live on in the second. One fault, at any call, is what it
takes to abandon a candidate, to lose a push or a pull request, to hang, or for a
process left behind to write. Two changes are one that is listed and one that is not,
or one of each of two attempts. The agent may also undo what it finds in the copy
(`Reverting`); commands that undo, and a limit of replans above 0, are left to the
proofs, which have no bounds. Both kinds of repository are covered, empty and populated.
The run has 947 thousand states.

Two handlers show every overlap of two coroutines of a thread; with two messages a
reply, a summary and a plan can be older than the requirements; four commands are a
plan, its approval and both again. `conversation` has 708 thousand states. Two candidates are every overlap of two threads
at the record file, with the command and the check beside them; `agents` uses
their symmetry and therefore checks no liveness, which `agent_ends` does, with two
faults so that the fallback can meet one as well. With four criteria and two threads
there may be, at a failure, two criteria not yet submitted beside one that runs, is
queued or has finished unseen; with one criterion there is no pool. The answers of
models are not bounded: the retries end by themselves. The three files of
`selection` are one that the plan names, one that it does not and one of the
protected configuration; the eight reviews differ in the severity, in what is
confirmed and in what the findings are about, so that each of the seven measures
of the rank decides between some two candidates, and some two tie.

The passing runs allow `/abort` and crashes; `OneAgent` fails once on_ready can
fire in a living bot, or a restart finds Ready or Rework with a process of the last
life, so `issue` stays within one interruption.

### What the failing runs show

- `issue_rework`: a raise sets Rework only in meta.json; the gate wants the
  Project to say the same, which it never does.
- `attempt_mirror`: every preparation of a copy prunes, in the mirror that all runs
  of a repository share, the branches that are not pushed yet: that of another
  run, of the primary candidate when the second one is prepared, of the last
  attempt. The next preparation of that copy then fails. The git commands of
  workspace_manager.py were tried with git 2.39 on local repositories. They also
  showed that `push -u origin <branch>` from a worktree of a `--mirror` clone
  is refused, so `Pushed` sends a branch only from a copy with a repository of
  its own. Most of what `attempt` checks about pushes is therefore about
  repositories that were empty at first.

### Observations

These came up while the modules were written. The first twelve are properties stated
in the modules, or a change of one constant, and TLC shows a trace of each.

- `DrainStopsEverything` (Orchestrator; the constants of MC_shutdown.cfg): `drain()`
  awaits the cancelled runs; an `enqueue` in that time starts a new dispatcher and
  a run which `drain()` then forgets. Only tests call `drain()` at present.
- `AbortHolds` (IssueRuntime; MC_issue_rework.cfg with one abort and no fault): the
  killed agent's run reports Rework over the Blocked of the abort (pipeline.py:127),
  and the scheduler starts the issue again.
- `OnlyPeopleLeaveReview` (IssueRuntime; the same constants): a listing older
  than the end of a run overwrites Human Review with In Progress, and
  reconciliation makes Rework of it on the Project.
- `OneAgent` (IssueRuntime) with `Interruptions = {"reconnect", "crash"}`, two of them
  and two moves: restore does not ask for living processes before it enqueues.
- `RefusedForLack` (Attempt; MC_attempt_mirror.cfg with `Workflows <- RepositoryOnly`
  and `Populated = {FALSE}`): the gate compares required_artifacts with a list in the
  source, which lacks three artifacts that the repository's WORKFLOW.md requires.
- `RunIsUpToDate` (Conversation; MC_conversation.cfg): when an issue is approved again,
  `bind_issue` copies the draft's artifacts over those of the issue
  (state_store.py:549-577), an old requirement summary over a newer one, and the run
  loads it (pipeline.py:152).
- `RunsWhatWasApproved` (Conversation; MC_conversation.cfg with `Projects = {FALSE}` or
  `{TRUE}`): the plan a run works from need not be one that was approved, although no
  approval overlaps anything. `is_running` is false for a queued issue
  (orchestrator.py:63), so `/plan` and `/revise` are admitted while it waits for its
  turn (discord_adapter.py:1130, 666); they replace the plan (1308) or take it away, and
  `execute_run` loads what is there (pipeline.py:152) without asking the gate again. A
  plan that was taken away is loaded as an empty one. With a Project the
  same happens between the gate's answer and the run; without one, a restart also puts an
  issue in the queue again whose plan has been drafted anew. `GateSawApproved`
  is what does hold.
- `ShippedWasReviewed` (Attempt; MC_attempt.cfg): the workflow's commands and the repair
  checks write in the copy after the changed files are listed, and `git add -A`
  (pipeline.py:3628) commits what they wrote. The review is given the list and
  `git diff` (3616-3620), which has no untracked files and is cut to its last 6000
  characters (claude_runner.py:99); in a copy whose list was approved it may not have
  seen a line of a file. `ShippedWasListed` is what does hold: an agent's change is
  pushed only when its file was listed for a review that approved.
- `AbortStopsAttempt` (AgentRun; MC_agents.cfg): `terminate` signals what is on file when
  it reads and removes the file afterwards; a process that is started but not yet
  registered, or registers in between, works on after `/abort` has answered.
- `RecordsGo` (AgentRun; MC_agent_ends.cfg with both candidates and no fault): one
  candidate's `register` or `unregister` writes the file from a copy out of date and
  puts another's record back. For an app server `is_active` then answers yes for as long as
  the bot lives, and the next `/abort` signals the bot.
- `ConfirmedSeverityDecides` (Selection; MC_selection.cfg): the rank has a place for
  critical findings (candidate_policy.py:58-73), but `_winner_input` does not
  count them, and only "high" rejects. Where a review has confirmed nothing the
  dismissed findings count, so a candidate without a confirmed finding may lose.
- `ReasonIsTrue` (Selection; MC_selection.cfg): `_winner_reason` compares the winner with
  every success. Where the other one was not eligible, the winner is said to have
  won by a lower rank and may have a higher one.
- A single success wins although its review names protected paths; of two such
  successes none does, and `select_winner` raises.
- The copy of the issue is the same for all attempts, so an attempt pushes also what
  a rejected or broken one left in it; `ShippedWasListed` says that it was listed again
  for the review of the attempt that pushes it. A candidate left behind by `gather`
  may write to that copy during the next attempt, and so may an app server its client
  has given up; the property excludes these copies (`disturbed`).
- A call may stand for ever. `_run_blocking` is a bare `asyncio.to_thread`
  (pipeline.py:114-116); `subprocess.run` has no timeout for the workflow's commands
  (3289), the repair checks (3368), the review's diff (3617), commit and push
  (3623-3640) and all of git in workspace_manager.py (360, 368). A candidate that hangs
  keeps its slot of the semaphore: with one slot the second candidate never begins, and
  the run never ends. `SecondCandidateEnds` and `EveryAttemptEnds` except exactly the
  tasks that wait for such a call.
- Nothing keeps two commands of one thread apart. Two `/approve-plan` at once make two
  issues, and a `/plan` that overlaps an approval may be run without having been
  approved. `conversation` assumes that a user waits for the answer to an approval
  (`ApprovalAlone`).
- A plan that was rejected can still be approved. `/revise` and `/reject-plan` log a
  failure of GitHub and report success.
- `_generate_plan` hands on a part of what planning has made; plan_v2,
  candidate_decision and committee_bundle are dropped and never persisted.
- A death of the bot leaves `runtime_status` at queued for an issue that was waiting; the
  next message in its thread finds nobody behind it and takes the issue to Rework
  (discord_adapter.py:1579-1627), from where the tick dispatches it again.
- A reply that was awaited during a command writes its status and its summary after
  it. While a test plan is being generated messages are let in. A death during
  `/plan` leaves a draft in planning, which refuses messages until the next `/plan`.
- An app server that dies is never noticed by a thread that waits for an answer; a
  line too long ends the reader; a turn that failed does not end the wait. Without
  codex the shell exits at once, and the first request waits for ever. These
  are `Stuck` in AgentRun, which `RunReturns` excepts.
- `/abort` of an app-server run signals the bot's own group, so the bot ends before
  it writes Blocked. After a restart in the same group `is_active` answers yes for
  its record for ever, which `AbandonedIsFreed` excepts.
- A JSON value that is no object passes as the answer of a model, and makes the merge
  raise when all requests have been paid for. Chunks that finish during the
  shutdown of the pool are thrown away and made again.

### Fairness

`Orchestrator!Fairness`: the event loop runs a task that can run (weak fairness
of the dispatcher and of each run), and an executor returns or raises in the
end. `IssueRuntime!Fairness`: weak fairness of the tick, of restore and of the awaits
of a run and an abort, since the loop and the worker threads make progress; strong
fairness of `RunBegins`, which is what RunService promises and the run
`orchestrator` checks; strong fairness of `RunDecides`, as processes come and go
while a candidate has attempts left. That an agent's process ends is an
assumption; `AgentRun` shows when the call around it does not. People, faults and
accidents have no fairness. `Attempt!Fairness`: weak fairness of the run and of each
candidate's task, as the event loop gives it, while no call of it hangs. Nothing
is assumed of how long a command, a session or git takes: that one never returns
is a step of the model (`TaskHangs`, `RunHangs`), after which the task has no fair step,
and the properties name what then waits for it. The calls of the verifier and the
reviewer, and those to GitHub, have timeouts. `Conversation!FairSpec`: a coroutine
whose await is answered goes on, the scheduler lists and dispatches (`BoardSync`,
`Dispatch`), and the queue gets to the issue, which takes for granted that runs of
other issues end; nobody has to write or command anything. `AgentRun!Fairness`: weak fairness of each thread, of an agent's own steps
and of the scheduler's check; nothing says that a process fails, or that a bot
that died is started. `Planning!FairSpec`: weak fairness of each thread, since
every call of a model has a timeout (300 or 600 seconds).

## Proofs

`OrchestratorProofs` proves for every finite set of keys, every binding that
is one-to-one and every limit: type correctness, `SingleFlight`,
`ConcurrencyBound`, `IndexAgrees`, `IsRunningTruthful`, `RuntimeTruthful` and that
every step of `Spec` is a step of `RunService!Safety` or a stutter.

None of these is inductive. The invariant `IInv` conjoins: `TypeOK`; `NoDrain` (in
`Spec` nobody drains, so no task is cancelled); `QueueExact` (no key stands twice
in the queue and the queued sets are exactly what it holds); `RunsExact` (per key at
most one task, never beside a waiting item; `_running` and `_running_keys` are exactly
the keys with a task); `LimitKept` (`_running` does not exceed the limit, and is
strictly below it when the dispatcher stands at the get). The last part is what
carries the limit over the await: between test and launch nobody but the
dispatcher adds to `_running`. `ThreadsExact`, about `_thread_to_key`, is added for
`is_running`. `StepShape` says of each action what it does to what waits, what
lives and runtime_status; the refinement and `RuntimeTruthful` follow from it.

`NoKeyLockedOut` is proved of `ShutdownSpec`, where `drain()` may be called at any
moment. `IInv` does not survive there: a request that arrives while `drain()` waits starts
a run that `drain()` then forgets. What survives is `NoKeyLockedOut` itself, which
is inductive with the types: at its return `drain()` leaves no key in the index of
the runs, and from then on a key enters it together with a task and leaves it in
the step that ends that task.

Assumptions: `OrchestratorAssumption` (finite keys, one-to-one binding as
`StateStore.bind_thread` enforces it, a positive limit).

`AttemptProofs` proves for every number of attempts, faults and replans, every
choice of candidates and slots and every WORKFLOW.md: `ShippedWasListed`,
`CompletedIsDelivered`, `SettledAgrees`, `ViewsFollowWinner`, `OneHandoff` and
`ReplansBounded`. Its only assumption is `AttemptAssumption` (decision files name the primary candidate,
bounds are numbers). The arguments are inductive invariants, the others on top of
the first:

- `IInv`: the types; `FutureIsEmpty` (a task has no place and no session before
  its candidates start) and `SessionsCounted` for the handoff; `CheckedIsListed`
  (while a candidate is checked, its copy holds only what its last session listed and
  what its own commands made, and once it has succeeded exactly what it held for the
  review) and `SuccessIsReviewed`. `CheckedIsListed` holds except for copies
  in `disturbed`: `CopiesApart` says that two tasks of one attempt never share a copy,
  so that only what no run waits for can write under a check.
- `HInv`, for `ShippedWasListed`: from the choice to the commit the winner's copy holds
  only what was listed or made by its commands (`WinnerIsListed`), and so do commits and
  branches on GitHub (`HistoryIsListed`). The property speaks of `remote` alone; it
  needs the others because the code lists, reviews and commits at three different
  moments, and writes in between.
- `DInv`: how far the winner's changes have come at each stage of the
  delivery, for `CompletedIsDelivered`.
- `SInv`: success written ahead comes with an unsettled manifest, for
  `SettledAgrees`.
- `TInv`: a task that is done has a result, and the first candidate always runs, for
  `TypeOK`; otherwise a run in which all fail could report a state that is none.
- `VInv`: the views are those of the last attempt that has a winner, which is over
  and has had no session since, for `ViewsFollowWinner`. A candidate left behind goes
  on in later attempts, but it was running when its attempt broke and no winner.

`PlanningProofs` proves, for every number of acceptance criteria and threads,
`NobodyLeft` and `EveryCriterionHasItsChunk`, from `PlanningAssumption` (both are
positive numbers), and `CallsAreBounded`. `PlanningInv` is inductive: it says which futures there may be at
each stage (`FuturesFollowStage`: none before the pool, none running after it),
that a thread which waits for a model runs its criterion's future, and that what
was harvested is held. The fallback asks for the criteria not held, whatever
became of their futures, so nothing needs to be known about how the pool broke.
`SpendInv` adds what each criterion has cost at each stage, and that the pool has no
more pending futures than threads; the bound is the sum of its parts: a criterion is
asked for in the pool at most once, and alone only after the pool has failed.
`NaturalFacts` holds what the other modules need about numbers.

`AgentRunProofs` proves, for any number of candidates, faults and deaths,
`QuietAfterRun` and `CompletionCounts`, from `AgentRunAssumption`. `RunInv` speaks of one
candidate at a time: which process its place in the call lets it drive, that what
was heard is the end of its turn, and that a server that was shut down and drained has
nothing more to say; this is what carries a result past the two steps that take
its record away. `FileInv` adds the file, for `OnFileWhileDriven` and `FreedIsQuiet`:
unless it was overwritten from a copy out of
date (`stale`), it names every process at work once, whether its thread or nobody
drives it any more (`WorkIsOnFile`), and after a restart only the check writes it. A
death of the bot may fall between any two of these steps; what makes it harmless is
that a process is on file before it works and until it has ended.

`SelectionProofs` proves, for every plan, issue, policy and set of reviews,
`WinnerKeepsScope` (which no run checks) and `NoBetterLoser`, from
`SelectionAssumption`. `IInv` says that a candidate past its session is in scope,
and that once a winner is named nobody of the lane can step and nobody eligible
ranks lower. That every place of a tuple counts only among equals before it
gives `NoBetterLoser`, which compares findings, scope and cost one after the other.

`ConversationProofs` proves, for all numbers of handlers, messages, commands, faults
and crashes, and for every overlap of handlers: `BindingIsForGood`, for which no
invariant is needed, since each operation of the store keeps the binding
(`HoldsOn`) and every action is built from these; and `TypeOK` and `PlanningIsReal`
from `ThreadInv`, the shape of the store and what a handler still knows after its
await. The other three need what a user does, and say so in their hypothesis:

- `BoundHasIssue` and `OneIssuePerThread` under `OneApprovalAtATime`, from `IssueInv`:
  where the issue's number is written, and who still has to write it, at each await
  of the approval.
- `GateSawApproved` under `PlanIsApprovedAlone` (no planning overlaps an
  approval either), from `PlanInv`: a plan that the Project calls approved, or that is
  being approved, stood in the thread when the user approved, or the thread has none.

`ApprovalAlone`, which `conversation` checks, is an instance of both. Without
them the properties fail; see the observations.

`IssueRuntimeProofs` proves, for every set of issues, every limit and all numbers of
moves, faults and interruptions:

- `TypeOK`, with no hypothesis. The candidates alive and those stopped by /abort are
  together never more than a run has; without that the count of those stopped
  would have no bound.
- `DoneIsFinal` under `NoReconnect`. `IInv` is inductive for every step but a second
  on_ready of one process: the queue and the run agree (`RunsExact`); while a run may
  still write a card, that card is not delivered, and meta.json of a card that is
  Done says nothing that reconciliation would repair (`BoardInv`); what the copies
  in the tick (`TickInv`) and in the restart (`BootInv`) still tell of the cards. A copy
  grows old while anything else happens, so both rest on what every other step leaves
  true (`Calm`): no issue becomes busy, Done or Merging behind their back, since
  only the scheduler and the first restart make requests, and only the scheduler
  writes Done.
- `OneAgent` under `OneCandidate` (one candidate for each run) and `CrashAlone` (an abort
  or a reconnection does not come on top of a crash). `StrayInv`: a process without
  a run was left by a crash, was at work, and so stands behind a card that says In
  Progress, which no gate lets through and no repair touches while the process
  lives (`Tracked`); once an abort or a reconnection has come, there is no such
  process and none can come (`Harmless`). Any number of crashes and restarts, or any
  single interruption, are within the hypothesis.

The hypotheses are the edge of what holds: TLC shows a trace against `DoneIsFinal` with
one reconnection, and against `OneAgent` with two candidates, with a crash and an
abort, and with a crash and a reconnection.

Only model-checked: liveness (`InProgressIsReal`, `RequestServed`, `EveryAttemptEnds`,
`SecondCandidateEnds`, `ApprovedIsRun`, `RunReturns`, `RecordsGo`, `AbandonedIsFreed`,
`PlanningEnds`)
and the fair part of the refinement, which are beyond the prover. `ConcurrencyBound`,
`IndexAgrees`, `OneHandoff`, `ReplansBounded` and `WinnerKeepsScope` are proved and no
part of a run; the first is implied by the refinement, which `orchestrator` checks.

## Not modelled

- HTTP and GraphQL plumbing, token and field caches; prompts and the parsing of
  answers; Docker and shell invocations; message wording; schemas validated by a
  library; logging, telemetry, debug bundles: I/O and text without control of their
  own that the rest could notice.
- `approvals.py`: nothing creates a request.
- `ClaudeRunner`: a call of the SDK in the calling thread, with nothing on file.
- The posting of review comments, which is best effort.
- An update of meta.json cut in two: two parties update it from worker threads, the
  board sync and the progress of `/plan`.
- Read-only commands and the choice of repositories in Discord; progress files.
