---------------------------- MODULE IssueRuntime ----------------------------
(***************************************************************************)
(* An issue on its way through the GitHub Project: the scheduler of        *)
(* app/issue_scheduler.py, the runs of app/pipeline.py, /abort, the merge, *)
(* the restart and the people who move cards, all of which read and write  *)
(* the same two fields, meta.json's status and the Project's State.        *)
(*                                                                         *)
(* The run queue is the abstract RunService, which Orchestrator is shown   *)
(* to implement.  An action is the code between two awaits, or the effect  *)
(* of one call in a worker thread together with the code that resumes      *)
(* after it, whenever that code touches nothing another action reads.      *)
(* Issues here are bound to a thread, have their planning artifacts, and   *)
(* stay open on GitHub.                                                    *)
(***************************************************************************)
EXTENDS Naturals, FiniteSets

CONSTANTS
  Issues,
  MaxConcurrency,   \* settings.max_concurrent_runs
  Candidates,       \* how many candidates a run executes, 1 or 2
  MaxMoves,         \* bound: cards moved by people
  MaxFaults,        \* bound: GitHub or workspace calls that raise
  Interruptions,    \* which of "crash" (the bot dies), "reconnect" (on_ready
                    \* fires again in a living bot) and "abort" happen
  MaxInterruptions  \* bound: how many of them

ASSUME IssueRuntimeAssumption ==
  /\ IsFiniteSet(Issues) /\ Issues # {}
  /\ MaxConcurrency \in Nat \ {0}
  /\ Candidates \in 1..2
  /\ Interruptions \subseteq {"crash", "reconnect", "abort"}
  /\ {MaxMoves, MaxFaults, MaxInterruptions} \subseteq Nat

VARIABLES
  phase,     \* RunService: idle, accepted or active
  step,      \* the await at which execute_run stands
  verdict,   \* the state a run is going to report
  agents,    \* registered processes of the run's candidates
  killed,    \* how many candidates of the run /abort has stopped
  strays,    \* registered processes that belong to no run
  detached,  \* candidate tasks whose run is over
  local,     \* meta.json: status
  runtime,   \* meta.json: runtime_status
  board,     \* the Project field State
  plan,      \* the Project field Plan
  pr,        \* the pull request of pr.json
  tick,      \* where scheduler_tick stands
  boot,      \* where restore_pending_runs stands
  abort,     \* where pipeline.abort stands
  left       \* what remains of the bounds

run == <<phase, step, verdict>>
processes == <<agents, killed, strays, detached>>
meta == <<local, runtime>>
project == <<board, plan>>
vars == <<run, processes, meta, project, pr, tick, boot, abort, left>>

State == {"Backlog", "Ready", "In Progress", "Human Review", "Rework",
          "Merging", "Done", "Blocked"}
Step == {"none", "snapshot", "announce", "work", "publish", "report", "comment"}
DispatchStates == {"Ready", "Rework"}
RestoreStates == DispatchStates \union {"In Progress"}

TickPc == {"off", "idle", "writing", "reading", "serving", "gate", "gated",
           "status", "merge", "merged", "done", "blocked"}
BootPc == {"off", "scan", "gate", "rework", "ready"}

TypeOK ==
  /\ phase \in [Issues -> {"idle", "accepted", "active"}]
  /\ step \in [Issues -> Step]
  /\ verdict \in [Issues -> State]
  /\ agents \in [Issues -> 0..Candidates]
  /\ killed \in [Issues -> 0..Candidates]
  /\ strays \in [Issues -> Nat]
  /\ detached \in [Issues -> Nat]
  /\ local \in [Issues -> State]
  /\ runtime \in [Issues -> {"", "queued", "running"}]
  /\ board \in [Issues -> State]
  /\ plan \in [Issues -> {"Approved", "Drafted"}]
  /\ pr \in [Issues -> {"none", "open", "merged"}]
  /\ tick \in [pc : TickPc, view : [Issues -> State], metas : [Issues -> State],
               todo : SUBSET Issues, at : Issues, ok : BOOLEAN]
  /\ boot \in [pc : BootPc, metas : [Issues -> State], todo : SUBSET Issues,
               at : Issues, items : SUBSET Issues]
  /\ abort \in [Issues -> {"none", "killed", "reporting"}]
  /\ left \in [moves : 0..MaxMoves, faults : 0..MaxFaults,
               interruptions : 0..MaxInterruptions]

Service == INSTANCE RunService WITH Keys <- Issues

-----------------------------------------------------------------------------
(* Reading the state *)

IsRunning(i) == phase[i] = "active"
IsQueued(i) == phase[i] = "accepted"
Idle(i) == phase[i] = "idle"

\* Variant: only the processes this bot has started itself are known.
HasProcessOfRun(i) == agents[i] > 0

\* process_registry.is_active: some registered process of the issue lives.
HasProcess(i) == agents[i] + strays[i] > 0

Active(i) == IsRunning(i) \/ IsQueued(i) \/ HasProcess(i)

\* scheduler_gate_for_issue: a lookup that fails answers {}.
GateOpen(i, states) == board[i] \in states /\ plan[i] = "Approved"

Alive == boot.pc # "off"

Spend(what) == left[what] > 0 /\ left' = [left EXCEPT ![what] = @ - 1]

Interrupt(kind) == kind \in Interruptions /\ Spend("interruptions")

\* A call that writes State on the Project and then goes on, or raises and
\* goes on all the same: "best effort".
BestEffort(i, s) ==
  \/ board' = [board EXCEPT ![i] = s] /\ UNCHANGED left
  \/ Spend("faults") /\ UNCHANGED board

SetMeta(i, s, r) ==
  /\ local' = [local EXCEPT ![i] = s]
  /\ runtime' = [runtime EXCEPT ![i] = r]

AnyIssue == CHOOSE i \in Issues : TRUE
Unread == [i \in Issues |-> "Backlog"]
NoTick == [pc |-> "off", view |-> Unread, metas |-> Unread, todo |-> {},
           at |-> AnyIssue, ok |-> FALSE]
NoBoot == [pc |-> "off", metas |-> Unread, todo |-> {}, at |-> AnyIssue, items |-> {}]

Init ==
  /\ phase = [i \in Issues |-> "idle"]
  /\ step = [i \in Issues |-> "none"]
  /\ verdict = [i \in Issues |-> "Rework"]
  /\ agents = [i \in Issues |-> 0]
  /\ killed = [i \in Issues |-> 0]
  /\ strays = [i \in Issues |-> 0]
  /\ detached = [i \in Issues |-> 0]
  /\ local = [i \in Issues |-> "Ready"]
  /\ runtime = [i \in Issues |-> ""]
  /\ board = [i \in Issues |-> "Ready"]
  /\ plan = [i \in Issues |-> "Approved"]
  /\ pr = [i \in Issues |-> "none"]
  /\ tick = NoTick
  /\ boot = NoBoot
  /\ abort = [i \in Issues |-> "none"]
  /\ left = [moves |-> MaxMoves, faults |-> MaxFaults,
             interruptions |-> MaxInterruptions]

-----------------------------------------------------------------------------
(* A run: execute_run, and what the queue writes before and after it *)

\* The dispatcher takes the item and the run goes to its first await, the
\* snapshot of the issue.
RunBegins(i) ==
  /\ Service!Activate(i)
  /\ runtime' = [runtime EXCEPT ![i] = "running"]
  /\ step' = [step EXCEPT ![i] = "snapshot"]
  /\ killed' = [killed EXCEPT ![i] = 0]
  /\ UNCHANGED <<verdict, agents, strays, detached, local, project, pr, tick, boot, abort, left>>

\* The snapshot is there, or its lookup failed and the issue is used as it is.
RunAnnounces(i) ==
  /\ step[i] = "snapshot"
  /\ SetMeta(i, "In Progress", "running")
  /\ step' = [step EXCEPT ![i] = "announce"]
  /\ UNCHANGED <<phase, verdict, processes, project, pr, tick, boot, abort, left>>

\* _update_issue_tracking writes In Progress; workspace and candidates follow.
RunAnnounced(i) ==
  /\ step[i] = "announce"
  /\ board' = [board EXCEPT ![i] = "In Progress"]
  /\ step' = [step EXCEPT ![i] = "work"]
  /\ UNCHANGED <<phase, verdict, processes, meta, plan, pr, tick, boot, abort, left>>

\* Variant: no semaphore.
AgentStartsUnlimited(i) ==
  /\ step[i] = "work"
  /\ agents' = [agents EXCEPT ![i] = @ + 1]
  /\ UNCHANGED <<run, killed, strays, detached, meta, project, pr, tick, boot, abort, left>>

\* A candidate's process starts and is registered, and exits in the end.
AgentStarts(i) ==
  /\ step[i] = "work"
  /\ agents[i] + killed[i] < Candidates
  /\ agents' = [agents EXCEPT ![i] = @ + 1]
  /\ UNCHANGED <<run, killed, strays, detached, meta, project, pr, tick, boot, abort, left>>

AgentExits(i) ==
  /\ agents[i] > 0
  /\ agents' = [agents EXCEPT ![i] = @ - 1]
  /\ UNCHANGED <<run, killed, strays, detached, meta, project, pr, tick, boot, abort, left>>

\* _finalize_failure with the state of the failure, up to its await.  A
\* process that was killed exits with an error, which means Rework.
RunFails(i) ==
  /\ step[i] = "work"
  /\ agents[i] = 0
  /\ \E s \in IF killed[i] = Candidates THEN {"Rework"} ELSE {"Rework", "Blocked", "Human Review"} :
       /\ SetMeta(i, s, "")
       /\ verdict' = [verdict EXCEPT ![i] = s]
  /\ step' = [step EXCEPT ![i] = "report"]
  /\ UNCHANGED <<phase, processes, project, pr, tick, boot, abort, left>>

\* The winner is chosen, pushed and proposed: pr.json is written.
RunPublishes(i) ==
  /\ step[i] = "work"
  /\ agents[i] = 0
  /\ killed[i] < Candidates
  /\ pr' = [pr EXCEPT ![i] = "open"]
  /\ step' = [step EXCEPT ![i] = "publish"]
  /\ UNCHANGED <<phase, verdict, processes, meta, project, tick, boot, abort, left>>

\* The comment is posted and the run is complete, up to its last await.
RunCompletes(i) ==
  /\ step[i] = "publish"
  /\ SetMeta(i, "Human Review", "")
  /\ verdict' = [verdict EXCEPT ![i] = "Human Review"]
  /\ step' = [step EXCEPT ![i] = "report"]
  /\ UNCHANGED <<phase, processes, project, pr, tick, boot, abort, left>>

\* _update_issue_tracking writes the verdict, then the workpad.
RunReports(i) ==
  /\ step[i] = "report"
  /\ board' = [board EXCEPT ![i] = verdict[i]]
  /\ step' = [step EXCEPT ![i] = "comment"]
  /\ UNCHANGED <<phase, verdict, processes, meta, plan, pr, tick, boot, abort, left>>

\* execute_run returns.
RunEnds(i) ==
  /\ step[i] = "comment"
  /\ Service!Release(i)
  /\ step' = [step EXCEPT ![i] = "none"]
  /\ runtime' = [runtime EXCEPT ![i] = ""]
  /\ UNCHANGED <<verdict, processes, local, project, pr, tick, boot, abort, left>>

\* A call raises out of execute_run: the queue puts the issue to Rework, in
\* meta.json only.  gather() does not wait for the other candidate, whose
\* task and process go on by themselves.
RunRaises(i) ==
  /\ step[i] # "none"
  /\ Spend("faults")
  /\ agents[i] < Candidates
  /\ Service!Release(i)
  /\ step' = [step EXCEPT ![i] = "none"]
  /\ SetMeta(i, "Rework", "")
  /\ \E d \in IF step[i] = "work" THEN agents[i]..(Candidates - 1) ELSE {0} :
       detached' = [detached EXCEPT ![i] = @ + d]
  /\ strays' = [strays EXCEPT ![i] = @ + agents[i]]
  /\ agents' = [agents EXCEPT ![i] = 0]
  /\ UNCHANGED <<verdict, killed, project, pr, tick, boot, abort>>

-----------------------------------------------------------------------------
(* Processes and candidates that no run waits for *)

DetachedStarts(i) ==
  /\ strays[i] < detached[i]
  /\ strays' = [strays EXCEPT ![i] = @ + 1]
  /\ UNCHANGED <<run, agents, killed, detached, meta, project, pr, tick, boot, abort, left>>

DetachedEnds(i) ==
  /\ strays[i] < detached[i]
  /\ detached' = [detached EXCEPT ![i] = @ - 1]
  /\ UNCHANGED <<run, agents, killed, strays, meta, project, pr, tick, boot, abort, left>>

StrayExits(i) ==
  /\ strays[i] > 0
  /\ strays' = [strays EXCEPT ![i] = @ - 1]
  /\ UNCHANGED <<run, agents, killed, detached, meta, project, pr, tick, boot, abort, left>>

-----------------------------------------------------------------------------
(* scheduler_tick: the Project is listed once, the rest works on the copy *)

\* list_project_issues, in a worker thread.  A failure ends the tick with
\* nothing done, which is no step.
TickLists ==
  /\ tick.pc = "idle"
  /\ tick' = [tick EXCEPT !.pc = "writing", !.view = board, !.todo = Issues]
  /\ UNCHANGED <<run, processes, meta, project, pr, boot, abort, left>>

\* Variant: Rework is kept whatever was listed.
ResolvedKeepsRework(i) ==
  IF local[i] = "Rework" /\ ~Active(i) THEN "Rework" ELSE tick.view[i]

\* _resolve_synced_state
Resolved(i) ==
  IF tick.view[i] = "In Progress" /\ local[i] = "Rework" /\ ~Active(i)
  THEN "Rework" ELSE tick.view[i]

\* Still in the thread, meta.json takes the state that was listed.
TickWrites(i) ==
  /\ tick.pc = "writing"
  /\ i \in tick.todo
  /\ local' = [local EXCEPT ![i] = Resolved(i)]
  /\ tick' = [tick EXCEPT !.todo = @ \ {i},
                          !.pc = IF tick.todo = {i} THEN "reading" ELSE @]
  /\ UNCHANGED <<run, processes, runtime, project, pr, boot, abort, left>>

\* The copies of meta.json that the rest of the tick works on.
TickReads ==
  /\ tick.pc = "reading"
  /\ tick' = [tick EXCEPT !.pc = "serving", !.metas = local, !.todo = Issues]
  /\ UNCHANGED <<run, processes, meta, project, pr, boot, abort, left>>

Served(i) == [tick EXCEPT !.pc = "serving", !.todo = @ \ {i}]
Serving(i, states) == tick.pc = "serving" /\ i \in tick.todo /\ tick.metas[i] \in states
AtIssue(pc) == tick.pc = pc

\* Nothing to do: another state, or one of the early returns.
TickSkips(i) ==
  /\ \/ Serving(i, State \ {"Ready", "Rework", "In Progress", "Merging"})
     \/ Serving(i, DispatchStates) /\ Active(i)
     \/ Serving(i, {"Merging"}) /\ HasProcess(i)
  /\ tick' = Served(i)
  /\ UNCHANGED <<run, processes, meta, project, pr, boot, abort, left>>

\* _dispatch_issue_if_ready goes to look at the gate ...
TickAsksGate(i) ==
  /\ Serving(i, DispatchStates)
  /\ ~Active(i)
  /\ tick' = [tick EXCEPT !.pc = "gate", !.at = i]
  /\ UNCHANGED <<run, processes, meta, project, pr, boot, abort, left>>

\* ... which is read on GitHub, and may not be readable ...
TickReadsGate ==
  /\ AtIssue("gate")
  /\ \/ /\ tick' = [tick EXCEPT !.pc = "gated",
                                !.ok = GateOpen(tick.at, {tick.metas[tick.at]})]
        /\ UNCHANGED left
     \/ /\ Spend("faults")
        /\ tick' = [tick EXCEPT !.pc = "gated", !.ok = FALSE]
  /\ UNCHANGED <<run, processes, meta, project, pr, boot, abort>>

\* enqueue(): a refusal changes nothing.
EnqueueAll(is) ==
  LET accepted == {i \in is : Idle(i)}
  IN  /\ phase' = [i \in Issues |-> IF i \in accepted THEN "accepted" ELSE phase[i]]
      /\ runtime' = [i \in Issues |-> IF i \in accepted THEN "queued" ELSE runtime[i]]

\* ... and acted upon.
TickDispatches ==
  /\ AtIssue("gated")
  /\ EnqueueAll(IF tick.ok THEN {tick.at} ELSE {})
  /\ tick' = [Served(tick.at) EXCEPT !.ok = FALSE]
  /\ UNCHANGED <<step, verdict, processes, local, project, pr, boot, abort, left>>

\* The three outcomes of _reconcile_runtime_state: the issue is no concern of
\* it, something works on it, or nothing does.  GitHub is written to without
\* leaving the event loop.
ReconcileIf(concerned, i) ==
  \/ /\ ~concerned
     /\ UNCHANGED <<meta, board, left>>
  \/ /\ concerned /\ Active(i)
     /\ runtime' = IF local[i] = "In Progress" /\ HasProcess(i) /\ runtime[i] = ""
                   THEN [runtime EXCEPT ![i] = "running"] ELSE runtime
     /\ UNCHANGED <<local, board, left>>
  \/ /\ concerned /\ ~Active(i)
     /\ SetMeta(i, "Rework", "")
     /\ BestEffort(i, "Rework")

\* Variant: whatever the status is.
ReconcileAnyStatus(i) == ReconcileIf(TRUE, i)

\* Variant: only what runtime_status speaks of.
ReconcileByRuntime(i) == ReconcileIf(runtime[i] # "", i)

\* _reconcile_runtime_state reads meta.json anew.
Reconcile(i) == ReconcileIf(local[i] = "In Progress" \/ runtime[i] # "", i)

TickReconciles(i) ==
  /\ Serving(i, {"In Progress"})
  /\ Reconcile(i)
  /\ tick' = Served(i)
  /\ UNCHANGED <<run, processes, plan, pr, boot, abort>>

\* The last issue is served and the loop sleeps.
TickEnds ==
  /\ tick.pc = "serving"
  /\ tick.todo = {}
  /\ tick' = [NoTick EXCEPT !.pc = "idle"]
  /\ UNCHANGED <<run, processes, meta, project, pr, boot, abort, left>>

-----------------------------------------------------------------------------
(* _process_merging_issue *)

\* _mark_merging_blocked, up to its await.
MarkBlocked(i) ==
  /\ SetMeta(i, "Blocked", "")
  /\ tick' = [tick EXCEPT !.pc = "blocked", !.at = i]
  /\ UNCHANGED <<run, processes, project, pr, boot, abort, left>>

MergeStarts(i) ==
  /\ Serving(i, {"Merging"})
  /\ ~HasProcess(i)
  /\ \/ pr[i] = "none" /\ MarkBlocked(i)
     \/ /\ pr[i] # "none"
        /\ tick' = [tick EXCEPT !.pc = "status", !.at = i]
        /\ UNCHANGED <<run, processes, meta, project, pr, boot, abort, left>>

\* The status of the pull request: mergeability not known yet, a guard that
\* fails (or a lookup that raises), or ready to be merged.
MergeStatus ==
  /\ AtIssue("status")
  /\ \/ tick' = Served(tick.at) /\ UNCHANGED <<run, processes, meta, project, pr, boot, abort, left>>
     \/ MarkBlocked(tick.at)
     \/ /\ pr[tick.at] = "open"
        /\ tick' = [tick EXCEPT !.pc = "merge"]
        /\ UNCHANGED <<run, processes, meta, project, pr, boot, abort, left>>

\* The merge call, in a worker thread, or its refusal.
MergeCall ==
  /\ AtIssue("merge")
  /\ \/ /\ pr' = [pr EXCEPT ![tick.at] = "merged"]
        /\ tick' = [tick EXCEPT !.pc = "merged"]
        /\ UNCHANGED <<run, processes, meta, project, boot, abort, left>>
     \/ MarkBlocked(tick.at)

MergeRecorded ==
  /\ AtIssue("merged")
  /\ SetMeta(tick.at, "Done", "")
  /\ tick' = [tick EXCEPT !.pc = "done"]
  /\ UNCHANGED <<run, processes, project, pr, boot, abort, left>>

\* Done goes to the Project; a call that raises ends the whole tick.
MergeReported ==
  /\ AtIssue("done")
  /\ \/ /\ board' = [board EXCEPT ![tick.at] = "Done"]
        /\ tick' = Served(tick.at)
        /\ UNCHANGED left
     \/ /\ Spend("faults")
        /\ tick' = [NoTick EXCEPT !.pc = "idle"]
        /\ UNCHANGED board
  /\ UNCHANGED <<run, processes, meta, plan, pr, boot, abort>>

BlockedReported ==
  /\ AtIssue("blocked")
  /\ BestEffort(tick.at, "Blocked")
  /\ tick' = Served(tick.at)
  /\ UNCHANGED <<run, processes, meta, plan, pr, boot, abort>>

-----------------------------------------------------------------------------
(* on_ready: restore_pending_runs, then the scheduler *)

\* The first on_ready of a process, or a later one after a reconnection.
BootBegins ==
  /\ \/ boot.pc = "off" /\ UNCHANGED left
     \/ boot.pc = "ready" /\ Interrupt("reconnect")
  /\ boot' = [NoBoot EXCEPT !.pc = "scan", !.metas = local,
                            !.todo = {i \in Issues : local[i] \in RestoreStates}]
  /\ UNCHANGED <<run, processes, meta, project, pr, tick, abort>>

Restored(i) == [boot EXCEPT !.pc = "scan", !.todo = @ \ {i}]
Restoring(i, states) == boot.pc = "scan" /\ i \in boot.todo /\ boot.metas[i] \in states

\* In Progress with a process that lives is left alone, else goes to Rework.
RestoreInProgress(i) ==
  /\ Restoring(i, {"In Progress"})
  /\ \/ /\ HasProcess(i)
        /\ boot' = Restored(i)
        /\ UNCHANGED meta
     \/ /\ ~HasProcess(i)
        /\ SetMeta(i, "Rework", "")
        /\ boot' = [boot EXCEPT !.pc = "rework", !.at = i]
  /\ UNCHANGED <<run, processes, project, pr, tick, abort, left>>

RestoreReported ==
  /\ boot.pc = "rework"
  /\ BestEffort(boot.at, "Rework")
  /\ boot' = Restored(boot.at)
  /\ UNCHANGED <<run, processes, meta, plan, pr, tick, abort>>

\* Ready and Rework are collected when the gate is open.
RestoreGate(i) ==
  /\ Restoring(i, DispatchStates)
  /\ \/ /\ boot' = [Restored(i) EXCEPT
                      !.items = IF GateOpen(i, DispatchStates) THEN @ \union {i} ELSE @]
        /\ UNCHANGED left
     \/ Spend("faults") /\ boot' = Restored(i)
  /\ UNCHANGED <<run, processes, meta, project, pr, tick, abort>>

\* orchestrator.restore, and the scheduler is started unless it runs.
BootEnds ==
  /\ boot.pc = "scan"
  /\ boot.todo = {}
  /\ EnqueueAll(boot.items)
  /\ boot' = [NoBoot EXCEPT !.pc = "ready"]
  /\ tick' = IF tick.pc = "off" THEN [tick EXCEPT !.pc = "idle"] ELSE tick
  /\ UNCHANGED <<step, verdict, processes, local, project, pr, abort, left>>

-----------------------------------------------------------------------------
(* People and accidents *)

\* /abort: terminate signals every registered process of the issue and
\* forgets it.  With none to signal the command changes nothing.
AbortKills(i) ==
  /\ Alive
  /\ abort[i] = "none"
  /\ HasProcess(i)
  /\ Interrupt("abort")
  /\ agents' = [agents EXCEPT ![i] = 0]
  /\ killed' = [killed EXCEPT ![i] = @ + agents[i]]
  /\ strays' = [strays EXCEPT ![i] = 0]
  /\ abort' = [abort EXCEPT ![i] = "killed"]
  /\ UNCHANGED <<run, detached, meta, project, pr, tick, boot>>

AbortMarks(i) ==
  /\ abort[i] = "killed"
  /\ SetMeta(i, "Blocked", "")
  /\ abort' = [abort EXCEPT ![i] = "reporting"]
  /\ UNCHANGED <<run, processes, project, pr, tick, boot, left>>

\* The board follows; the answer is given, or the command fails.
AbortReports(i) ==
  /\ abort[i] = "reporting"
  /\ BestEffort(i, "Blocked")
  /\ abort' = [abort EXCEPT ![i] = "none"]
  /\ UNCHANGED <<run, processes, meta, plan, pr, tick, boot>>

\* /status reconciles the issue before it shows it.
StatusCommand(i) ==
  /\ Alive
  /\ Reconcile(i)
  /\ UNCHANGED <<run, processes, plan, pr, tick, boot, abort>>

\* The transitions docs/ARCHITECTURE.md leaves to people.
MoveOf(s) ==
  CASE s = "Blocked" -> {"Ready"}
    [] s = "Human Review" -> {"Rework", "Merging"}
    [] OTHER -> {}

HumanMoves(i) ==
  /\ Spend("moves")
  /\ \E s \in MoveOf(board[i]) : board' = [board EXCEPT ![i] = s]
  /\ UNCHANGED <<run, processes, meta, plan, pr, tick, boot, abort>>

HumanPlans(i) ==
  /\ Spend("moves")
  /\ plan' = [plan EXCEPT ![i] = IF @ = "Approved" THEN "Drafted" ELSE "Approved"]
  /\ UNCHANGED <<run, processes, meta, board, pr, tick, boot, abort>>

\* The bot dies; processes are in sessions of their own and may live on.
Crash ==
  /\ Alive
  /\ Interrupt("crash")
  /\ phase' = [i \in Issues |-> "idle"]
  /\ step' = [i \in Issues |-> "none"]
  /\ agents' = [i \in Issues |-> 0]
  /\ \E survivors \in [Issues -> 0..Candidates] :
       /\ \A i \in Issues : survivors[i] <= agents[i]
       /\ strays' = [i \in Issues |-> strays[i] + survivors[i]]
  /\ detached' = [i \in Issues |-> 0]
  /\ killed' = [i \in Issues |-> 0]
  /\ tick' = NoTick
  /\ boot' = NoBoot
  /\ abort' = [i \in Issues |-> "none"]
  /\ UNCHANGED <<verdict, meta, project, pr>>

-----------------------------------------------------------------------------
RunAdvances(i) ==
  \/ RunAnnounces(i) \/ RunAnnounced(i) \/ RunCompletes(i) \/ RunReports(i) \/ RunEnds(i)
RunDecides(i) == RunFails(i) \/ RunPublishes(i)
StrayStep(i) == DetachedStarts(i) \/ DetachedEnds(i) \/ StrayExits(i)

TickStep ==
  \/ TickLists \/ TickReads \/ TickReadsGate \/ TickDispatches \/ TickEnds
  \/ MergeStatus \/ MergeCall \/ MergeRecorded \/ MergeReported \/ BlockedReported
  \/ \E i \in Issues :
       TickWrites(i) \/ TickSkips(i) \/ TickAsksGate(i) \/ TickReconciles(i) \/ MergeStarts(i)

BootStep ==
  \/ BootBegins \/ RestoreReported \/ BootEnds
  \/ \E i \in Issues : RestoreInProgress(i) \/ RestoreGate(i)

Human(i) == HumanMoves(i) \/ HumanPlans(i)

Next ==
  \/ TickStep
  \/ BootStep
  \/ Crash
  \/ \E i \in Issues :
       \/ RunBegins(i) \/ RunAdvances(i) \/ RunDecides(i) \/ RunRaises(i)
       \/ AgentStarts(i) \/ AgentExits(i) \/ StrayStep(i)
       \/ AbortKills(i) \/ AbortMarks(i) \/ AbortReports(i)
       \/ StatusCommand(i) \/ Human(i)

(***************************************************************************)
(* The event loop and its worker threads run; the queue starts what it     *)
(* accepted (RunService); a candidate gives up after its last attempt.     *)
(***************************************************************************)
Fairness ==
  /\ WF_vars(TickStep)
  /\ WF_vars(BootStep)
  /\ \A i \in Issues :
       /\ SF_vars(RunBegins(i))
       /\ WF_vars(RunAdvances(i))
       /\ SF_vars(RunDecides(i))
       /\ WF_vars(AgentExits(i))
       /\ WF_vars(StrayExits(i))
       /\ SF_vars(DetachedEnds(i))
       /\ WF_vars(AbortMarks(i) \/ AbortReports(i))

Spec == Init /\ [][Next]_vars
FairSpec == Spec /\ Fairness

-----------------------------------------------------------------------------
(* Properties *)

\* docs/ARCHITECTURE.md: in Human Review the issue waits for a person.  A
\* card the bot has put there is moved on by nobody else.  Spec does not have
\* this property (README.md).
OnlyPeopleLeaveReview ==
  [][\A i \in Issues : board[i] = "Human Review" /\ board'[i] # board[i] => HumanMoves(i)]_vars

\* docs/ARCHITECTURE.md: abort stops the current attempt and takes the issue
\* to Blocked.  While the aborted run comes to its end the card stays there.
\* Spec does not have this property (README.md).
AbortHolds ==
  [][\A i \in Issues :
       killed[i] > 0 /\ board[i] = "Blocked" => board'[i] = "Blocked" \/ HumanMoves(i)]_vars

\* docs/ARCHITECTURE.md: an issue has one active attempt at a time.  No
\* process of an earlier run works beside the present one, whatever died,
\* restarted or was restored in between.
OneAgent == \A i \in Issues : agents[i] > 0 => strays[i] = 0

\* Nothing takes a card out of Done but the write of an /abort that was
\* given before the merge and is still on its way.
DoneIsFinal ==
  [][\A i \in Issues :
       board[i] = "Done" => board'[i] = "Done" \/ AbortReports(i)]_vars

\* An issue is not left In Progress with nothing behind it, whether its run
\* was cut off by a crash or a stale listing put it back there.
InProgressIsReal ==
  \A i \in Issues : local[i] = "In Progress" /\ ~Active(i) ~> local[i] # "In Progress" \/ Active(i)

\* A card that asks for a run is not overlooked for ever: the copies the
\* scheduler works on and the gate it asks come to agree.
RequestServed ==
  \A i \in Issues :
    []<>~(board[i] \in DispatchStates /\ plan[i] = "Approved" /\ ~IsRunning(i))

\* docs/ARCHITECTURE.md: the dispatch pass takes Rework to a new run.
ReworkIsRetried ==
  \A i \in Issues :
    []<>~(local[i] = "Rework" /\ plan[i] = "Approved" /\ ~IsRunning(i))
=============================================================================
