---------------------------- MODULE Conversation ----------------------------
(***************************************************************************)
(* One thread of the chat from its first message to the run of its issue:  *)
(* the requirements dialogue, /plan, /approve-plan, /reject-plan, /revise  *)
(* (app/discord_adapter.py), the draft, its binding and the issue's record *)
(* in the state store (app/state_store.py), the issue on GitHub.           *)
(*                                                                         *)
(* Every message and command is a coroutine of its own, so that one may    *)
(* act between two awaits of another: handlers is the set of those under   *)
(* way, each with what it read before its last await.  Requirements are    *)
(* abstracted to how many messages of the user they take into account, a   *)
(* plan to its number and the requirements it was drafted from.            *)
(*                                                                         *)
(* The issue is dispatched in steps of its own: the scheduler finds it     *)
(* ready, awaits what GitHub says of it, and puts it in the queue; when    *)
(* its turn has come the run loads what is in the thread by then.          *)
(***************************************************************************)
EXTENDS Naturals, FiniteSets

CONSTANTS
  Projects,      \* whether github_project_id is set, of the settings
  Exclusive,     \* pairs of handlers a user does not let overlap in the thread
  MaxHandlers,   \* bound: handlers under way at once
  MaxMessages,   \* bound: messages of the user
  MaxCommands,   \* bound: commands
  MaxFaults,     \* bound: calls that raise
  MaxCrashes     \* bound: deaths of the bot

Kinds == {"message", "plan", "approve", "reject", "revise"}

ASSUME ConversationAssumption ==
  /\ Projects # {} /\ Projects \subseteq BOOLEAN
  /\ \A pair \in Exclusive : pair \subseteq Kinds
  /\ {MaxHandlers, MaxMessages} \subseteq Nat \ {0}
  /\ {MaxCommands, MaxFaults, MaxCrashes} \subseteq Nat

VARIABLES
  project,   \* github_project_id is set
  store,     \* the files: the draft, the binding, the issues' records
  github,    \* the issues created, their State and Plan on the Project
  said,      \* messages of the user in conversation.jsonl
  handlers,  \* handlers under way
  run,       \* where the issue stands on its way to a run, and what the run has loaded
  left,      \* what remains of the bounds
  approved,  \* history: plans that stood in the thread at an /approve-plan
  lost       \* history: created issues whose number never reached the store

vars == <<project, store, github, said, handlers, run, left, approved, lost>>

Numbers == 1..MaxCommands      \* issue numbers; a plan or an issue costs a command
Plans == [id : 1..MaxCommands, of : 1..MaxMessages]
NoPlan == [id |-> 0, of |-> 0]

DraftStatus == {"draft", "planning", "test_plan_generating", "awaiting_approval",
                "failed", "changes_requested", "promoted", "promotion_failed",
                "requirements_dialogue", "ready_for_confirmation",
                "requirements_error", "requirements_question"}
IssueStatus == {"Backlog", "Ready", "In Progress", "Human Review", "Rework", "Blocked"}
PlanState == {"", "Drafted", "Approved", "Changes Requested"}

\* THREAD_LOCAL_STATUSES, of those that occur here.
ThreadLocal == DraftStatus \ {"draft", "promoted", "test_plan_generating",
                              "requirements_question"}

Entity == [status : DraftStatus \union IssueStatus, planState : PlanState,
           summary : 0..MaxMessages, plan : Plans \union {NoPlan},
           issue : 0..MaxCommands]
NoEntity == [status |-> "", planState |-> "", summary |-> 0, plan |-> NoPlan,
             issue |-> 0]

Handler == [kind : Kinds, pc : {"reading", "replying", "deferred", "planning",
                                "syncing", "creating", "created", "adding",
                                "approving", "readying", "ticking", "closing"},
            id : 1..MaxHandlers, status : DraftStatus \union IssueStatus \union {""},
            key : 0..MaxCommands, number : 0..MaxCommands, of : 0..MaxMessages]

\* accepts: the State the gate asks for.  gate: the plan in the thread when
\* GitHub let the issue through.  shown: runtime_status says queued or running.
Run == [pc : {"none", "gate", "gated", "queued", "running"},
        accepts : SUBSET {"Ready", "Rework"}, gate : 0..MaxCommands,
        plan : Plans \union {NoPlan}, summary : 0..MaxMessages, shown : BOOLEAN]
NoRun == [pc |-> "none", accepts |-> {}, gate |-> 0, plan |-> NoPlan, summary |-> 0,
          shown |-> FALSE]

TypeOK ==
  /\ project \in BOOLEAN
  /\ store \in [draft : Entity \union {NoEntity}, bound : 0..MaxCommands,
                issues : [Numbers -> Entity \union {NoEntity}]]
  /\ github \in [Numbers -> [created : BOOLEAN, listed : BOOLEAN,
                             state : IssueStatus \union {""}, plan : PlanState]]
  /\ said \in 0..MaxMessages
  /\ handlers \subseteq Handler /\ IsFiniteSet(handlers)
  /\ run \in Run
  /\ left \in [commands : 0..MaxCommands, faults : 0..MaxFaults,
               crashes : 0..MaxCrashes]
  /\ approved \subseteq 1..MaxCommands
  /\ lost \in Nat

-----------------------------------------------------------------------------
(* The state store: each operator is the store after one call *)

\* _resolve_entity_key with load_meta and load_artifact: the thread means its
\* issue once it is bound.
Load(s) == IF s.bound = 0 THEN s.draft ELSE s.issues[s.bound]

\* update_meta and write_artifact, for the same identifier.
Put(s, entity) ==
  IF s.bound = 0 THEN [s EXCEPT !.draft = entity]
                 ELSE [s EXCEPT !.issues[s.bound] = entity]

UpdateStatus(s, status) == Put(s, [Load(s) EXCEPT !.status = status])
UpdateDraft(s, status) == [s EXCEPT !.draft.status = status]

\* _promote_draft_artifacts: what the draft has is copied over the issue's.
Promoted(draft, entity) ==
  [entity EXCEPT
     !.summary = IF draft.summary # 0 THEN draft.summary ELSE @,
     !.plan    = IF draft.plan # NoPlan THEN draft.plan ELSE @,
     !.issue   = IF draft.issue # 0 THEN draft.issue ELSE @]

\* create_issue_record takes the status of the draft.
Recorded(s, n) ==
  IF s.issues[n] = NoEntity
  THEN [s EXCEPT !.issues[n] = [NoEntity EXCEPT !.status = s.draft.status]]
  ELSE s

\* bind_thread raises when the thread has another issue.
MayBind(s, n) == s.bound \in {0, n}

\* bind_issue.  A new record is bound before the files are promoted, a known
\* one after: an error finds the record made, or the files copied.
BindIssue(s, n) ==
  LET recorded == Recorded(s, n)
      promoted == [recorded EXCEPT !.issues[n] = Promoted(s.draft, @)]
  IN  IF MayBind(s, n) THEN [promoted EXCEPT !.bound = n]
      ELSE IF s.issues[n] = NoEntity THEN recorded ELSE promoted

\* Variant: the issue.json of the issue is cleared like the draft's.
ClearAll(s) ==
  LET cleared == [s EXCEPT !.draft.plan = NoPlan, !.draft.issue = 0]
  IN  IF s.bound = 0 THEN cleared
      ELSE [cleared EXCEPT !.issues[s.bound].plan = NoPlan, !.issues[s.bound].issue = 0]

\* _clear_execution_artifacts: a bound issue keeps its issue.json.
Clear(s) ==
  LET cleared == [s EXCEPT !.draft.plan = NoPlan, !.draft.issue = 0]
  IN  IF s.bound = 0 THEN cleared
      ELSE [cleared EXCEPT !.issues[s.bound].plan = NoPlan]

\* _load_thread_ui_meta: the status the thread shows.
UiStatus(s) ==
  IF s.bound # 0 /\ s.draft.status \in ThreadLocal \ {"planning"}
  THEN s.draft.status ELSE Load(s).status

-----------------------------------------------------------------------------
(* GitHub: each operator is what it holds after one call of the client *)

\* _find_project_item_id
HasCard(g, n) == g[n].listed

\* _update_project_single_select: nothing is set on an issue without a card,
\* and nothing is said of it.
SetField(g, n, field, value) ==
  IF HasCard(g, n) THEN [g EXCEPT ![n][field] = value] ELSE g

SetPlan(g, n, plan) == SetField(g, n, "plan", plan)
\* Variant: the state is set in the other field of the Project.
SetStateAsPlan(g, n, state) == SetField(g, n, "plan", state)

SetState(g, n, state) == SetField(g, n, "state", state)
\* Variant: the card is not made.
AddNothing(g, n) == g

AddToProject(g, n) == IF project THEN [g EXCEPT ![n].listed = TRUE] ELSE g

\* create_issue numbers the issues of a repository in turn.
NextNumber(g) == {n \in Numbers : \A k \in Numbers : g[k].created <=> k < n}
CreateIssue(g, n) == [g EXCEPT ![n].created = TRUE]

\* list_project_issues; the fields of one issue, where a field that is not set
\* makes the whole answer void.
Cards(g) == {[number |-> n, state |-> g[n].state, plan |-> g[n].plan] :
               n \in {k \in Numbers : HasCard(g, k)}}
Gate(g, n) ==
  IF HasCard(g, n) /\ g[n].state # "" /\ g[n].plan # ""
  THEN [state |-> g[n].state, plan |-> g[n].plan] ELSE [state |-> "", plan |-> ""]

-----------------------------------------------------------------------------
(* Handlers *)

Managed == store.draft # NoEntity
IsRunning == run.pc = "running"
IsActive == run.pc \in {"queued", "running"}

FreeIds == 1..MaxHandlers \ {h.id : h \in handlers}

MayStart(kind) ==
  /\ FreeIds # {}
  /\ \A h \in handlers : {kind, h.kind} \notin Exclusive

NewHandler(kind, pc) ==
  [kind |-> kind, pc |-> pc, id |-> CHOOSE i \in FreeIds : \A j \in FreeIds : i <= j,
   status |-> "", key |-> 0, number |-> 0, of |-> 0]

Start(h) == handlers' = handlers \union {h}
Continue(h, next) == handlers' = (handlers \ {h}) \union {next}
End(h) == handlers' = handlers \ {h}

Command(kind) ==
  /\ Managed /\ MayStart(kind) /\ left.commands > 0
  /\ left' = [left EXCEPT !.commands = @ - 1]

Fault == left.faults > 0 /\ left' = [left EXCEPT !.faults = @ - 1]

Init ==
  /\ project \in Projects
  /\ store = [draft |-> NoEntity, bound |-> 0, issues |-> [n \in Numbers |-> NoEntity]]
  /\ github = [n \in Numbers |-> [created |-> FALSE, listed |-> FALSE,
                                  state |-> "", plan |-> ""]]
  /\ said = 0 /\ handlers = {} /\ run = NoRun
  /\ left = [commands |-> MaxCommands, faults |-> MaxFaults, crashes |-> MaxCrashes]
  /\ approved = {} /\ lost = 0

(* Messages: _handle_requirements_channel_message, _handle_thread_message *)

\* The first message makes the thread and its draft.
NewThread ==
  /\ ~Managed
  /\ store' = [store EXCEPT !.draft = [NoEntity EXCEPT !.status = "draft"]]
  /\ said' = 1
  /\ Start([NewHandler("message", "replying") EXCEPT !.of = 1])
  /\ UNCHANGED <<project, github, run, left, approved, lost>>

\* The files say that the issue runs or waits to, and it does not.
Stale ==
  /\ store.bound # 0 /\ ~IsActive
  /\ run.shown \/ Load(store).status = "In Progress"

\* _reconcile_runtime_state: an error of GitHub is logged.
Reconcile ==
  IF Stale
  THEN /\ store' = UpdateStatus(store, "Rework")
       /\ run' = [run EXCEPT !.shown = FALSE]
       /\ \/ github' = SetState(github, store.bound, "Rework") /\ UNCHANGED left
          \/ Fault /\ UNCHANGED github
  ELSE UNCHANGED <<store, run, github, left>>

\* A message is taken up, with what the thread shows, unless the thread is
\* planning, about to run or running.
MessageArrives ==
  /\ Managed /\ MayStart("message") /\ said < MaxMessages
  /\ ~IsRunning
  /\ Reconcile
  /\ ~(store.bound # 0 /\ Load(store').status = "Ready")
  /\ UiStatus(store') # "planning" /\ ~run'.shown
  /\ Start([NewHandler("message", "reading") EXCEPT
              !.status = UiStatus(store'), !.key = store.bound])
  /\ UNCHANGED <<project, said, approved, lost>>

\* Its attachments have been read; what it found then decides what is cleared.
MessageTaken(h) ==
  /\ h.kind = "message" /\ h.pc = "reading" /\ said < MaxMessages
  /\ store' = IF h.status \in {"awaiting_approval", "Blocked"}
              THEN Clear(store) ELSE store
  /\ said' = said + 1
  /\ Continue(h, [h EXCEPT !.pc = "replying", !.of = said + 1])
  /\ UNCHANGED <<project, github, run, left, approved, lost>>

\* Attachments that cannot be read are answered with what is wrong with them.
AttachmentsRefused(h) ==
  /\ h.kind = "message" /\ h.pc = "reading"
  /\ End(h)
  /\ UNCHANGED <<project, store, github, said, run, left, approved, lost>>

\* RequirementsFlow.build_reply: every message answers a question at least, the
\* first one no more than that.
FlowReplies(v) ==
  IF v = 1 THEN {[status |-> "requirements_question", summary |-> 0]}
  ELSE {[status |-> "requirements_question", summary |-> 0],
        [status |-> "ready_for_confirmation", summary |-> v]}

\* The model's answer, its fields filled in where it left them out.
ModelReplies(v) ==
  [status : {"requirements_dialogue", "ready_for_confirmation"}, summary : {v}]

\* RequirementsAgent.build_reply: the model's answer, or the fixed questions or
\* an error in its place.
Replies(v) ==
  ModelReplies(v) \union FlowReplies(v)
    \union {[status |-> "requirements_error", summary |-> 0]}

\* _persist_artifacts
Persist(s, summary) == IF summary = 0 THEN s ELSE Put(s, [Load(s) EXCEPT !.summary = summary])

\* The answer was built from the conversation as it stood at some moment after
\* the message, and has been sent.
ReplySent(h) ==
  /\ h.kind = "message" /\ h.pc = "replying"
  /\ \E v \in h.of..said : \E reply \in Replies(v) :
       LET answered == IF h.key # 0 /\ reply.status # "requirements_question"
                       THEN UpdateDraft(store, reply.status)
                       ELSE UpdateStatus(store, reply.status)
       IN  store' = Persist(answered, reply.summary)
  /\ End(h)
  /\ UNCHANGED <<project, github, said, run, left, approved, lost>>

\* The chat refuses the answer: nothing of it is kept.
ReplyLost(h) ==
  /\ h.kind = "message" /\ h.pc = "replying"
  /\ Fault /\ End(h)
  /\ UNCHANGED <<project, store, github, said, run, approved, lost>>

(* /plan: _generate_plan *)

PlanCommand ==
  /\ Command("plan")
  /\ ~IsRunning /\ Load(store).summary # 0
  /\ Start([NewHandler("plan", "deferred") EXCEPT !.of = Load(store).summary,
                                                  !.number = left.commands])
  /\ UNCHANGED <<project, store, github, said, run, approved, lost>>

PlanBegins(h) ==
  /\ h.kind = "plan" /\ h.pc = "deferred"
  /\ store' = IF store.bound = 0 THEN UpdateStatus(store, "planning") ELSE store
  /\ Continue(h, [h EXCEPT !.pc = "planning", !.key = store.bound])
  /\ UNCHANGED <<project, github, said, run, left, approved, lost>>

\* report_progress, from the thread that plans.
PlanReports(h) ==
  /\ h.kind = "plan" /\ h.pc = "planning" /\ store.bound = 0
  /\ store' = UpdateStatus(store, "test_plan_generating")
  /\ UNCHANGED <<project, github, said, handlers, run, left, approved, lost>>

\* Variant: a plan that fails leaves the status of a thread without an issue.
PlanFailsQuietly(h) ==
  /\ h.kind = "plan" /\ h.pc = "planning"
  /\ Fault /\ End(h)
  /\ store' = IF h.key = 0 THEN store ELSE UpdateDraft(store, "failed")
  /\ UNCHANGED <<project, github, said, run, approved, lost>>

PlanFails(h) ==
  /\ h.kind = "plan" /\ h.pc = "planning"
  /\ Fault /\ End(h)
  /\ store' = IF h.key = 0 THEN UpdateStatus(store, "failed")
                           ELSE UpdateDraft(store, "failed")
  /\ UNCHANGED <<project, github, said, run, approved, lost>>

\* A plan has the number of its command.
WithPlan(s, h) ==
  Put(Clear(s), [Load(Clear(s)) EXCEPT !.plan = [id |-> h.number, of |-> h.of]])

\* No issue when the planning began: the plan and the status go to what the
\* thread means now.
PlanDrafted(h) ==
  /\ h.kind = "plan" /\ h.pc = "planning" /\ h.key = 0
  /\ store' = LET s == WithPlan(store, h)
              IN  Put(s, [Load(s) EXCEPT !.status = "awaiting_approval",
                                         !.planState = "Drafted"])
  /\ End(h)
  /\ UNCHANGED <<project, github, said, run, left, approved, lost>>

\* Otherwise the Project is told first, and the plan is kept when it knows.
PlanBuilt(h) ==
  /\ h.kind = "plan" /\ h.pc = "planning" /\ h.key # 0
  /\ Continue(h, [h EXCEPT !.pc = "syncing"])
  /\ UNCHANGED <<project, store, github, said, run, left, approved, lost>>

\* Variant: the Project is not told of the new plan.
PlanKeptQuietly(h) ==
  /\ h.kind = "plan" /\ h.pc = "syncing"
  /\ store' = [UpdateDraft(WithPlan(store, h), "awaiting_approval")
                 EXCEPT !.issues[h.key].planState = "Drafted"]
  /\ End(h)
  /\ UNCHANGED <<project, github, said, run, left, approved, lost>>

PlanSynced(h) ==
  /\ h.kind = "plan" /\ h.pc = "syncing"
  /\ github' = SetPlan(github, h.key, "Drafted")
  /\ store' = [UpdateDraft(WithPlan(store, h), "awaiting_approval")
                 EXCEPT !.issues[h.key].planState = "Drafted"]
  /\ End(h)
  /\ UNCHANGED <<project, said, run, left, approved, lost>>

PlanNotSynced(h) ==
  /\ h.kind = "plan" /\ h.pc = "syncing"
  /\ Fault /\ End(h)
  /\ \E heard \in BOOLEAN :
       github' = IF heard THEN SetPlan(github, h.key, "Drafted") ELSE github
  /\ store' = UpdateDraft(store, "failed")
  /\ UNCHANGED <<project, said, run, approved, lost>>

(* /approve-plan: _promote_approved_plan with ensure_issue_for_thread *)

ApproveCommand ==
  /\ Command("approve")
  /\ ~IsRunning /\ Load(store).plan # NoPlan
  /\ approved' = approved \union {Load(store).plan.id}
  /\ Start(NewHandler("approve", "deferred"))
  /\ UNCHANGED <<project, store, github, said, run, lost>>

\* Variant: an error takes the binding back.
RefuseUnbinds(h, s) ==
  /\ store' = [s EXCEPT !.bound = 0]
  /\ End(h)

\* Any error from here on is reported; a thread with an issue notes it.
Refuse(h, s) ==
  /\ store' = IF s.bound # 0 THEN UpdateDraft(s, "promotion_failed") ELSE s
  /\ End(h)

Bind(h, s, n) ==
  IF MayBind(s, n)
  THEN /\ store' = BindIssue(s, n)
       /\ Continue(h, [h EXCEPT !.pc = "adding", !.number = n])
  ELSE Refuse(h, BindIssue(s, n))

ApproveBegins(h) ==
  /\ h.kind = "approve" /\ h.pc = "deferred"
  /\ \/ /\ Load(store).plan = NoPlan
        /\ Refuse(h, store)
     \/ /\ Load(store).plan # NoPlan /\ Load(store).issue = 0
        /\ Continue(h, [h EXCEPT !.pc = "creating"])
        /\ UNCHANGED store
     \/ /\ Load(store).plan # NoPlan /\ Load(store).issue # 0
        /\ Bind(h, store, Load(store).issue)
  /\ UNCHANGED <<project, github, said, run, left, approved, lost>>

IssueCreated(h) ==
  /\ h.kind = "approve" /\ h.pc = "creating"
  /\ \E n \in NextNumber(github) :
       /\ github' = CreateIssue(github, n)
       /\ Continue(h, [h EXCEPT !.pc = "created", !.number = n])
  /\ UNCHANGED <<project, store, said, run, left, approved, lost>>

\* Variant: issue.json is not written.
IssueAnsweredUnrecorded(h) ==
  /\ h.kind = "approve" /\ h.pc = "created"
  /\ Bind(h, store, h.number)
  /\ UNCHANGED <<project, github, said, run, left, approved, lost>>

\* The answer arrives: issue.json is written where the thread points, then the
\* thread is bound.
IssueAnswered(h) ==
  /\ h.kind = "approve" /\ h.pc = "created"
  /\ Bind(h, Put(store, [Load(store) EXCEPT !.issue = h.number]), h.number)
  /\ UNCHANGED <<project, github, said, run, left, approved, lost>>

IssueNotAnswered(h) ==
  /\ h.kind = "approve" /\ h.pc \in {"creating", "created"}
  /\ Fault /\ Refuse(h, store)
  /\ lost' = IF h.pc = "created" THEN lost + 1 ELSE lost
  /\ UNCHANGED <<project, github, said, run, approved>>

\* add_issue_to_project, update_issue_plan, update_issue_state
AddedToProject(h) ==
  /\ h.kind = "approve" /\ h.pc = "adding"
  /\ github' = AddToProject(github, h.number)
  /\ Continue(h, [h EXCEPT !.pc = "approving"])
  /\ UNCHANGED <<project, store, said, run, left, approved, lost>>

PlanApproved(h) ==
  /\ h.kind = "approve" /\ h.pc = "approving"
  /\ github' = SetPlan(github, h.number, "Approved")
  /\ Continue(h, [h EXCEPT !.pc = "readying"])
  /\ UNCHANGED <<project, store, said, run, left, approved, lost>>

MadeReady(h) ==
  /\ h.kind = "approve" /\ h.pc = "readying"
  /\ github' = SetState(github, h.number, "Ready")
  /\ store' = [UpdateDraft(store, "promoted") EXCEPT
                 !.issues[h.number].status = "Ready",
                 !.issues[h.number].planState = "Approved"]
  /\ Continue(h, [h EXCEPT !.pc = "ticking"])
  /\ UNCHANGED <<project, said, run, left, approved, lost>>

Queue(gate) == [NoRun EXCEPT !.pc = "queued", !.gate = gate, !.shown = TRUE]

\* The scheduler's tick, then the answer to the user.  Without a Project there
\* is no tick: the issue is put in the queue, and it is an error when it is
\* there already.
ApproveEnds(h) ==
  /\ h.kind = "approve" /\ h.pc = "ticking"
  /\ \/ project /\ End(h) /\ UNCHANGED <<store, run>>
     \/ ~project /\ IsActive /\ Refuse(h, store) /\ UNCHANGED run
     \/ /\ ~project /\ ~IsActive
        /\ End(h)
        /\ run' = Queue(Load(store).plan.id)
        /\ UNCHANGED store
  /\ UNCHANGED <<project, github, said, left, approved, lost>>

PromotionFails(h) ==
  /\ h.kind = "approve" /\ h.pc \in {"adding", "approving", "readying", "ticking"}
  /\ Fault /\ Refuse(h, store)
  /\ UNCHANGED <<project, github, said, run, approved, lost>>

(* /reject-plan and /revise *)

\* With no issue there is nothing to tell GitHub, and no await.
RejectCommand ==
  /\ Command("reject")
  /\ Load(store).plan # NoPlan
  /\ store' = UpdateDraft(store, "changes_requested")
  /\ IF store.bound = 0 THEN UNCHANGED handlers
     ELSE Start([NewHandler("reject", "closing") EXCEPT !.key = store.bound])
  /\ UNCHANGED <<project, github, said, run, approved, lost>>

\* An error of GitHub is logged, and the command succeeds.
RejectEnds(h) ==
  /\ h.kind = "reject" /\ h.pc = "closing"
  /\ \/ /\ github' = SetPlan(github, h.key, "Changes Requested")
        /\ UNCHANGED left
     \/ Fault /\ UNCHANGED github
  /\ store' = [store EXCEPT !.issues[h.key].planState = "Changes Requested"]
  /\ End(h)
  /\ UNCHANGED <<project, said, run, approved, lost>>

ReviseCommand ==
  /\ Command("revise")
  /\ ~IsRunning
  /\ IF store.bound = 0
     THEN /\ store' = UpdateStatus(Clear(store), "requirements_dialogue")
          /\ UNCHANGED handlers
     ELSE /\ store' = UpdateDraft(Clear(store), "requirements_dialogue")
          /\ Start([NewHandler("revise", "closing") EXCEPT !.key = store.bound])
  /\ UNCHANGED <<project, github, said, run, approved, lost>>

ReviseEnds(h) ==
  /\ h.kind = "revise" /\ h.pc = "closing"
  /\ LET told == SetPlan(github, h.key, "Changes Requested")
     IN  \/ /\ github' = SetState(told, h.key, "Backlog")
            /\ UNCHANGED left
         \/ Fault /\ github' \in {github, told}
  /\ store' = [store EXCEPT !.issues[h.key].status = "Backlog",
                            !.issues[h.key].planState = "Changes Requested"]
  /\ End(h)
  /\ UNCHANGED <<project, said, run, approved, lost>>

-----------------------------------------------------------------------------
(* The scheduler, the run and the death of the bot, as the thread sees them *)

\* sync_project_board_state with _resolve_synced_state
BoardSync ==
  \E card \in Cards(github) :
    LET n == card.number
        stale == card.state = "In Progress" /\ ~IsActive
                   /\ store.issues[n].status = "Rework"
        status == IF stale \/ card.state = "" THEN store.issues[n].status ELSE card.state
    IN
    /\ store.issues[n] # NoEntity
    /\ store' = [store EXCEPT !.issues[n].status = status,
                              !.issues[n].planState = card.plan,
                              !.issues[n].issue = n]
    /\ UNCHANGED <<project, github, said, handlers, run, left, approved, lost>>

\* The tick finds an issue In Progress that does not run.
TickReconciles ==
  /\ project /\ store.bound # 0 /\ Load(store).status = "In Progress"
  /\ Stale /\ Reconcile
  /\ UNCHANGED <<project, said, handlers, approved, lost>>

HasPlanningArtifacts(entity) == entity.plan # NoPlan /\ entity.summary # 0

\* The run is given up; what runtime_status shows stays.
NotRun == [NoRun EXCEPT !.shown = run.shown]

\* The tick, to _dispatch_issue_if_ready: what the thread has is looked at
\* before GitHub is asked.
DispatchBegins ==
  /\ project /\ store.bound # 0 /\ run.pc = "none"
  /\ Load(store).status \in {"Ready", "Rework"}
  /\ HasPlanningArtifacts(Load(store))
  /\ run' = [run EXCEPT !.pc = "gate", !.accepts = {Load(store).status}]
  /\ UNCHANGED <<project, store, github, said, handlers, left, approved, lost>>

Passes(gate) == gate.state \in run.accepts /\ gate.plan = "Approved"

\* scheduler_gate_for_issue asks GitHub; an error says no.
GateReads ==
  /\ run.pc = "gate"
  /\ \/ /\ Passes(Gate(github, store.bound))
        /\ run' = [NotRun EXCEPT !.pc = "gated", !.gate = Load(store).plan.id]
        /\ UNCHANGED left
     \/ ~Passes(Gate(github, store.bound)) /\ run' = NotRun /\ UNCHANGED left
     \/ Fault /\ run' = NotRun
  /\ UNCHANGED <<project, store, github, said, handlers, approved, lost>>

\* The answer arrives, issue.json is read, and the issue is put in the queue.
Enqueued ==
  /\ run.pc = "gated"
  /\ run' = IF Load(store).issue = 0 THEN NotRun ELSE Queue(run.gate)
  /\ UNCHANGED <<project, store, github, said, handlers, left, approved, lost>>

\* Its turn has come: execute_run loads the thread's artifacts, which may be
\* empty, and asks GitHub no more.
RunLoads ==
  /\ run.pc = "queued"
  /\ run' = [run EXCEPT !.pc = "running", !.plan = Load(store).plan,
                        !.summary = Load(store).summary]
  /\ store' = UpdateStatus(store, "In Progress")
  /\ github' = SetState(github, store.bound, "In Progress")
  /\ UNCHANGED <<project, said, handlers, left, approved, lost>>

\* A run that raises goes to Rework in the files only.
RunEnds ==
  /\ IsRunning
  /\ \E status \in {"Human Review", "Rework", "Blocked"} :
       /\ store' = UpdateStatus(store, status)
       /\ github' \in {SetState(github, store.bound, status)}
                        \union (IF status = "Rework" THEN {github} ELSE {})
  /\ run' = NoRun
  /\ UNCHANGED <<project, said, handlers, left, approved, lost>>

\* The handlers and the queue are gone.  restore_pending_runs takes an issue
\* that was In Progress to Rework, and puts one that was Ready or in Rework in
\* the queue again, when GitHub lets it through.
Crash ==
  /\ left.crashes > 0 /\ left' = [left EXCEPT !.crashes = @ - 1]
  /\ handlers' = {}
  /\ lost' = lost + Cardinality({h \in handlers : h.pc = "created"})
  /\ \/ /\ store.bound # 0 /\ Load(store).status = "In Progress"
        /\ store' = UpdateStatus(store, "Rework")
        /\ github' = SetState(github, store.bound, "Rework")
        /\ run' = NoRun
     \/ /\ store.bound # 0 /\ Load(store).status \in {"Ready", "Rework"}
        /\ Load(store).issue # 0
        /\ run' = IF project THEN [NotRun EXCEPT !.pc = "gate", !.accepts = {"Ready", "Rework"}]
                             ELSE [NotRun EXCEPT !.pc = "gated"]
        /\ UNCHANGED <<store, github>>
     \/ /\ store.bound = 0 \/ Load(store).issue = 0
             \/ Load(store).status \notin {"In Progress", "Ready", "Rework"}
        /\ run' = NotRun
        /\ UNCHANGED <<store, github>>
  /\ UNCHANGED <<project, said, approved>>

Commands == PlanCommand \/ ApproveCommand \/ RejectCommand \/ ReviseCommand

Progress(h) ==
  \/ MessageTaken(h) \/ AttachmentsRefused(h) \/ ReplySent(h)
  \/ PlanBegins(h) \/ PlanDrafted(h) \/ PlanBuilt(h) \/ PlanSynced(h)
  \/ ApproveBegins(h) \/ IssueCreated(h) \/ IssueAnswered(h) \/ AddedToProject(h)
  \/ PlanApproved(h) \/ MadeReady(h) \/ ApproveEnds(h)
  \/ RejectEnds(h) \/ ReviseEnds(h)

Failure(h) ==
  ReplyLost(h) \/ PlanFails(h) \/ PlanNotSynced(h) \/ IssueNotAnswered(h)
    \/ PromotionFails(h)

Dispatch == DispatchBegins \/ GateReads \/ Enqueued \/ RunLoads

Next ==
  \/ NewThread \/ MessageArrives \/ Commands
  \/ \E h \in handlers : Progress(h) \/ PlanReports(h) \/ Failure(h)
  \/ BoardSync \/ TickReconciles \/ Dispatch \/ RunEnds \/ Crash

Spec == Init /\ [][Next]_vars

\* A coroutine whose await is answered goes on, the scheduler ticks, and the
\* queue gets to the issue: the runs of other issues end.
FairSpec ==
  /\ Spec
  /\ WF_vars(\E h \in handlers : Progress(h))
  /\ WF_vars(BoardSync)
  /\ WF_vars(Dispatch)

-----------------------------------------------------------------------------
(* Properties *)

\* A thread that has an issue keeps it: bind_thread never moves a binding, and
\* no command takes it away.
BindingIsForGood == [][store.bound # 0 => store'.bound = store.bound]_vars

\* The issue.json of a thread with an issue names that issue, whatever is
\* cleared, promoted, synced or approved again.
BoundHasIssue == store.bound # 0 => Load(store).issue = store.bound

\* A thread makes one issue on GitHub, but for those whose creation was never
\* answered (ensure_issue_for_thread creates only without issue.json).
OneIssuePerThread == Cardinality({n \in Numbers : github[n].created}) <= 1 + lost

\* When GitHub lets an issue through, the plan in its thread is one that stood
\* there when the user approved, or has been taken away: no /plan, no late reply
\* and no revision puts another plan behind an approval that GitHub still shows.
GateSawApproved ==
  project /\ run.pc \in {"gated", "queued", "running"} => run.gate \in approved \union {0}

\* While the bot has not died, a thread without an issue shows that it is being
\* planned only while it is: a status left behind would refuse every message.
PlanningIsReal ==
  /\ store.bound = 0 /\ left.crashes = MaxCrashes
  /\ Managed /\ store.draft.status \in {"planning", "test_plan_generating"}
  => \E h \in handlers : h.kind = "plan"

\* A promoted issue that is Ready is run, unless the user takes up the
\* requirements again: what the gate asks of GitHub is what promotion wrote.
ApprovedIsRun ==
  (store.bound # 0 /\ Load(store).status = "Ready" /\ store.draft.status = "promoted")
    ~> (IsRunning \/ store.draft.status # "promoted")

\* README.md:13: code is made from the approved plan.  The plan a run works from
\* once stood in the thread when the user approved.  Spec does not have this
\* property: /plan and /revise are admitted while the issue is queued, and the run
\* loads what they left (README.md).
RunsWhatWasApproved == IsRunning => run.plan.id \in approved

\* A run works from requirements at least as new as those its plan was drafted
\* from: docs/ARCHITECTURE.md keeps the draft of a promoted issue as history only.
\* Spec does not have this property (README.md).
RunIsUpToDate == IsRunning => run.summary >= run.plan.of
=============================================================================
