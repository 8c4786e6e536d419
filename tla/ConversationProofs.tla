------------------------- MODULE ConversationProofs -------------------------
(***************************************************************************)
(* The thread and its issue, for every number of handlers, messages,       *)
(* commands, faults and crashes.  The binding is made once and for all and *)
(* the planning that the thread shows is under way, whichever handlers     *)
(* overlap.  The issue is one, and the bound record names it, when a user  *)
(* does not approve twice at once; GitHub lets an issue through on a plan  *)
(* that was approved when he does not plan and approve at once either.     *)
(*                                                                         *)
(* The invariants are built on one another: ThreadInv (the shape of the    *)
(* store and what a handler knows), IssueInv (adds where the issue is      *)
(* written and counted), PlanInv (adds which copies of a plan were         *)
(* approved).                                                              *)
(***************************************************************************)
EXTENDS Conversation, NaturalFacts

-----------------------------------------------------------------------------
(* The binding.                                                            *)

\* The three parts of the store are there, whatever they hold.
IsStore(s) == s = [draft |-> s.draft, bound |-> s.bound, issues |-> s.issues]

\* One store follows another without letting go of a binding.
HoldsOn(s, t) == IsStore(t) /\ (s.bound # 0 => t.bound = s.bound)

-----------------------------------------------------------------------------
(* The operators of the store.                                             *)

\* update_meta and write_artifact.
LEMMA PutHoldsOn ==
  ASSUME NEW s, IsStore(s), NEW e
  PROVE  IsStore(Put(s, e)) /\ Put(s, e).bound = s.bound
BY DEF IsStore, Put

\* _clear_execution_artifacts leaves the binding.
LEMMA ClearHoldsOn ==
  ASSUME NEW s, IsStore(s)
  PROVE  IsStore(Clear(s)) /\ Clear(s).bound = s.bound
BY DEF IsStore, Clear

\* bind_issue makes a binding and moves none.
LEMMA BindHoldsOn ==
  ASSUME NEW s, IsStore(s), NEW n
  PROVE  HoldsOn(s, BindIssue(s, n))
BY DEF IsStore, BindIssue, Recorded, MayBind, HoldsOn

\* A message is taken up and answered.
LEMMA MessagesHoldOn ==
  ASSUME IsStore(store), NEW h \in handlers,
         MessageTaken(h) \/ ReplySent(h)
  PROVE  HoldsOn(store, store')
<1>1. CASE MessageTaken(h)
  BY <1>1, ClearHoldsOn DEF HoldsOn, IsStore, MessageTaken
<1>2. CASE ReplySent(h)
  BY <1>2, PutHoldsOn DEF HoldsOn, IsStore, ReplySent, Persist, UpdateStatus, UpdateDraft
<1> QED
  BY <1>1, <1>2

\* A plan is drafted, or fails.
LEMMA PlanningHoldsOn ==
  ASSUME IsStore(store), NEW h \in handlers,
         PlanBegins(h) \/ PlanReports(h) \/ PlanFails(h) \/ PlanDrafted(h)
         \/ PlanSynced(h) \/ PlanNotSynced(h)
  PROVE  HoldsOn(store, store')
<1>1. CASE PlanBegins(h)
  BY <1>1, PutHoldsOn DEF HoldsOn, IsStore, PlanBegins, UpdateStatus
<1>2. CASE PlanReports(h)
  BY <1>2, PutHoldsOn DEF HoldsOn, IsStore, PlanReports, UpdateStatus
<1>3. CASE PlanFails(h)
  BY <1>3, PutHoldsOn DEF HoldsOn, IsStore, PlanFails, UpdateStatus, UpdateDraft
<1>4. CASE PlanDrafted(h)
  BY <1>4, PutHoldsOn, ClearHoldsOn DEF HoldsOn, IsStore, PlanDrafted, WithPlan
<1>5. CASE PlanSynced(h)
  <2>1. PICK t : t = WithPlan(store, h)
    OBVIOUS
  <2>2. IsStore(t) /\ t.bound = store.bound
    BY <2>1, PutHoldsOn, ClearHoldsOn DEF WithPlan
  <2>3. store' = [UpdateDraft(t, "awaiting_approval")
                    EXCEPT !.issues[h.key].planState = "Drafted"]
    BY <1>5, <2>1 DEF PlanSynced
  <2> QED
    BY <2>2, <2>3 DEF HoldsOn, IsStore, UpdateDraft
<1>6. CASE PlanNotSynced(h)
  BY <1>6, PutHoldsOn DEF HoldsOn, IsStore, PlanNotSynced, UpdateDraft
<1> QED
  BY <1>1, <1>2, <1>3, <1>4, <1>5, <1>6

\* The plan is approved and the thread bound, or refused.
LEMMA ApprovalHoldsOn ==
  ASSUME IsStore(store), NEW h \in handlers,
         ApproveBegins(h) \/ IssueAnswered(h) \/ IssueNotAnswered(h)
         \/ MadeReady(h) \/ ApproveEnds(h) \/ PromotionFails(h)
  PROVE  HoldsOn(store, store')
<1>1. CASE ApproveBegins(h)
  BY <1>1, BindHoldsOn DEF HoldsOn, IsStore, ApproveBegins, Bind, Refuse, UpdateDraft
<1>2. CASE IssueAnswered(h)
  BY <1>2, BindHoldsOn, PutHoldsOn DEF HoldsOn, IsStore, IssueAnswered, Bind, Refuse, UpdateDraft
<1>3. CASE IssueNotAnswered(h)
  BY <1>3 DEF HoldsOn, IsStore, IssueNotAnswered, Refuse, UpdateDraft
<1>4. CASE MadeReady(h)
  BY <1>4 DEF HoldsOn, IsStore, MadeReady, UpdateDraft
<1>5. CASE PromotionFails(h)
  BY <1>5 DEF HoldsOn, IsStore, PromotionFails, Refuse, UpdateDraft
<1>6. CASE ApproveEnds(h)
  BY <1>6 DEF HoldsOn, IsStore, ApproveEnds, Refuse, UpdateDraft
<1> QED
  BY <1>1, <1>2, <1>3, <1>4, <1>5, <1>6

\* The plan is sent back.
LEMMA RejectionHoldsOn ==
  ASSUME IsStore(store), NEW h \in handlers,
         RejectEnds(h) \/ ReviseEnds(h)
  PROVE  HoldsOn(store, store')
<1>1. CASE RejectEnds(h)
  BY <1>1 DEF HoldsOn, IsStore, RejectEnds
<1>2. CASE ReviseEnds(h)
  BY <1>2 DEF HoldsOn, IsStore, ReviseEnds
<1> QED
  BY <1>1, <1>2

\* The steps of the scheduler and the run, and the death of the bot.
Background == BoardSync \/ TickReconciles \/ Dispatch \/ RunEnds \/ Crash

\* The steps that are no handler's.
LEMMA OthersHoldOn ==
  ASSUME IsStore(store),
         NewThread \/ MessageArrives \/ RejectCommand \/ ReviseCommand \/ Background
  PROVE  HoldsOn(store, store')
<1>1. CASE NewThread
  BY <1>1 DEF HoldsOn, IsStore, NewThread
<1>2. CASE RejectCommand
  BY <1>2 DEF HoldsOn, IsStore, RejectCommand, UpdateDraft
<1>3. CASE ReviseCommand
  BY <1>3, PutHoldsOn, ClearHoldsOn DEF HoldsOn, IsStore, ReviseCommand, UpdateStatus, UpdateDraft
<1>4. CASE BoardSync
  BY <1>4 DEF HoldsOn, IsStore, BoardSync
<1>5. CASE MessageArrives \/ TickReconciles
  <2>1. store' \in {store, UpdateStatus(store, "Rework")}
    BY <1>5 DEF MessageArrives, TickReconciles, Reconcile
  <2> QED
    BY <2>1, PutHoldsOn DEF HoldsOn, IsStore, UpdateStatus
<1>6. CASE Dispatch
  <2>1. store' \in {store, UpdateStatus(store, "In Progress")}
    BY <1>6 DEF Dispatch, DispatchBegins, GateReads, Enqueued, RunLoads
  <2> QED
    BY <2>1, PutHoldsOn DEF HoldsOn, IsStore, UpdateStatus
<1>7. CASE RunEnds
  BY <1>7, PutHoldsOn DEF HoldsOn, IsStore, RunEnds, UpdateStatus
<1>8. CASE Crash
  BY <1>8, PutHoldsOn DEF HoldsOn, IsStore, Crash, UpdateStatus
<1> QED
  BY <1>1, <1>2, <1>3, <1>4, <1>5, <1>6, <1>7, <1>8 DEF Background

\* What the background leaves alone.
LEMMA BackgroundLeaves ==
  ASSUME Background
  PROVE  /\ handlers' \subseteq handlers /\ (~Crash => UNCHANGED handlers)
         /\ UNCHANGED <<project, said, approved>>
         /\ UNCHANGED lost \/ Crash
         /\ UNCHANGED left \/ Fault \/ Crash
<1>1. Reconcile => UNCHANGED left \/ Fault
  BY DEF Reconcile
<1>2. CASE Dispatch
  BY <1>2 DEF Dispatch, DispatchBegins, GateReads, Enqueued, RunLoads
<1>3. CASE BoardSync \/ TickReconciles \/ RunEnds
  BY <1>1, <1>3 DEF BoardSync, TickReconciles, RunEnds
<1>4. CASE Crash
  BY <1>4 DEF Crash
<1> QED
  BY <1>2, <1>3, <1>4 DEF Background

\* Every step, and a store that is one stays one.
LEMMA StepHoldsOn == IsStore(store) /\ [Next]_vars => HoldsOn(store, store')
<1> SUFFICES ASSUME IsStore(store), [Next]_vars PROVE HoldsOn(store, store')
  OBVIOUS
<1>1. CASE UNCHANGED store
  BY <1>1 DEF HoldsOn, IsStore
<1>2. ASSUME NEW h \in handlers, Progress(h) \/ PlanReports(h) \/ Failure(h)
      PROVE  HoldsOn(store, store') \/ UNCHANGED store
  BY <1>2, MessagesHoldOn, PlanningHoldsOn, ApprovalHoldsOn, RejectionHoldsOn
  DEF Progress, Failure, AttachmentsRefused, PlanBuilt, IssueCreated, AddedToProject,
      PlanApproved, ReplyLost
<1>3. CASE PlanCommand \/ ApproveCommand
  BY <1>1, <1>3 DEF PlanCommand, ApproveCommand
<1> QED
  BY <1>1, <1>2, <1>3, OthersHoldOn DEF Next, Commands, Background, vars

\* Once a thread has an issue it keeps it, whatever is approved again, refused,
\* cleared or left half done, and in whichever order the handlers come.
THEOREM BindingHolds == Spec => BindingIsForGood
<1>1. Init => IsStore(store)
  BY DEF Init, IsStore
<1>2. IsStore(store) /\ [Next]_vars => IsStore(store)'
  BY StepHoldsOn DEF HoldsOn, IsStore
<1>3. IsStore(store) /\ [Next]_vars => [store.bound # 0 => store'.bound = store.bound]_vars
  BY StepHoldsOn DEF HoldsOn
<1> QED
  BY <1>1, <1>2, <1>3, PTL DEF Spec, BindingIsForGood

-----------------------------------------------------------------------------
(* The operators of the store: the type, and what each call leaves.        *)

Stores == [draft : Entity \union {NoEntity}, bound : 0..MaxCommands,
           issues : [Numbers -> Entity \union {NoEntity}]]

\* A thread that was begun has a draft; once it is bound its issue has a record,
\* and before that no issue has one.
Begun(s) ==
  /\ s \in Stores
  /\ s.draft \in Entity
  /\ s.bound # 0 => s.issues[s.bound] \in Entity
  /\ s.bound = 0 => \A n \in Numbers : s.issues[n] = NoEntity

\* What a call that makes no plan and binds nothing leaves: the binding, the
\* issue that is named, and the plan unless both copies of it are cleared.
Keeps(s, t) ==
  /\ Begun(t)
  /\ t.bound = s.bound
  /\ t.draft.issue \in {0, s.draft.issue}
  /\ s.bound # 0 => Load(t).issue \in {s.bound, Load(s).issue}
  /\ \/ t.draft.plan = s.draft.plan /\ Load(t).plan = Load(s).plan
     \/ t.draft.plan = NoPlan /\ Load(t).plan = NoPlan

\* The bounds are natural numbers, and those of handlers and messages positive.
LEMMA Bounds ==
  /\ MaxHandlers \in Nat \ {0} /\ MaxMessages \in Nat \ {0}
  /\ MaxCommands \in Nat /\ MaxFaults \in Nat /\ MaxCrashes \in Nat
BY ConversationAssumption

\* The fields of a record; what stands for no record and for no plan is none.
LEMMA EntityFacts ==
  /\ NoEntity \notin Entity
  /\ NoPlan \notin Plans
  /\ \A e \in Entity :
       /\ e.status \in DraftStatus \union IssueStatus
       /\ e.plan \in Plans \union {NoPlan}
       /\ e.summary \in 0..MaxMessages
       /\ e.issue \in 0..MaxCommands
       /\ e.planState \in PlanState
<1>1. "" \notin DraftStatus \union IssueStatus
  BY DEF DraftStatus, IssueStatus
<1>2. NoEntity.status = ""
  BY DEF NoEntity
<1>3. NoPlan \notin Plans
  BY DEF NoPlan, Plans
<1> QED
  BY <1>1, <1>2, <1>3 DEF Entity

\* What a begun thread means is a record.
LEMMA LoadIsEntity ==
  ASSUME NEW s, Begun(s)
  PROVE  Load(s) \in Entity
BY DEF Begun, Load

\* A binding is the number of an issue.
LEMMA BoundIsNumber ==
  ASSUME NEW s, s \in Stores, s.bound # 0
  PROVE  s.bound \in Numbers
BY Bounds DEF Stores, Numbers

\* A call that changes nothing leaves everything.
LEMMA KeepsItself ==
  ASSUME NEW s, Begun(s)
  PROVE  Keeps(s, s)
BY DEF Keeps

\* Two calls that leave the plan and the issue, one after the other.
LEMMA KeepsOnKeeping ==
  ASSUME NEW s, NEW t, NEW u, Keeps(s, t), Keeps(t, u)
  PROVE  Keeps(s, u)
BY DEF Keeps

\* update_meta and write_artifact, of an entity with the same plan and issue.
LEMMA PutKeeps ==
  ASSUME NEW s, Begun(s), NEW e \in Entity,
         e.plan = Load(s).plan, e.issue = Load(s).issue
  PROVE  Keeps(s, Put(s, e))
<1>1. CASE s.bound = 0
  BY <1>1 DEF Keeps, Begun, Put, Load, Stores
<1>2. CASE s.bound # 0
  <2>1. s.bound \in Numbers
    BY <1>2, BoundIsNumber DEF Begun
  <2> QED
    BY <1>2, <2>1 DEF Keeps, Begun, Put, Load, Stores
<1> QED
  BY <1>1, <1>2

\* A status is one field of a record.
LEMMA StatusIsEntity ==
  ASSUME NEW e \in Entity, NEW status \in DraftStatus \union IssueStatus
  PROVE  /\ [e EXCEPT !.status = status] \in Entity
         /\ [e EXCEPT !.status = status].plan = e.plan
         /\ [e EXCEPT !.status = status].issue = e.issue
         /\ [e EXCEPT !.status = status].status = status
BY DEF Entity

\* update_meta of the status, where the thread points.
LEMMA UpdateStatusKeeps ==
  ASSUME NEW s, Begun(s), NEW status \in DraftStatus \union IssueStatus
  PROVE  /\ Keeps(s, UpdateStatus(s, status))
         /\ s.bound = 0 => UpdateStatus(s, status).draft.status = status
<1> DEFINE e == [Load(s) EXCEPT !.status = status]
<1>1. /\ e \in Entity /\ e.plan = Load(s).plan /\ e.issue = Load(s).issue
      /\ e.status = status
  BY LoadIsEntity, StatusIsEntity
<1>2. UpdateStatus(s, status) = Put(s, e)
  BY DEF UpdateStatus
<1> HIDE DEF e
<1>3. s.bound = 0 => Put(s, e).draft = e
  BY DEF Put, Begun, Stores
<1> QED
  BY <1>1, <1>2, <1>3, PutKeeps

\* update_meta of the status of the draft.
LEMMA UpdateDraftKeeps ==
  ASSUME NEW s, Begun(s), NEW status \in DraftStatus
  PROVE  /\ Keeps(s, UpdateDraft(s, status))
         /\ UpdateDraft(s, status).draft.status = status
<1> DEFINE d == [s.draft EXCEPT !.status = status]
<1>1. d \in Entity /\ d.plan = s.draft.plan /\ d.issue = s.draft.issue /\ d.status = status
  BY StatusIsEntity DEF Begun
<1>2. UpdateDraft(s, status) = [s EXCEPT !.draft = d]
  BY DEF UpdateDraft, Begun, Stores
<1> HIDE DEF d
<1> QED
  BY <1>1, <1>2 DEF Keeps, Begun, Stores, Load

\* _clear_execution_artifacts.
LEMMA ClearKeeps ==
  ASSUME NEW s, Begun(s)
  PROVE  /\ Keeps(s, Clear(s))
         /\ Clear(s).draft.plan = NoPlan /\ Clear(s).draft.issue = 0
         /\ Clear(s).draft.status = s.draft.status
<1> DEFINE d == [s.draft EXCEPT !.plan = NoPlan, !.issue = 0]
<1>1. /\ d \in Entity
      /\ d.plan = NoPlan /\ d.issue = 0 /\ d.status = s.draft.status
  <2>1. 0 \in 0..MaxCommands
    BY Bounds
  <2> QED
    BY <2>1 DEF Begun, Entity
<1>2. CASE s.bound = 0
  <2>1. Clear(s) = [s EXCEPT !.draft = d]
    BY <1>2 DEF Clear, Begun, Stores
  <2> HIDE DEF d
  <2> QED
    BY <1>1, <1>2, <2>1 DEF Keeps, Begun, Stores, Load
<1>3. CASE s.bound # 0
  <2> DEFINE e == [s.issues[s.bound] EXCEPT !.plan = NoPlan]
  <2>1. s.bound \in Numbers
    BY <1>3, BoundIsNumber DEF Begun
  <2>2. e \in Entity /\ e.plan = NoPlan /\ e.issue = s.issues[s.bound].issue
    BY <1>3 DEF Begun, Entity
  <2>3. Clear(s) = [s EXCEPT !.draft = d, !.issues = [s.issues EXCEPT ![s.bound] = e]]
    BY <1>3, <2>1 DEF Clear, Begun, Stores
  <2> HIDE DEF d, e
  <2>4. /\ Clear(s) \in Stores /\ Clear(s).draft = d /\ Clear(s).bound = s.bound
        /\ Clear(s).issues[s.bound] = e
    BY <1>1, <2>1, <2>2, <2>3 DEF Begun, Stores
  <2> QED
    BY <1>1, <1>3, <2>1, <2>2, <2>4 DEF Keeps, Begun, Load
<1> QED
  BY <1>2, <1>3

\* _persist_artifacts.
LEMMA PersistKeeps ==
  ASSUME NEW s, Begun(s), NEW summary \in 0..MaxMessages
  PROVE  /\ Keeps(s, Persist(s, summary))
         /\ Persist(s, summary).draft.status = s.draft.status
<1>1. CASE summary = 0
  BY <1>1, KeepsItself DEF Persist
<1>2. CASE summary # 0
  <2> DEFINE e == [Load(s) EXCEPT !.summary = summary]
  <2>1. /\ e \in Entity /\ e.plan = Load(s).plan /\ e.issue = Load(s).issue
        /\ e.status = Load(s).status
    BY LoadIsEntity DEF Entity
  <2>2. Persist(s, summary) = Put(s, e)
    BY <1>2 DEF Persist
  <2> HIDE DEF e
  <2>3. Put(s, e).draft.status = s.draft.status
    BY <2>1 DEF Put, Begun, Stores, Load
  <2> QED
    BY <2>1, <2>2, <2>3, PutKeeps
<1> QED
  BY <1>1, <1>2

\* A new plan takes the place of both copies of the old one.
LEMMA WithPlanReplaces ==
  ASSUME NEW s, Begun(s), NEW h \in Handler, h.number # 0, h.of # 0
  PROVE  /\ Begun(WithPlan(s, h)) /\ WithPlan(s, h).bound = s.bound
         /\ WithPlan(s, h).draft.issue = 0
         /\ s.bound # 0 => /\ Load(WithPlan(s, h)).issue \in {s.bound, Load(s).issue}
                           /\ WithPlan(s, h).draft.plan = NoPlan
<1> DEFINE c == Clear(s)
           e == [Load(c) EXCEPT !.plan = [id |-> h.number, of |-> h.of]]
<1>1. Keeps(s, c) /\ c.draft.plan = NoPlan /\ c.draft.issue = 0
  BY ClearKeeps
<1>2. [id |-> h.number, of |-> h.of] \in Plans
  <2>1. h.number \in 0..MaxCommands /\ h.of \in 0..MaxMessages
    BY DEF Handler
  <2>2. h.number \in 1..MaxCommands /\ h.of \in 1..MaxMessages
    BY <2>1, Bounds
  <2> QED
    BY <2>2 DEF Plans
<1>3. e \in Entity /\ e.issue = Load(c).issue
  BY <1>1, <1>2, LoadIsEntity DEF Keeps, Entity
<1>4. WithPlan(s, h) = Put(c, e)
  BY DEF WithPlan
<1> HIDE DEF c, e
<1>5. CASE s.bound = 0
  BY <1>1, <1>3, <1>4, <1>5 DEF Keeps, Begun, Put, Load, Stores
<1>6. CASE s.bound # 0
  <2>1. s.bound \in Numbers
    BY <1>6, BoundIsNumber DEF Begun
  <2> QED
    BY <1>1, <1>3, <1>4, <1>6, <2>1 DEF Keeps, Begun, Put, Load, Stores
<1> QED
  BY <1>5, <1>6

\* A write to the record of an issue, of its state alone.
LEMMA RecordKeeps ==
  ASSUME NEW s, Begun(s), NEW n \in Numbers, s.issues[n] # NoEntity,
         NEW e \in Entity, e.plan = s.issues[n].plan, e.issue \in {n, s.issues[n].issue}
  PROVE  Keeps(s, [s EXCEPT !.issues = [s.issues EXCEPT ![n] = e]])
<1> DEFINE t == [s EXCEPT !.issues = [s.issues EXCEPT ![n] = e]]
<1>1. s.bound # 0
  BY DEF Begun
<1>2. t \in Stores /\ t.bound = s.bound /\ t.draft = s.draft
  BY DEF Begun, Stores
<1>3. \A k \in Numbers : t.issues[k] = IF k = n THEN e ELSE s.issues[k]
  BY DEF Begun, Stores
<1>4. s.bound \in Numbers
  BY <1>1, BoundIsNumber DEF Begun
<1> HIDE DEF t
<1> QED
  BY <1>1, <1>2, <1>3, <1>4 DEF Keeps, Begun, Load, t

\* _promote_draft_artifacts.
LEMMA PromotedIsEntity ==
  ASSUME NEW d \in Entity, NEW e \in Entity
  PROVE  /\ Promoted(d, e) \in Entity
         /\ Promoted(d, e).plan = IF d.plan # NoPlan THEN d.plan ELSE e.plan
         /\ Promoted(d, e).issue = IF d.issue # 0 THEN d.issue ELSE e.issue
BY DEF Entity, Promoted

\* The record the draft is promoted into: the issue's, or a new one.
RecordOf(s, n) ==
  IF s.issues[n] = NoEntity THEN [NoEntity EXCEPT !.status = s.draft.status]
  ELSE s.issues[n]

\* bind_issue, for a thread that has no issue, that has this one, or another.
LEMMA BindBinds ==
  ASSUME NEW s, Begun(s), NEW n \in Numbers
  PROVE  /\ Begun(BindIssue(s, n))
         /\ BindIssue(s, n).draft = s.draft
         /\ BindIssue(s, n).bound = IF MayBind(s, n) THEN n ELSE s.bound
         /\ MayBind(s, n) => Load(BindIssue(s, n)) = Promoted(s.draft, RecordOf(s, n))
<1> DEFINE e == RecordOf(s, n)
           p == Promoted(s.draft, e)
           r == [s.issues EXCEPT ![n] = e]
           q == [s.issues EXCEPT ![n] = p]
<1>1. s.issues \in [Numbers -> Entity \union {NoEntity}] /\ s.draft \in Entity
  BY DEF Begun, Stores
<1>2. e \in Entity
  <2>1. [NoEntity EXCEPT !.status = s.draft.status] \in Entity
    <3>1. /\ s.draft.status \in DraftStatus \union IssueStatus
          /\ 0 \in 0..MaxCommands /\ 0 \in 0..MaxMessages
      BY <1>1, Bounds, EntityFacts
    <3> QED
      BY <3>1 DEF NoEntity, Entity, PlanState
  <2> QED
    BY <1>1, <2>1 DEF RecordOf
<1>3. p \in Entity
  BY <1>1, <1>2, PromotedIsEntity
<1>4. r \in [Numbers -> Entity \union {NoEntity}] /\ q \in [Numbers -> Entity \union {NoEntity}]
  <2> HIDE DEF e, p
  <2> QED
    BY <1>1, <1>2, <1>3
<1>5. Recorded(s, n) = [s EXCEPT !.issues = r]
  BY <1>1 DEF Recorded, RecordOf, Begun, Stores
<1>6. [Recorded(s, n) EXCEPT !.issues[n] = Promoted(s.draft, @)] = [s EXCEPT !.issues = q]
  <2> HIDE DEF e
  <2> QED
    BY <1>1, <1>5 DEF Begun, Stores
<1>7. BindIssue(s, n) = IF MayBind(s, n) THEN [s EXCEPT !.issues = q, !.bound = n]
                        ELSE IF s.issues[n] = NoEntity THEN [s EXCEPT !.issues = r]
                        ELSE [s EXCEPT !.issues = q]
  BY <1>5, <1>6 DEF BindIssue, Begun, Stores
<1>8. n # 0 /\ n \in 0..MaxCommands
  BY Bounds DEF Numbers
<1>9. \A k \in Numbers : /\ r[k] = IF k = n THEN e ELSE s.issues[k]
                        /\ q[k] = IF k = n THEN p ELSE s.issues[k]
  BY <1>1
<1> HIDE DEF e, p, q, r
<1>10. CASE MayBind(s, n)
  <2>1. BindIssue(s, n) = [s EXCEPT !.issues = q, !.bound = n]
    BY <1>7, <1>10
  <2>2. /\ BindIssue(s, n) \in Stores /\ BindIssue(s, n).draft = s.draft
        /\ BindIssue(s, n).bound = n /\ BindIssue(s, n).issues = q
    BY <1>4, <1>8, <2>1 DEF Begun, Stores
  <2>3. Load(BindIssue(s, n)) = p
    BY <1>8, <1>9, <2>2 DEF Load
  <2>4. Begun(BindIssue(s, n))
    <3>1. BindIssue(s, n).issues[n] = p
      BY <1>9, <2>2
    <3> QED
      BY <1>1, <1>3, <1>8, <2>2, <3>1 DEF Begun
  <2> QED
    BY <1>10, <2>2, <2>3, <2>4 DEF e, p
<1>11. CASE ~MayBind(s, n)
  <2>1. s.bound # 0 /\ s.bound # n /\ s.bound \in Numbers
    BY <1>11, BoundIsNumber DEF MayBind, Begun
  <2>2. /\ BindIssue(s, n) \in Stores /\ BindIssue(s, n).draft = s.draft
        /\ BindIssue(s, n).bound = s.bound /\ BindIssue(s, n).issues \in {q, r}
    BY <1>4, <1>7, <1>11 DEF Begun, Stores
  <2>3. BindIssue(s, n).issues[s.bound] = s.issues[s.bound]
    BY <1>9, <2>1, <2>2
  <2>4. Begun(BindIssue(s, n))
    BY <1>1, <2>1, <2>2, <2>3 DEF Begun
  <2> QED
    BY <1>11, <2>2, <2>4
<1> QED
  BY <1>10, <1>11

-----------------------------------------------------------------------------
(* The operators of GitHub.                                                *)

Issues == [Numbers -> [created : BOOLEAN, listed : BOOLEAN,
                       state : IssueStatus \union {""}, plan : PlanState]]

\* _update_project_single_select sets one field of an issue that has a card.
LEMMA FieldsAreSet ==
  ASSUME NEW g \in Issues, NEW n \in Numbers,
         NEW plan \in PlanState, NEW state \in IssueStatus
  PROVE  /\ SetPlan(g, n, plan) \in Issues
         /\ SetState(g, n, state) \in Issues
         /\ \A k \in Numbers :
              /\ SetPlan(g, n, plan)[k].created = g[k].created
              /\ SetState(g, n, state)[k].created = g[k].created
              /\ SetPlan(g, n, plan)[k].listed = g[k].listed
              /\ SetState(g, n, state)[k].listed = g[k].listed
              /\ SetPlan(g, n, plan)[k].plan = IF k = n /\ g[n].listed THEN plan ELSE g[k].plan
              /\ SetState(g, n, state)[k].plan = g[k].plan
BY DEF Issues, SetPlan, SetState, SetField, HasCard

\* create_issue and add_issue_to_project, of one issue and not its fields.
LEMMA IssuesAreMade ==
  ASSUME NEW g \in Issues, NEW n \in Numbers
  PROVE  /\ CreateIssue(g, n) \in Issues /\ AddToProject(g, n) \in Issues
         /\ \A k \in Numbers :
              /\ CreateIssue(g, n)[k].created = (k = n \/ g[k].created)
              /\ CreateIssue(g, n)[k].listed = g[k].listed
              /\ CreateIssue(g, n)[k].plan = g[k].plan
              /\ AddToProject(g, n)[k].created = g[k].created
              /\ AddToProject(g, n)[k].plan = g[k].plan
BY DEF Issues, CreateIssue, AddToProject

\* What a new plan leaves: the binding, and one copy of the plan.
Replaces(s, t) ==
  /\ Begun(t)
  /\ t.bound = s.bound
  /\ t.draft.issue = 0
  /\ s.bound # 0 => /\ Load(t).issue \in {s.bound, Load(s).issue}
                    /\ t.draft.plan = NoPlan

\* What a handler knows of the thread, whose issue is b.
Knows(h, b) ==
  /\ h.key # 0 => h.key = b
  /\ h.pc \in {"syncing", "closing"} => h.key # 0
  /\ h.pc \in {"adding", "approving", "readying", "ticking"} =>
       h.number # 0 /\ h.number = b
  /\ h.pc = "created" => h.number # 0
  /\ h.kind = "plan" => h.number # 0 /\ h.of # 0

\* The thread has been begun before anything is done in it.
ThreadIsBegun == Begun(store) \/ (~Managed /\ store.bound = 0 /\ handlers = {})

ThreadInv ==
  /\ TypeOK
  /\ ThreadIsBegun
  /\ store.bound = 0 => \A n \in Numbers : store.issues[n] = NoEntity
  /\ \A h \in handlers : Knows(h, store.bound)
  /\ run.pc # "none" => store.bound # 0
  /\ PlanningIsReal

-----------------------------------------------------------------------------
(* What the steps do to the store.                                         *)

\* A thread with a draft, a handler or an issue has been begun.
LEMMA ManagedIsBegun ==
  ASSUME ThreadInv
  PROVE  /\ Managed => Begun(store)
         /\ handlers # {} => Begun(store)
         /\ store.bound # 0 => Begun(store) /\ store.bound \in Numbers
BY BoundIsNumber DEF ThreadInv, ThreadIsBegun, Begun

\* What a handler knows, with the types of what it read.
LEMMA HandlerFacts ==
  ASSUME ThreadInv, NEW h \in handlers
  PROVE  /\ Begun(store) /\ Knows(h, store.bound)
         /\ h \in Handler
         /\ h.of \in 0..MaxMessages /\ h.number \in 0..MaxCommands
         /\ h.key \in 0..MaxCommands
         /\ h.key # 0 => h.key \in Numbers
         /\ h.number # 0 => h.number \in Numbers
<1>1. Begun(store) /\ Knows(h, store.bound)
  BY ManagedIsBegun DEF ThreadInv
<1>2. h \in Handler
  BY DEF ThreadInv, TypeOK
<1>3. h.of \in 0..MaxMessages /\ h.number \in 0..MaxCommands /\ h.key \in 0..MaxCommands
  BY <1>2 DEF Handler
<1> QED
  BY <1>1, <1>2, <1>3, Bounds DEF Numbers

\* A reply has a status of the dialogue and a number of messages.
LEMMA RepliesAreTyped ==
  ASSUME NEW v \in 0..MaxMessages, NEW reply \in Replies(v)
  PROVE  /\ reply.status \in {"requirements_question", "requirements_dialogue",
                              "ready_for_confirmation", "requirements_error"}
         /\ reply.summary \in 0..MaxMessages
BY Bounds DEF Replies, ModelReplies, FlowReplies

\* A message that is taken may clear both copies of the plan.
LEMMA MessageTakenKeeps ==
  ASSUME ThreadInv, NEW h \in handlers, MessageTaken(h)
  PROVE  Keeps(store, store') /\ store'.draft.status = store.draft.status
BY HandlerFacts, ClearKeeps, KeepsItself DEF MessageTaken

\* An answer shows a status of the dialogue.
LEMMA ReplySentKeeps ==
  ASSUME ThreadInv, NEW h \in handlers, ReplySent(h)
  PROVE  /\ Keeps(store, store')
         /\ store.bound = 0 => store'.draft.status \notin {"planning", "test_plan_generating"}
<1>0. PICK v \in h.of..said : \E reply \in Replies(v) :
        store' = Persist(IF h.key # 0 /\ reply.status # "requirements_question"
                         THEN UpdateDraft(store, reply.status)
                         ELSE UpdateStatus(store, reply.status), reply.summary)
  BY DEF ReplySent
<1>1. PICK reply \in Replies(v) :
        store' = Persist(IF h.key # 0 /\ reply.status # "requirements_question"
                         THEN UpdateDraft(store, reply.status)
                         ELSE UpdateStatus(store, reply.status), reply.summary)
  BY <1>0
<1>2. v \in 0..MaxMessages
  <2>1. said \in 0..MaxMessages /\ h.of \in 0..MaxMessages
    BY HandlerFacts DEF ThreadInv, TypeOK
  <2> QED
    BY <2>1, Bounds
<1>3. /\ reply.status \in {"requirements_question", "requirements_dialogue",
                           "ready_for_confirmation", "requirements_error"}
      /\ reply.summary \in 0..MaxMessages
  BY <1>2, RepliesAreTyped
<1>4. reply.status \in DraftStatus
  BY <1>3 DEF DraftStatus
<1> DEFINE s == IF h.key # 0 /\ reply.status # "requirements_question"
                THEN UpdateDraft(store, reply.status)
                ELSE UpdateStatus(store, reply.status)
<1>5. Keeps(store, s) /\ (store.bound = 0 => s.draft.status = reply.status)
  BY <1>4, HandlerFacts, UpdateDraftKeeps, UpdateStatusKeeps
<1>6. store' = Persist(s, reply.summary)
  BY <1>1
<1> HIDE DEF s
<1>7. Begun(s)
  BY <1>5 DEF Keeps
<1>8. /\ Keeps(s, Persist(s, reply.summary))
      /\ Persist(s, reply.summary).draft.status = s.draft.status
  BY <1>3, <1>7, PersistKeeps
<1> QED
  BY <1>3, <1>5, <1>6, <1>8, KeepsOnKeeping

\* The status of a planning.
LEMMA PlanBeginsKeeps ==
  ASSUME ThreadInv, NEW h \in handlers, PlanBegins(h) \/ PlanReports(h)
  PROVE  Keeps(store, store')
<1>1. {"planning", "test_plan_generating"} \subseteq DraftStatus
  BY DEF DraftStatus
<1> QED
  BY <1>1, HandlerFacts, UpdateStatusKeeps, KeepsItself DEF PlanBegins, PlanReports

\* The status of a planning that failed.
LEMMA PlanFailureKeeps ==
  ASSUME ThreadInv, NEW h \in handlers, PlanFails(h) \/ PlanNotSynced(h)
  PROVE  /\ Keeps(store, store')
         /\ store.bound = 0 => store'.draft.status = "failed"
<1>1. "failed" \in DraftStatus
  BY DEF DraftStatus
<1> QED
  BY <1>1, HandlerFacts, UpdateStatusKeeps, UpdateDraftKeeps DEF PlanFails, PlanNotSynced

\* A new plan, then a call that leaves the plan.
LEMMA KeepsOnReplacing ==
  ASSUME NEW s, NEW t, NEW u, Replaces(s, t), Keeps(t, u)
  PROVE  Replaces(s, u)
BY DEF Keeps, Replaces

\* A plan is drafted in a thread that had no issue when it began.
LEMMA PlanDraftedReplaces ==
  ASSUME ThreadInv, NEW h \in handlers, PlanDrafted(h)
  PROVE  /\ Replaces(store, store')
         /\ store.bound = 0 => store'.draft.status = "awaiting_approval"
<1> DEFINE s == WithPlan(store, h)
           e == [Load(s) EXCEPT !.status = "awaiting_approval", !.planState = "Drafted"]
<1>1. h \in Handler /\ h.number # 0 /\ h.of # 0 /\ Begun(store)
  BY HandlerFacts DEF PlanDrafted, Knows
<1>2. Replaces(store, s)
  BY <1>1, WithPlanReplaces DEF Replaces
<1>3. store' = Put(s, e)
  BY DEF PlanDrafted
<1> HIDE DEF s
<1>4. Begun(s) /\ Load(s) \in Entity
  BY <1>2, LoadIsEntity DEF Replaces
<1>5. "awaiting_approval" \in DraftStatus /\ "Drafted" \in PlanState
  BY DEF DraftStatus, PlanState
<1>6. /\ e \in Entity /\ e.plan = Load(s).plan /\ e.issue = Load(s).issue
      /\ e.status = "awaiting_approval"
  BY <1>4, <1>5 DEF Entity
<1> HIDE DEF e
<1>7. store.bound = 0 => Put(s, e).draft = e
  BY <1>2, <1>4 DEF Replaces, Begun, Stores, Put
<1> QED
  BY <1>2, <1>3, <1>4, <1>6, <1>7, PutKeeps, KeepsOnReplacing

\* A write of one field, or two, of the record of the thread's issue.
LEMMA RecordsKeep ==
  ASSUME NEW s, Begun(s), NEW n \in Numbers, s.issues[n] # NoEntity,
         NEW status \in DraftStatus \union IssueStatus, NEW planState \in PlanState
  PROVE  /\ Keeps(s, [s EXCEPT !.issues[n].planState = planState])
         /\ Keeps(s, [s EXCEPT !.issues[n].status = status,
                               !.issues[n].planState = planState])
         /\ Keeps(s, [s EXCEPT !.issues[n].status = status,
                               !.issues[n].planState = planState,
                               !.issues[n].issue = n])
<1> DEFINE d == [s.issues[n] EXCEPT !.planState = planState]
           e == [s.issues[n] EXCEPT !.status = status, !.planState = planState]
           f == [s.issues[n] EXCEPT !.status = status, !.planState = planState, !.issue = n]
<1>1. s.issues[n] \in Entity /\ s.issues \in [Numbers -> Entity \union {NoEntity}]
  BY DEF Begun, Stores
<1>2. n \in 0..MaxCommands
  BY Bounds DEF Numbers
<1>3. /\ d \in Entity /\ d.plan = s.issues[n].plan /\ d.issue = s.issues[n].issue
      /\ e \in Entity /\ e.plan = s.issues[n].plan /\ e.issue = s.issues[n].issue
      /\ f \in Entity /\ f.plan = s.issues[n].plan /\ f.issue = n
  BY <1>1, <1>2 DEF Entity
<1>4. /\ [s EXCEPT !.issues[n].planState = planState]
           = [s EXCEPT !.issues = [s.issues EXCEPT ![n] = d]]
      /\ [s EXCEPT !.issues[n].status = status, !.issues[n].planState = planState]
           = [s EXCEPT !.issues = [s.issues EXCEPT ![n] = e]]
      /\ [s EXCEPT !.issues[n].status = status, !.issues[n].planState = planState,
                   !.issues[n].issue = n]
           = [s EXCEPT !.issues = [s.issues EXCEPT ![n] = f]]
  BY <1>1 DEF Begun, Stores
<1> HIDE DEF d, e, f
<1> QED
  BY <1>3, <1>4, RecordKeeps

\* A plan is kept that the Project knows.
LEMMA PlanSyncedReplaces ==
  ASSUME ThreadInv, NEW h \in handlers, PlanSynced(h)
  PROVE  Replaces(store, store') /\ store.bound # 0
<1> DEFINE s == WithPlan(store, h)
           t == UpdateDraft(s, "awaiting_approval")
<1>1. h \in Handler /\ Begun(store)
  BY HandlerFacts
<1>2. h.key # 0 /\ h.key = store.bound /\ h.key \in Numbers
  BY HandlerFacts DEF PlanSynced, Knows
<1>3. h.number # 0 /\ h.of # 0
  BY HandlerFacts DEF PlanSynced, Knows
<1>4. Replaces(store, s)
  BY <1>1, <1>3, WithPlanReplaces DEF Replaces
<1>5. store' = [t EXCEPT !.issues[h.key].planState = "Drafted"]
  BY DEF PlanSynced
<1> HIDE DEF s
<1>6. Keeps(s, t)
  <2>1. "awaiting_approval" \in DraftStatus
    BY DEF DraftStatus
  <2> QED
    BY <1>4, <2>1, UpdateDraftKeeps DEF Replaces
<1> HIDE DEF t
<1>7. Begun(t) /\ t.bound = h.key /\ t.issues[h.key] \in Entity
  BY <1>2, <1>4, <1>6 DEF Keeps, Replaces, Begun
<1>8. Keeps(t, store')
  <2>1. "Drafted" \in PlanState /\ "failed" \in DraftStatus
    BY DEF PlanState, DraftStatus
  <2> QED
    BY <1>2, <1>5, <1>7, <2>1, EntityFacts, RecordsKeep
<1> QED
  BY <1>2, <1>4, <1>6, <1>8, KeepsOnReplacing

\* What the binding of a thread to issue n leaves of store s.
Binds(s, n, t) ==
  /\ Begun(t) /\ t.draft = s.draft
  /\ IF MayBind(s, n) THEN t.bound = n /\ Load(t) = Promoted(s.draft, RecordOf(s, n))
                      ELSE t.bound = s.bound

\* An error of an approval changes the status of the draft at most.
LEMMA RefusalKeeps ==
  ASSUME NEW h, NEW s, Begun(s), Refuse(h, s)
  PROVE  /\ Keeps(s, store')
         /\ s.bound = 0 => store' = s
<1>1. "promotion_failed" \in DraftStatus
  BY DEF DraftStatus
<1> QED
  BY <1>1, UpdateDraftKeeps, KeepsItself DEF Refuse

\* Bind binds, or refuses and leaves the binding the thread has.
LEMMA BindSteps ==
  ASSUME NEW h, NEW s, Begun(s), NEW n \in Numbers, Bind(h, s, n)
  PROVE  /\ Begun(store')
         /\ MayBind(s, n) => Binds(s, n, store')
         /\ ~MayBind(s, n) => store'.bound = s.bound /\ s.bound # 0
<1>1. CASE MayBind(s, n)
  BY <1>1, BindBinds DEF Bind, Binds
<1>2. CASE ~MayBind(s, n)
  <2>1. Begun(BindIssue(s, n)) /\ BindIssue(s, n).bound = s.bound /\ s.bound # 0
    BY <1>2, BindBinds DEF MayBind
  <2>2. Keeps(BindIssue(s, n), store')
    BY <1>2, <2>1, RefusalKeeps DEF Bind
  <2> QED
    BY <1>2, <2>1, <2>2 DEF Keeps
<1> QED
  BY <1>1, <1>2

\* An approval reports its error, or finds the issue the thread has.
LEMMA ApproveBeginsSteps ==
  ASSUME ThreadInv, NEW h \in handlers, ApproveBegins(h)
  PROVE  \/ Keeps(store, store') /\ (store.bound = 0 => store' = store)
         \/ /\ Load(store).plan # NoPlan
            /\ Load(store).issue \in Numbers
            /\ Bind(h, store, Load(store).issue)
<1>1. Begun(store)
  BY HandlerFacts
<1>2. Load(store).issue # 0 => Load(store).issue \in Numbers
  BY <1>1, LoadIsEntity, EntityFacts, Bounds DEF Numbers
<1> QED
  BY <1>1, <1>2, RefusalKeeps, KeepsItself DEF ApproveBegins

\* The number GitHub answered is written where the thread points.
LEMMA NumberIsWritten ==
  ASSUME NEW s, Begun(s), NEW n \in Numbers
  PROVE  /\ Begun(Put(s, [Load(s) EXCEPT !.issue = n]))
         /\ Put(s, [Load(s) EXCEPT !.issue = n]).bound = s.bound
         /\ s.bound = 0 =>
              Put(s, [Load(s) EXCEPT !.issue = n])
                = [s EXCEPT !.draft = [s.draft EXCEPT !.issue = n]]
<1> DEFINE e == [Load(s) EXCEPT !.issue = n]
<1>1. n \in 0..MaxCommands
  BY Bounds DEF Numbers
<1>2. e \in Entity
  BY <1>1, LoadIsEntity DEF Entity
<1>3. s.bound = 0 => Put(s, e) = [s EXCEPT !.draft = [s.draft EXCEPT !.issue = n]]
  BY DEF Put, Load
<1>4. Begun(Put(s, e)) /\ Put(s, e).bound = s.bound
  <2> HIDE DEF e
  <2>1. CASE s.bound = 0
    BY <1>2, <2>1 DEF Begun, Put, Stores
  <2>2. CASE s.bound # 0
    <3>1. s.bound \in Numbers
      BY <2>2, BoundIsNumber DEF Begun
    <3> QED
      BY <1>2, <2>2, <3>1 DEF Begun, Put, Stores
  <2> QED
    BY <2>1, <2>2
<1> QED
  BY <1>3, <1>4

\* An error of an approval, or its end.
LEMMA ApprovalFailureKeeps ==
  ASSUME ThreadInv, NEW h \in handlers,
         IssueNotAnswered(h) \/ PromotionFails(h) \/ ApproveEnds(h)
  PROVE  Keeps(store, store') /\ (store.bound = 0 => store' = store)
BY HandlerFacts, RefusalKeeps, KeepsItself DEF IssueNotAnswered, PromotionFails, ApproveEnds

\* The issue is made Ready, in the record and in the draft.
LEMMA MadeReadyKeeps ==
  ASSUME ThreadInv, NEW h \in handlers, MadeReady(h)
  PROVE  Keeps(store, store') /\ store.bound # 0
<1> DEFINE t == UpdateDraft(store, "promoted")
<1>1. Begun(store) /\ h.number = store.bound /\ h.number # 0 /\ h.number \in Numbers
  BY HandlerFacts DEF MadeReady, Knows
<1>2. Keeps(store, t)
  <2>1. "promoted" \in DraftStatus
    BY DEF DraftStatus
  <2> QED
    BY <1>1, <2>1, UpdateDraftKeeps
<1>3. store' = [t EXCEPT !.issues[h.number].status = "Ready",
                         !.issues[h.number].planState = "Approved"]
  BY DEF MadeReady
<1> HIDE DEF t
<1>4. Begun(t) /\ t.issues[h.number] # NoEntity
  BY <1>1, <1>2, EntityFacts DEF Keeps, Begun
<1>5. Keeps(t, store')
  <2>1. "Approved" \in PlanState /\ "Ready" \in IssueStatus
    BY DEF PlanState, IssueStatus
  <2> QED
    BY <1>1, <1>3, <1>4, <2>1, RecordsKeep
<1> QED
  BY <1>1, <1>2, <1>5, KeepsOnKeeping

\* /reject-plan, and /revise, which clears both copies of the plan.
LEMMA CommandsKeep ==
  ASSUME ThreadInv, RejectCommand \/ ReviseCommand
  PROVE  /\ Keeps(store, store')
         /\ store.bound = 0 => store'.draft.status \notin {"planning", "test_plan_generating"}
<1>1. Begun(store)
  BY ManagedIsBegun DEF RejectCommand, ReviseCommand, Command
<1>2. {"changes_requested", "requirements_dialogue"} \subseteq DraftStatus
  BY DEF DraftStatus
<1>3. CASE RejectCommand
  BY <1>1, <1>2, <1>3, UpdateDraftKeeps DEF RejectCommand
<1>4. CASE ReviseCommand
  <2>1. Keeps(store, Clear(store)) /\ Begun(Clear(store)) /\ Clear(store).bound = store.bound
    BY <1>1, ClearKeeps DEF Keeps
  <2>2. CASE store.bound = 0
    <3>1. store' = UpdateStatus(Clear(store), "requirements_dialogue")
      BY <1>4, <2>2 DEF ReviseCommand
    <3>2. /\ Keeps(Clear(store), store')
          /\ store'.draft.status = "requirements_dialogue"
      BY <1>2, <2>1, <2>2, <3>1, UpdateStatusKeeps
    <3> QED
      BY <2>1, <3>2, KeepsOnKeeping
  <2>3. CASE store.bound # 0
    <3>1. store' = UpdateDraft(Clear(store), "requirements_dialogue")
      BY <1>4, <2>3 DEF ReviseCommand
    <3>2. Keeps(Clear(store), store')
      BY <1>2, <2>1, <3>1, UpdateDraftKeeps
    <3> QED
      BY <2>1, <2>3, <3>2, KeepsOnKeeping
  <2> QED
    BY <2>2, <2>3
<1> QED
  BY <1>3, <1>4

\* The ends of /reject-plan and of /revise.
LEMMA ClosingKeeps ==
  ASSUME ThreadInv, NEW h \in handlers, RejectEnds(h) \/ ReviseEnds(h)
  PROVE  Keeps(store, store') /\ store.bound # 0
<1>1. Begun(store) /\ h.key = store.bound /\ h.key # 0 /\ h.key \in Numbers
  BY HandlerFacts DEF RejectEnds, ReviseEnds, Knows
<1>2. store.issues[h.key] # NoEntity
  BY <1>1, EntityFacts DEF Begun
<1>3. "Changes Requested" \in PlanState /\ "Backlog" \in IssueStatus
  BY DEF PlanState, IssueStatus
<1>4. CASE RejectEnds(h)
  <2>1. store' = [store EXCEPT !.issues[h.key].planState = "Changes Requested"]
    BY <1>4 DEF RejectEnds
  <2> QED
    BY <1>1, <1>2, <1>3, <2>1, RecordsKeep
<1>5. CASE ReviseEnds(h)
  <2>1. store' = [store EXCEPT !.issues[h.key].status = "Backlog",
                               !.issues[h.key].planState = "Changes Requested"]
    BY <1>5 DEF ReviseEnds
  <2> QED
    BY <1>1, <1>2, <1>3, <2>1, RecordsKeep
<1> QED
  BY <1>4, <1>5

\* The fields of a card go to the record of its issue.
LEMMA BoardSyncKeeps ==
  ASSUME ThreadInv, BoardSync
  PROVE  Keeps(store, store') /\ store.bound # 0
<1>1. PICK card \in Cards(github) :
        LET n == card.number
            stale == card.state = "In Progress" /\ ~IsActive
                       /\ store.issues[n].status = "Rework"
            status == IF stale \/ card.state = "" THEN store.issues[n].status
                      ELSE card.state
        IN  /\ store.issues[n] # NoEntity
            /\ store' = [store EXCEPT !.issues[n].status = status,
                                      !.issues[n].planState = card.plan,
                                      !.issues[n].issue = n]
  BY DEF BoardSync
<1>2. PICK n \in Numbers : card = [number |-> n, state |-> github[n].state,
                                   plan |-> github[n].plan]
  BY DEF Cards
<1>3. github[n].state \in IssueStatus \union {""} /\ github[n].plan \in PlanState
  BY DEF ThreadInv, TypeOK
<1>4. store.issues[n] # NoEntity
  BY <1>1, <1>2
<1>5. store.bound # 0 /\ Begun(store)
  BY <1>4, ManagedIsBegun DEF ThreadInv
<1>6. store.issues[n] \in Entity
  BY <1>4, <1>5 DEF Begun, Stores
<1>7. PICK status \in DraftStatus \union IssueStatus :
        store' = [store EXCEPT !.issues[n].status = status,
                               !.issues[n].planState = github[n].plan,
                               !.issues[n].issue = n]
  BY <1>1, <1>2, <1>3, <1>6, EntityFacts
<1> QED
  BY <1>3, <1>4, <1>5, <1>7, RecordsKeep

\* A message, the scheduler and the run set the status of the thread's issue
\* and nothing else of the store or of GitHub.
LEMMA RunKeeps ==
  ASSUME ThreadInv, MessageArrives \/ TickReconciles \/ Dispatch \/ RunEnds \/ Crash
  PROVE  /\ UNCHANGED store \/ (Keeps(store, store') /\ store.bound # 0)
         /\ \/ UNCHANGED github
            \/ /\ store.bound \in Numbers
               /\ \E status \in IssueStatus : github' = SetState(github, store.bound, status)
<1>1. {"In Progress", "Human Review", "Rework", "Blocked"} \subseteq IssueStatus
  BY DEF IssueStatus
<1> DEFINE Sets == /\ store.bound # 0
                   /\ \E status \in IssueStatus :
                        /\ store' = UpdateStatus(store, status)
                        /\ github' \in {github, SetState(github, store.bound, status)}
<1>2. ASSUME MessageArrives \/ TickReconciles PROVE Sets \/ UNCHANGED <<store, github>>
  <2>1. UNCHANGED <<store, github>>
          \/ /\ store.bound # 0 /\ store' = UpdateStatus(store, "Rework")
             /\ github' \in {github, SetState(github, store.bound, "Rework")}
    BY <1>2 DEF MessageArrives, TickReconciles, Reconcile, Stale
  <2> QED
    BY <1>1, <2>1
<1>3. ASSUME DispatchBegins \/ GateReads \/ Enqueued PROVE UNCHANGED <<store, github>>
  BY <1>3 DEF DispatchBegins, GateReads, Enqueued
<1>4. ASSUME RunLoads PROVE Sets
  <2>1. /\ store.bound # 0 /\ store' = UpdateStatus(store, "In Progress")
        /\ github' = SetState(github, store.bound, "In Progress")
    BY <1>4 DEF RunLoads, ThreadInv
  <2> QED
    BY <1>1, <2>1
<1>5. ASSUME RunEnds PROVE Sets
  <2>1. store.bound # 0
    BY <1>5 DEF RunEnds, IsRunning, ThreadInv
  <2>2. PICK status \in IssueStatus :
          /\ store' = UpdateStatus(store, status)
          /\ github' \in {github, SetState(github, store.bound, status)}
    BY <1>1, <1>5 DEF RunEnds
  <2> QED
    BY <2>1, <2>2
<1>6. ASSUME Crash PROVE Sets \/ UNCHANGED <<store, github>>
  <2>1. UNCHANGED <<store, github>>
          \/ /\ store.bound # 0 /\ store' = UpdateStatus(store, "Rework")
             /\ github' = SetState(github, store.bound, "Rework")
    BY <1>6 DEF Crash
  <2> QED
    BY <1>1, <2>1
<1>7. Sets \/ UNCHANGED <<store, github>>
  <2> HIDE DEF Sets
  <2> QED
    BY <1>2, <1>3, <1>4, <1>5, <1>6 DEF Dispatch
<1>8. store.bound # 0 => Begun(store) /\ store.bound \in Numbers
  BY ManagedIsBegun
<1> QED
  BY <1>7, <1>8, UpdateStatusKeeps

\* The first message makes the draft.
LEMMA NewThreadBegins ==
  ASSUME ThreadInv, NewThread
  PROVE  /\ Begun(store') /\ store'.bound = 0 /\ store.bound = 0
         /\ store'.draft = [NoEntity EXCEPT !.status = "draft"]
         /\ store'.issues = store.issues
<1> DEFINE d == [NoEntity EXCEPT !.status = "draft"]
<1>1. store \in Stores /\ store.bound = 0 /\ \A n \in Numbers : store.issues[n] = NoEntity
  <2>1. store \in Stores
    BY DEF ThreadInv, TypeOK, Stores
  <2>2. store.bound = 0
    BY EntityFacts DEF ThreadInv, ThreadIsBegun, Begun, NewThread, Managed
  <2> QED
    BY <2>1, <2>2 DEF ThreadInv
<1>2. d \in Entity
  <2>1. 0 \in 0..MaxMessages /\ 0 \in 0..MaxCommands
    BY Bounds
  <2> QED
    BY <2>1 DEF Entity, NoEntity, DraftStatus, PlanState
<1>3. store' = [store EXCEPT !.draft = d]
  BY DEF NewThread
<1> HIDE DEF d
<1>4. Begun(store') /\ store'.bound = 0 /\ store'.draft = d /\ store'.issues = store.issues
  BY <1>1, <1>2, <1>3 DEF Begun, Stores
<1> QED
  BY <1>1, <1>4 DEF d

-----------------------------------------------------------------------------
(* The handlers, and all steps together.                                   *)

\* The type invariant, taken apart.
LEMMA TypeFacts ==
  ASSUME TypeOK
  PROVE  /\ store.bound \in 0..MaxCommands /\ store.bound \in Nat
         /\ said \in 0..MaxMessages /\ said \in Nat
         /\ left.commands \in 0..MaxCommands /\ left.commands \in Nat
         /\ left.faults \in 0..MaxFaults /\ left.crashes \in 0..MaxCrashes
<1>1. /\ store.bound \in 0..MaxCommands /\ said \in 0..MaxMessages
      /\ left.commands \in 0..MaxCommands
      /\ left.faults \in 0..MaxFaults /\ left.crashes \in 0..MaxCrashes
  BY DEF TypeOK
<1> QED
  BY <1>1, Bounds

\* A handler starts with nothing but its kind and a number that is free.
LEMMA NewHandlerIsNew ==
  ASSUME ThreadInv, FreeIds # {}, NEW kind \in Kinds,
         NEW pc \in {"reading", "replying", "deferred", "closing"}
  PROVE  /\ NewHandler(kind, pc) \in Handler
         /\ NewHandler(kind, pc).kind = kind /\ NewHandler(kind, pc).pc = pc
         /\ NewHandler(kind, pc).key = 0 /\ NewHandler(kind, pc).number = 0
<1> DEFINE least == CHOOSE i \in FreeIds : \A j \in FreeIds : i <= j
<1>1. FreeIds \subseteq 1..MaxHandlers
  BY DEF FreeIds
<1>2. least \in 1..MaxHandlers
  <2>1. FreeIds \subseteq Nat
    BY <1>1, Bounds
  <2>2. \E i \in FreeIds : \A j \in FreeIds : i <= j
    BY <2>1, LeastExists
  <2> QED
    BY <1>1, <2>2
<1>3. 0 \in 0..MaxCommands /\ 0 \in 0..MaxMessages
  BY Bounds
<1>4. NewHandler(kind, pc) = [kind |-> kind, pc |-> pc, id |-> least, status |-> "",
                              key |-> 0, number |-> 0, of |-> 0]
  BY DEF NewHandler
<1> HIDE DEF least
<1>5. pc \in {"reading", "replying", "deferred", "planning", "syncing", "creating",
             "created", "adding", "approving", "readying", "ticking", "closing"}
  OBVIOUS
<1>6. PICK i \in 1..MaxHandlers :
        NewHandler(kind, pc) = [kind |-> kind, pc |-> pc, id |-> i, status |-> "",
                                key |-> 0, number |-> 0, of |-> 0]
  BY <1>2, <1>4
<1>7. PICK g : g = [kind |-> kind, pc |-> pc, id |-> i, status |-> "",
                    key |-> 0, number |-> 0, of |-> 0]
  OBVIOUS
<1>8. g \in Handler
  BY <1>3, <1>5, <1>7 DEF Handler
<1>9. g.kind = kind /\ g.pc = pc /\ g.key = 0 /\ g.number = 0
  BY <1>7
<1> QED
  BY <1>6, <1>7, <1>8, <1>9

HandlersAreRight ==
  /\ handlers \subseteq Handler /\ IsFiniteSet(handlers)
  /\ \A h \in handlers : Knows(h, store.bound)

\* A step that starts no handler and lets none go on leaves what the others know.
LEMMA NoNewHandler ==
  ASSUME ThreadInv, store.bound # 0 => store'.bound = store.bound,
         handlers' \subseteq handlers
  PROVE  HandlersAreRight'
<1>1. \A h \in handlers' : Knows(h, store'.bound)
  <2> SUFFICES ASSUME NEW h \in handlers' PROVE Knows(h, store'.bound)
    OBVIOUS
  <2> QED
    BY HandlerFacts DEF Knows
<1> QED
  BY <1>1, FS_Subset DEF HandlersAreRight, ThreadInv, TypeOK

\* A step that puts one handler in its set leaves what the others know.
LEMMA OneNewHandler ==
  ASSUME ThreadInv, store.bound # 0 => store'.bound = store.bound,
         NEW g \in Handler, Knows(g, store'.bound), handlers' \subseteq handlers \union {g}
  PROVE  HandlersAreRight'
<1>1. \A h \in handlers' : Knows(h, store'.bound)
  <2> SUFFICES ASSUME NEW h \in handlers, h \in handlers' PROVE Knows(h, store'.bound)
    OBVIOUS
  <2> QED
    BY HandlerFacts DEF Knows
<1>2. IsFiniteSet(handlers \union {g})
  BY FS_AddElement DEF ThreadInv, TypeOK
<1> QED
  BY <1>1, <1>2, FS_Subset DEF HandlersAreRight, ThreadInv, TypeOK

\* No step lets go of a binding.
LEMMA BindingStays ==
  ASSUME ThreadInv, Next
  PROVE  store.bound # 0 => store'.bound = store.bound
<1>1. IsStore(store)
  BY DEF ThreadInv, TypeOK, IsStore
<1> QED
  BY <1>1, StepHoldsOn DEF HoldsOn

\* A message or a command is taken up.
LEMMA StartedHandlers ==
  ASSUME ThreadInv, Next, NewThread \/ MessageArrives \/ Commands
  PROVE  HandlersAreRight'
<1>0. store.bound # 0 => store'.bound = store.bound
  BY BindingStays
<1>1. store.bound \in 0..MaxCommands /\ 1 \in 0..MaxMessages
  BY Bounds, TypeFacts DEF ThreadInv
<1>2. CASE NewThread
  <2> DEFINE n == NewHandler("message", "replying")
             g == [n EXCEPT !.of = 1]
  <2>1. FreeIds # {}
    BY <1>2, EntityFacts, Bounds DEF NewThread, ThreadInv, ThreadIsBegun, Managed, Begun, FreeIds
  <2>2. n \in Handler /\ n.kind = "message" /\ n.pc = "replying" /\ n.key = 0
    BY <2>1, NewHandlerIsNew DEF Kinds
  <2>3. handlers' = handlers \union {g}
    BY <1>2 DEF NewThread, Start
  <2> HIDE DEF n
  <2>4. g \in Handler /\ Knows(g, store'.bound)
    BY <1>1, <2>2 DEF Handler, Knows
  <2> QED
    BY <1>0, <2>3, <2>4, OneNewHandler
<1>3. CASE MessageArrives
  <2> DEFINE n == NewHandler("message", "reading")
             g == [n EXCEPT !.status = UiStatus(store'), !.key = store.bound]
  <2>1. Begun(store') /\ FreeIds # {} /\ store'.bound = store.bound
    BY <1>3, ManagedIsBegun, RunKeeps DEF MessageArrives, MayStart, Keeps
  <2>2. n \in Handler /\ n.kind = "message" /\ n.pc = "reading" /\ n.key = 0
    BY <2>1, NewHandlerIsNew DEF Kinds
  <2>3. handlers' = handlers \union {g}
    BY <1>3 DEF MessageArrives, Start
  <2>4. UiStatus(store') \in DraftStatus \union IssueStatus \union {""}
    BY <2>1, LoadIsEntity, EntityFacts DEF UiStatus, Begun
  <2> HIDE DEF n
  <2>5. g \in Handler /\ Knows(g, store'.bound)
    BY <1>1, <2>1, <2>2, <2>4 DEF Handler, Knows
  <2> QED
    BY <1>0, <2>3, <2>5, OneNewHandler
<1>4. CASE PlanCommand
  <2> DEFINE n == NewHandler("plan", "deferred")
             g == [n EXCEPT !.of = Load(store).summary, !.number = left.commands]
  <2>1. Begun(store) /\ FreeIds # {} /\ Load(store).summary # 0 /\ left.commands > 0
    BY <1>4, ManagedIsBegun DEF PlanCommand, Command, MayStart
  <2>2. n \in Handler /\ n.kind = "plan" /\ n.pc = "deferred" /\ n.key = 0
    BY <2>1, NewHandlerIsNew DEF Kinds
  <2>3. handlers' = handlers \union {g}
    BY <1>4 DEF PlanCommand, Start
  <2>4. Load(store).summary \in 0..MaxMessages /\ left.commands \in 0..MaxCommands
        /\ left.commands # 0
    BY <2>1, LoadIsEntity, EntityFacts, TypeFacts DEF ThreadInv
  <2> HIDE DEF n
  <2>5. g \in Handler /\ Knows(g, store'.bound)
    BY <2>1, <2>2, <2>4 DEF Handler, Knows
  <2> QED
    BY <1>0, <2>3, <2>5, OneNewHandler
<1>5. CASE ApproveCommand
  <2> DEFINE g == NewHandler("approve", "deferred")
  <2>1. FreeIds # {}
    BY <1>5 DEF ApproveCommand, Command, MayStart
  <2>2. g \in Handler /\ g.kind = "approve" /\ g.pc = "deferred" /\ g.key = 0
    BY <2>1, NewHandlerIsNew DEF Kinds
  <2>3. handlers' = handlers \union {g}
    BY <1>5 DEF ApproveCommand, Start
  <2> HIDE DEF g
  <2> QED
    BY <1>0, <2>2, <2>3, OneNewHandler DEF Knows
<1>6. ASSUME NEW kind \in {"reject", "revise"}, FreeIds # {}, store.bound # 0,
             Start([NewHandler(kind, "closing") EXCEPT !.key = store.bound])
      PROVE  HandlersAreRight'
  <2> DEFINE n == NewHandler(kind, "closing")
             g == [n EXCEPT !.key = store.bound]
  <2>1. n \in Handler /\ n.kind = kind /\ n.pc = "closing"
    BY <1>6, NewHandlerIsNew DEF Kinds
  <2>2. handlers' = handlers \union {g}
    BY <1>6 DEF Start
  <2> HIDE DEF n
  <2>3. g \in Handler /\ Knows(g, store'.bound)
    BY <1>0, <1>1, <1>6, <2>1 DEF Handler, Knows
  <2> QED
    BY <1>0, <2>2, <2>3, OneNewHandler
<1>7. CASE RejectCommand
  BY <1>0, <1>6, <1>7, NoNewHandler DEF RejectCommand, Command, MayStart
<1>8. CASE ReviseCommand
  BY <1>0, <1>6, <1>8, NoNewHandler DEF ReviseCommand, Command, MayStart
<1> QED
  BY <1>2, <1>3, <1>4, <1>5, <1>7, <1>8 DEF Commands

\* A handler goes on.
LEMMA ContinuedHandlers ==
  ASSUME ThreadInv, Next, NEW h \in handlers,
         MessageTaken(h) \/ PlanBegins(h) \/ PlanBuilt(h) \/ IssueCreated(h)
         \/ AddedToProject(h) \/ PlanApproved(h) \/ MadeReady(h)
  PROVE  HandlersAreRight'
<1>0. store.bound # 0 => store'.bound = store.bound
  BY BindingStays
<1>1. h \in Handler /\ Knows(h, store.bound) /\ Begun(store)
      /\ store.bound \in 0..MaxCommands
  BY HandlerFacts DEF Begun, Stores
<1>2. CASE MessageTaken(h)
  <2>1. PICK g : g = [h EXCEPT !.pc = "replying", !.of = said + 1]
    OBVIOUS
  <2>2. handlers' = (handlers \ {h}) \union {g}
    BY <1>2, <2>1 DEF MessageTaken, Continue
  <2>3. said + 1 \in 0..MaxMessages
    BY <1>2, Bounds, TypeFacts DEF MessageTaken, ThreadInv
  <2>4. g \in Handler /\ g.kind = "message" /\ g.pc = "replying" /\ g.key = h.key
    BY <1>1, <1>2, <2>1, <2>3 DEF Handler, MessageTaken
  <2>5. Knows(g, store'.bound)
    BY <1>0, <1>1, <2>4 DEF Knows
  <2> QED
    BY <1>0, <2>2, <2>4, <2>5, OneNewHandler
<1>3. CASE PlanBegins(h)
  <2>1. PICK g : g = [h EXCEPT !.pc = "planning", !.key = store.bound]
    OBVIOUS
  <2>2. handlers' = (handlers \ {h}) \union {g}
    BY <1>3, <2>1 DEF PlanBegins, Continue
  <2>3. g \in Handler /\ g.kind = "plan" /\ g.pc = "planning" /\ g.key = store.bound
        /\ g.number = h.number /\ g.of = h.of
    BY <1>1, <1>3, <2>1 DEF Handler, PlanBegins
  <2>4. Knows(g, store'.bound)
    BY <1>0, <1>1, <1>3, <2>3 DEF Knows, PlanBegins
  <2> QED
    BY <1>0, <2>2, <2>3, <2>4, OneNewHandler
<1>4. CASE PlanBuilt(h)
  <2>1. PICK g : g = [h EXCEPT !.pc = "syncing"]
    OBVIOUS
  <2>2. handlers' = (handlers \ {h}) \union {g}
    BY <1>4, <2>1 DEF PlanBuilt, Continue
  <2>3. g \in Handler /\ g.kind = "plan" /\ g.pc = "syncing" /\ g.key = h.key
        /\ g.number = h.number /\ g.of = h.of
    BY <1>1, <1>4, <2>1 DEF Handler, PlanBuilt
  <2>4. Knows(g, store'.bound)
    BY <1>0, <1>1, <1>4, <2>3 DEF Knows, PlanBuilt
  <2> QED
    BY <1>0, <2>2, <2>3, <2>4, OneNewHandler
<1>5. CASE IssueCreated(h)
  <2>1. PICK n \in NextNumber(github) :
          handlers' = (handlers \ {h}) \union {[h EXCEPT !.pc = "created", !.number = n]}
    BY <1>5 DEF IssueCreated, Continue
  <2>2. n \in 0..MaxCommands /\ n # 0
    BY Bounds DEF NextNumber, Numbers
  <2>3. PICK g : g = [h EXCEPT !.pc = "created", !.number = n]
    OBVIOUS
  <2>4. g \in Handler /\ g.kind = "approve" /\ g.pc = "created" /\ g.key = h.key
        /\ g.number = n
    BY <1>1, <1>5, <2>2, <2>3 DEF Handler, IssueCreated
  <2>5. Knows(g, store'.bound)
    BY <1>0, <1>1, <2>2, <2>4 DEF Knows
  <2> QED
    BY <1>0, <2>1, <2>3, <2>4, <2>5, OneNewHandler
<1>6. CASE AddedToProject(h) \/ PlanApproved(h) \/ MadeReady(h)
  <2>1. PICK pc \in {"approving", "readying", "ticking"} :
          handlers' = (handlers \ {h}) \union {[h EXCEPT !.pc = pc]}
    BY <1>6 DEF AddedToProject, PlanApproved, MadeReady, Continue
  <2>2. PICK g : g = [h EXCEPT !.pc = pc]
    OBVIOUS
  <2>3. g \in Handler /\ g.kind = h.kind /\ g.pc = pc /\ g.key = h.key /\ g.number = h.number
    BY <1>1, <2>2 DEF Handler
  <2>4. h.kind = "approve" /\ h.pc \in {"adding", "approving", "readying"}
    BY <1>6 DEF AddedToProject, PlanApproved, MadeReady
  <2>5. Knows(g, store'.bound)
    BY <1>0, <1>1, <2>3, <2>4 DEF Knows
  <2> QED
    BY <1>0, <2>1, <2>2, <2>3, <2>5, OneNewHandler
<1> QED
  BY <1>2, <1>3, <1>4, <1>5, <1>6

\* A handler that has bound the thread knows its issue.
LEMMA BoundHandlers ==
  ASSUME ThreadInv, Next, NEW h \in handlers, h.kind = "approve",
         NEW s, Begun(s), NEW n \in Numbers, Bind(h, s, n)
  PROVE  HandlersAreRight'
<1>0. store.bound # 0 => store'.bound = store.bound
  BY BindingStays
<1>1. h \in Handler /\ Knows(h, store.bound)
  BY HandlerFacts
<1>2. CASE MayBind(s, n)
  <2>1. PICK g : g = [h EXCEPT !.pc = "adding", !.number = n]
    OBVIOUS
  <2>2. handlers' = (handlers \ {h}) \union {g}
    BY <1>2, <2>1 DEF Bind, Continue
  <2>3. n \in 0..MaxCommands /\ n # 0
    BY Bounds DEF Numbers
  <2>4. g \in Handler /\ g.kind = "approve" /\ g.pc = "adding" /\ g.key = h.key
        /\ g.number = n
    BY <1>1, <2>1, <2>3 DEF Handler
  <2>5. store'.bound = n
    BY <1>2, BindSteps DEF Binds
  <2>6. Knows(g, store'.bound)
    BY <1>0, <1>1, <2>3, <2>4, <2>5 DEF Knows
  <2> QED
    BY <1>0, <2>2, <2>4, <2>6, OneNewHandler
<1>3. CASE ~MayBind(s, n)
  BY <1>0, <1>3, NoNewHandler DEF Bind, Refuse, End
<1> QED
  BY <1>2, <1>3

\* An approval that begins ends, creates the issue, or binds the one there is.
LEMMA ApproveBeginsHandlers ==
  ASSUME ThreadInv, Next, NEW h \in handlers, ApproveBegins(h) \/ IssueAnswered(h)
  PROVE  HandlersAreRight'
<1>0. store.bound # 0 => store'.bound = store.bound
  BY BindingStays
<1>1. h \in Handler /\ Knows(h, store.bound) /\ Begun(store)
  BY HandlerFacts
<1>2. CASE IssueAnswered(h)
  <2>1. h.number \in Numbers
    BY <1>2, HandlerFacts DEF IssueAnswered, Knows
  <2> QED
    BY <1>1, <1>2, <2>1, NumberIsWritten, BoundHandlers DEF IssueAnswered
<1>3. CASE Load(store).issue \in Numbers /\ Bind(h, store, Load(store).issue) /\ ApproveBegins(h)
  BY <1>1, <1>3, BoundHandlers DEF ApproveBegins
<1>4. CASE h.kind = "approve" /\ Continue(h, [h EXCEPT !.pc = "creating"])
  <2>1. PICK g : g = [h EXCEPT !.pc = "creating"]
    OBVIOUS
  <2>2. handlers' = (handlers \ {h}) \union {g}
    BY <1>4, <2>1 DEF Continue
  <2>3. g \in Handler /\ g.kind = "approve" /\ g.pc = "creating" /\ g.key = h.key
    BY <1>1, <1>4, <2>1 DEF Handler
  <2>4. Knows(g, store'.bound)
    BY <1>0, <1>1, <2>3 DEF Knows
  <2> QED
    BY <1>0, <2>2, <2>3, <2>4, OneNewHandler
<1>5. CASE Refuse(h, store)
  BY <1>0, <1>5, NoNewHandler DEF Refuse, End
<1>6. Load(store).issue # 0 => Load(store).issue \in Numbers
  BY <1>1, LoadIsEntity, EntityFacts, Bounds DEF Numbers
<1> QED
  BY <1>2, <1>3, <1>4, <1>5, <1>6 DEF ApproveBegins

\* Handlers keep their type and what they know, in every step.
LEMMA HandlersStayRight ==
  ASSUME ThreadInv, Next
  PROVE  HandlersAreRight'
<1>0. store.bound # 0 => store'.bound = store.bound
  BY BindingStays
<1>1. CASE NewThread \/ MessageArrives \/ Commands
  BY <1>1, StartedHandlers
<1>2. CASE Background
  BY <1>0, <1>2, NoNewHandler, BackgroundLeaves
<1>3. ASSUME NEW h \in handlers, Progress(h) \/ PlanReports(h) \/ Failure(h)
      PROVE  HandlersAreRight'
  <2>1. CASE \/ MessageTaken(h) \/ PlanBegins(h) \/ PlanBuilt(h) \/ IssueCreated(h)
             \/ AddedToProject(h) \/ PlanApproved(h) \/ MadeReady(h)
    BY <2>1, ContinuedHandlers
  <2>2. CASE ApproveBegins(h) \/ IssueAnswered(h)
    BY <2>2, ApproveBeginsHandlers
  <2>3. CASE \/ AttachmentsRefused(h) \/ ReplySent(h) \/ PlanDrafted(h) \/ PlanSynced(h)
             \/ ApproveEnds(h) \/ RejectEnds(h) \/ ReviseEnds(h) \/ PlanReports(h)
             \/ Failure(h)
    <3>1. handlers' \subseteq handlers
      BY <2>3 DEF AttachmentsRefused, ReplySent, PlanDrafted, PlanSynced, ApproveEnds,
         RejectEnds, ReviseEnds, PlanReports, Failure, ReplyLost, PlanFails, PlanNotSynced,
         IssueNotAnswered, PromotionFails, Refuse, End
    <3> QED
      BY <1>0, <3>1, NoNewHandler
  <2> QED
    BY <1>3, <2>1, <2>2, <2>3 DEF Progress
<1> QED
  BY <1>1, <1>2, <1>3 DEF Next, Background

\* The ways a step may change the store.
LEMMA StoreSteps ==
  ASSUME ThreadInv, Next
  PROVE  \/ UNCHANGED store
         \/ NewThread
         \/ Keeps(store, store')
         \/ /\ Replaces(store, store')
            /\ \E h \in handlers : PlanDrafted(h) \/ PlanSynced(h)
         \/ \E h \in handlers :
              /\ h.kind = "approve" /\ h.pc = "deferred"
              /\ Load(store).plan # NoPlan /\ Load(store).issue \in Numbers
              /\ Bind(h, store, Load(store).issue)
         \/ \E h \in handlers : IssueAnswered(h)
<1>1. CASE PlanCommand \/ ApproveCommand
  BY <1>1 DEF PlanCommand, ApproveCommand
<1>2. CASE RejectCommand \/ ReviseCommand
  BY <1>2, CommandsKeep
<1>3. CASE BoardSync
  BY <1>3, BoardSyncKeeps
<1>4. CASE MessageArrives \/ TickReconciles \/ Dispatch \/ RunEnds \/ Crash
  BY <1>4, RunKeeps
<1>5. ASSUME NEW h \in handlers, ApproveBegins(h)
      PROVE  \/ Keeps(store, store')
             \/ /\ h.kind = "approve" /\ h.pc = "deferred"
                /\ Load(store).plan # NoPlan /\ Load(store).issue \in Numbers
                /\ Bind(h, store, Load(store).issue)
  <2>1. h.kind = "approve" /\ h.pc = "deferred"
    BY <1>5 DEF ApproveBegins
  <2> QED
    BY <1>5, <2>1, ApproveBeginsSteps
<1>6. ASSUME NEW h \in handlers,
             \/ AttachmentsRefused(h) \/ PlanBuilt(h) \/ IssueCreated(h) \/ AddedToProject(h)
             \/ PlanApproved(h) \/ ReplyLost(h)
      PROVE  UNCHANGED store
  BY <1>6 DEF AttachmentsRefused, PlanBuilt, IssueCreated, AddedToProject, PlanApproved,
     ReplyLost
<1>7. ASSUME NEW h \in handlers,
             \/ MessageTaken(h) \/ ReplySent(h) \/ PlanBegins(h) \/ PlanReports(h)
             \/ PlanFails(h) \/ PlanNotSynced(h) \/ IssueNotAnswered(h) \/ PromotionFails(h)
             \/ MadeReady(h) \/ ApproveEnds(h) \/ RejectEnds(h) \/ ReviseEnds(h)
      PROVE  Keeps(store, store')
  BY <1>7, MessageTakenKeeps, ReplySentKeeps, PlanBeginsKeeps, PlanFailureKeeps,
     ApprovalFailureKeeps, MadeReadyKeeps, ClosingKeeps
<1>8. ASSUME NEW h \in handlers, PlanDrafted(h) \/ PlanSynced(h)
      PROVE  Replaces(store, store')
  BY <1>8, PlanDraftedReplaces, PlanSyncedReplaces
<1>9. ASSUME NEW h \in handlers, Progress(h) \/ PlanReports(h) \/ Failure(h)
      PROVE  \/ UNCHANGED store
             \/ Keeps(store, store')
             \/ Replaces(store, store') /\ (PlanDrafted(h) \/ PlanSynced(h))
             \/ /\ h.kind = "approve" /\ h.pc = "deferred"
                /\ Load(store).plan # NoPlan /\ Load(store).issue \in Numbers
                /\ Bind(h, store, Load(store).issue)
             \/ IssueAnswered(h)
  BY <1>5, <1>6, <1>7, <1>8, <1>9 DEF Progress, Failure
<1> QED
  BY <1>1, <1>2, <1>3, <1>4, <1>9 DEF Next, Commands

\* A step leaves a store that is begun, or leaves it alone.
LEMMA StoreStaysBegun ==
  ASSUME ThreadInv, Next
  PROVE  UNCHANGED store \/ Begun(store')
<1>1. ASSUME NEW h \in handlers, h.kind = "approve",
             Load(store).issue \in Numbers, Bind(h, store, Load(store).issue)
      PROVE  Begun(store')
  BY <1>1, HandlerFacts, BindSteps
<1>2. ASSUME NEW h \in handlers, IssueAnswered(h)
      PROVE  Begun(store')
  <2>1. h.number \in Numbers /\ Begun(store)
    BY <1>2, HandlerFacts DEF IssueAnswered, Knows
  <2> QED
    BY <1>2, <2>1, NumberIsWritten, BindSteps DEF IssueAnswered
<1>3. CASE NewThread
  BY <1>3, NewThreadBegins
<1> QED
  BY <1>1, <1>2, <1>3, StoreSteps DEF Keeps, Replaces

\* The shape of the store, in every step.
LEMMA StoreInvariance ==
  ASSUME ThreadInv, Next
  PROVE  /\ store' \in Stores
         /\ ThreadIsBegun'
         /\ store'.bound = 0 => \A n \in Numbers : store'.issues[n] = NoEntity
<1>1. CASE Begun(store')
  BY <1>1 DEF Begun, ThreadIsBegun
<1>2. CASE UNCHANGED store /\ ~Begun(store)
  <2>1. ~Managed /\ handlers = {} /\ store.bound = 0
    BY <1>2 DEF ThreadInv, ThreadIsBegun
  <2>2. handlers' = {}
    <3>1. CASE Background
      BY <2>1, <3>1, BackgroundLeaves
    <3>2. CASE NewThread
      BY <1>2, <3>2, NewThreadBegins
    <3>3. CASE MessageArrives \/ Commands
      BY <2>1, <3>3 DEF MessageArrives, Commands, PlanCommand, ApproveCommand, RejectCommand,
         ReviseCommand, Command
    <3> QED
      BY <2>1, <3>1, <3>2, <3>3 DEF Next, Background
  <2> QED
    BY <1>2, <2>1, <2>2 DEF ThreadInv, ThreadIsBegun, TypeOK, Stores, Managed
<1> QED
  BY <1>1, <1>2, StoreStaysBegun

\* The type of what GitHub holds, in every step.
LEMMA GithubInvariance ==
  ASSUME ThreadInv, Next
  PROVE  github' \in Issues
<1>0. github \in Issues
  BY DEF ThreadInv, TypeOK, Issues
<1>1. /\ {"Drafted", "Approved", "Changes Requested"} \subseteq PlanState
      /\ {"Ready", "Backlog", "In Progress", "Human Review", "Rework", "Blocked"}
           \subseteq IssueStatus
  BY DEF PlanState, IssueStatus
<1>2. CASE UNCHANGED github
  BY <1>0, <1>2
<1>3. ASSUME NEW h \in handlers, PlanSynced(h) \/ PlanNotSynced(h) \/ RejectEnds(h) \/ ReviseEnds(h)
      PROVE  github' \in Issues
  <2>1. h.key \in Numbers
    BY <1>3, HandlerFacts DEF PlanSynced, PlanNotSynced, RejectEnds, ReviseEnds, Knows
  <2>2. SetPlan(github, h.key, "Drafted") \in Issues
        /\ SetPlan(github, h.key, "Changes Requested") \in Issues
    BY <1>0, <1>1, <2>1, FieldsAreSet
  <2>3. SetState(SetPlan(github, h.key, "Changes Requested"), h.key, "Backlog") \in Issues
    BY <1>1, <2>1, <2>2, FieldsAreSet
  <2> QED
    BY <1>0, <1>3, <2>2, <2>3 DEF PlanSynced, PlanNotSynced, RejectEnds, ReviseEnds
<1>4. ASSUME NEW h \in handlers, IssueCreated(h)
      PROVE  github' \in Issues
  BY <1>0, <1>4, IssuesAreMade DEF IssueCreated, NextNumber
<1>5. ASSUME NEW h \in handlers, AddedToProject(h) \/ PlanApproved(h) \/ MadeReady(h)
      PROVE  github' \in Issues
  <2>1. h.number \in Numbers
    BY <1>5, HandlerFacts DEF AddedToProject, PlanApproved, MadeReady, Knows
  <2>2. SetPlan(github, h.number, "Approved") \in Issues
        /\ SetState(github, h.number, "Ready") \in Issues
    BY <1>0, <1>1, <2>1, FieldsAreSet
  <2>3. AddToProject(github, h.number) \in Issues
    BY <1>0, <2>1, IssuesAreMade
  <2> QED
    BY <1>5, <2>2, <2>3 DEF AddedToProject, PlanApproved, MadeReady
<1>6. CASE MessageArrives \/ TickReconciles \/ Dispatch \/ RunEnds \/ Crash
  BY <1>0, <1>1, <1>6, RunKeeps, FieldsAreSet
<1>7. CASE NewThread \/ Commands \/ BoardSync
  BY <1>2, <1>7 DEF NewThread, Commands, PlanCommand, ApproveCommand, RejectCommand,
     ReviseCommand, BoardSync
<1>8. ASSUME NEW h \in handlers,
             \/ MessageTaken(h) \/ AttachmentsRefused(h) \/ ReplySent(h)
             \/ PlanBegins(h) \/ PlanDrafted(h) \/ PlanBuilt(h) \/ ApproveBegins(h)
             \/ IssueAnswered(h) \/ ApproveEnds(h) \/ PlanReports(h) \/ ReplyLost(h)
             \/ PlanFails(h) \/ IssueNotAnswered(h) \/ PromotionFails(h)
      PROVE  UNCHANGED github
  BY <1>8 DEF MessageTaken, AttachmentsRefused, ReplySent, PlanBegins, PlanDrafted, PlanBuilt,
     ApproveBegins, IssueAnswered, ApproveEnds, PlanReports, ReplyLost, PlanFails,
     IssueNotAnswered, PromotionFails
<1> QED
  BY <1>2, <1>3, <1>4, <1>5, <1>6, <1>7, <1>8 DEF Next, Progress, Failure

\* What the handlers' steps leave alone.
LEMMA HandlersLeave ==
  ASSUME NEW h \in handlers, Progress(h) \/ PlanReports(h) \/ Failure(h)
  PROVE  /\ UNCHANGED <<project, approved>>
         /\ UNCHANGED run \/ ApproveEnds(h)
         /\ UNCHANGED said \/ MessageTaken(h)
         /\ UNCHANGED lost \/ IssueNotAnswered(h)
         /\ UNCHANGED left \/ Fault
BY DEF Progress, Failure, MessageTaken, AttachmentsRefused, ReplySent, PlanBegins,
   PlanDrafted, PlanBuilt, PlanSynced, ApproveBegins, IssueCreated, IssueAnswered,
   AddedToProject, PlanApproved, MadeReady, ApproveEnds, RejectEnds, ReviseEnds,
   PlanReports, ReplyLost, PlanFails, PlanNotSynced, IssueNotAnswered, PromotionFails

\* What the others leave alone.
LEMMA OthersLeave ==
  ASSUME NewThread \/ MessageArrives \/ Commands \/ Background
  PROVE  /\ UNCHANGED project
         /\ UNCHANGED run \/ MessageArrives \/ Background
         /\ UNCHANGED approved \/ ApproveCommand
         /\ UNCHANGED said \/ NewThread
         /\ UNCHANGED lost \/ Crash
         /\ UNCHANGED left \/ Crash \/ Fault \/ \E kind \in Kinds : Command(kind)
<1>1. CASE NewThread \/ Commands
  BY <1>1 DEF NewThread, Commands, PlanCommand, ApproveCommand, RejectCommand, ReviseCommand,
     Kinds
<1>2. CASE MessageArrives
  BY <1>2 DEF MessageArrives, Reconcile
<1>3. CASE Background
  BY <1>3, BackgroundLeaves
<1> QED
  BY <1>1, <1>2, <1>3

\* What is left of the bounds.
LEMMA LeftInvariance ==
  ASSUME ThreadInv, Next
  PROVE  left' \in [commands : 0..MaxCommands, faults : 0..MaxFaults, crashes : 0..MaxCrashes]
<1>1. left \in [commands : 0..MaxCommands, faults : 0..MaxFaults, crashes : 0..MaxCrashes]
  BY DEF ThreadInv, TypeOK
<1>2. CASE UNCHANGED left
  BY <1>1, <1>2
<1>3. ASSUME NEW kind, Command(kind)
      PROVE  left' \in [commands : 0..MaxCommands, faults : 0..MaxFaults,
                        crashes : 0..MaxCrashes]
  <2>1. left.commands - 1 \in 0..MaxCommands
    BY <1>1, <1>3, Bounds DEF Command
  <2> QED
    BY <1>1, <1>3, <2>1 DEF Command
<1>4. CASE Fault
  <2>1. left.faults - 1 \in 0..MaxFaults
    BY <1>1, <1>4, Bounds DEF Fault
  <2> QED
    BY <1>1, <1>4, <2>1 DEF Fault
<1>5. CASE Crash
  <2>1. left.crashes > 0 /\ left' = [left EXCEPT !.crashes = left.crashes - 1]
    BY <1>5 DEF Crash
  <2>2. left.crashes - 1 \in 0..MaxCrashes
    BY <1>1, <2>1, Bounds
  <2> QED
    BY <1>1, <2>1, <2>2
<1> QED
  BY <1>2, <1>3, <1>4, <1>5, HandlersLeave, OthersLeave DEF Next, Background

\* The ways a step may change the run.
LEMMA RunSteps ==
  ASSUME Next
  PROVE  \/ UNCHANGED run
         \/ Reconcile \/ Dispatch \/ RunEnds \/ Crash
         \/ \E h \in handlers : ApproveEnds(h)
<1>1. CASE NewThread \/ MessageArrives \/ Commands
  BY <1>1, OthersLeave DEF MessageArrives, NewThread, Commands, PlanCommand, ApproveCommand,
     RejectCommand, ReviseCommand
<1>2. CASE BoardSync \/ TickReconciles
  BY <1>2 DEF BoardSync, TickReconciles
<1> QED
  BY <1>1, <1>2, HandlersLeave DEF Next

\* The plan the thread means has a number, or is none.
LEMMA PlansAreNumbered ==
  ASSUME ThreadInv, store.bound # 0
  PROVE  /\ Load(store).plan \in Plans \union {NoPlan}
         /\ Load(store).summary \in 0..MaxMessages
         /\ Load(store).plan.id \in 0..MaxCommands
<1>1. Load(store) \in Entity
  BY ManagedIsBegun, LoadIsEntity
<1>2. /\ Load(store).plan \in Plans \union {NoPlan}
      /\ Load(store).summary \in 0..MaxMessages
  BY <1>1, EntityFacts
<1>3. 0 \in 0..MaxCommands /\ 1..MaxCommands \subseteq 0..MaxCommands
  BY Bounds
<1> QED
  BY <1>2, <1>3 DEF Plans, NoPlan

\* A run keeps its type, and is of a thread with an issue.
LEMMA RunInvariance ==
  ASSUME ThreadInv, Next
  PROVE  run' \in Run /\ (run'.pc # "none" => store'.bound # 0)
<1>0. /\ run \in Run /\ (run.pc # "none" => store.bound # 0)
      /\ store.bound # 0 => store'.bound # 0
      /\ 0 \in 0..MaxCommands /\ 0 \in 0..MaxMessages
  <2>1. run \in Run /\ (run.pc # "none" => store.bound # 0)
    BY DEF ThreadInv, TypeOK
  <2> QED
    BY <2>1, BindingStays, Bounds
<1>1. NoRun \in Run /\ NoRun.pc = "none"
  BY <1>0 DEF NoRun, Run, NoPlan
<1>2. NotRun \in Run /\ NotRun.pc = "none"
  BY <1>0, <1>1 DEF NotRun, Run
<1>3. ASSUME NEW gate \in 0..MaxCommands PROVE Queue(gate) \in Run
  BY <1>0, <1>1 DEF Queue, Run
<1>4. CASE UNCHANGED run
  BY <1>0, <1>4
<1>5. CASE Reconcile
  BY <1>0, <1>5 DEF Reconcile, Run
<1>6. CASE DispatchBegins
  BY <1>0, <1>6 DEF DispatchBegins, Run
<1>7. CASE GateReads
  <2>1. store.bound # 0
    BY <1>0, <1>7 DEF GateReads
  <2> QED
    BY <1>0, <1>2, <1>7, <2>1, PlansAreNumbered DEF GateReads, Run
<1>8. CASE Enqueued
  <2>1. run.gate \in 0..MaxCommands
    BY <1>0 DEF Run
  <2> QED
    BY <1>0, <1>2, <1>3, <1>8, <2>1 DEF Enqueued
<1>9. CASE RunLoads
  <2>1. store.bound # 0
    BY <1>0, <1>9 DEF RunLoads
  <2> QED
    BY <1>0, <1>9, <2>1, PlansAreNumbered DEF RunLoads, Run
<1>10. CASE RunEnds
  BY <1>1, <1>10 DEF RunEnds
<1>11. CASE Crash
  <2>1. \/ run' \in {NoRun, NotRun}
        \/ /\ store.bound # 0
           /\ run' \in {[NotRun EXCEPT !.pc = "gate", !.accepts = {"Ready", "Rework"}],
                       [NotRun EXCEPT !.pc = "gated"]}
    BY <1>11 DEF Crash
  <2> QED
    BY <1>0, <1>1, <1>2, <2>1 DEF Run
<1>12. ASSUME NEW h \in handlers, ApproveEnds(h)
       PROVE  run' \in Run /\ (run'.pc # "none" => store'.bound # 0)
  <2>1. store.bound # 0
    BY <1>12, HandlerFacts DEF ApproveEnds, Knows
  <2> QED
    BY <1>0, <1>3, <1>12, <2>1, PlansAreNumbered DEF ApproveEnds
<1> QED
  BY <1>4, <1>5, <1>6, <1>7, <1>8, <1>9, <1>10, <1>11, <1>12, RunSteps DEF Dispatch

\* The messages, whether there is a Project, and the two histories.
LEMMA RestInvariance ==
  ASSUME ThreadInv, Next
  PROVE  /\ project' = project
         /\ said' \in 0..MaxMessages
         /\ approved' \subseteq 1..MaxCommands
         /\ lost' \in Nat
<1>0. /\ said \in 0..MaxMessages
      /\ approved \subseteq 1..MaxCommands
      /\ lost \in Nat /\ IsFiniteSet(handlers)
  BY DEF ThreadInv, TypeOK
<1>1. said' \in 0..MaxMessages
  <2>1. CASE UNCHANGED said
    BY <1>0, <2>1
  <2>2. CASE NewThread
    BY <2>2, Bounds DEF NewThread
  <2>3. ASSUME NEW h \in handlers, MessageTaken(h) PROVE said' \in 0..MaxMessages
    BY <1>0, <2>3, Bounds DEF MessageTaken
  <2> QED
    BY <2>1, <2>2, <2>3, HandlersLeave, OthersLeave DEF Next, Background
<1>2. project' = project
  BY HandlersLeave, OthersLeave DEF Next, Background
<1>3. approved' \subseteq 1..MaxCommands
  <2>1. CASE UNCHANGED approved
    BY <1>0, <2>1
  <2>2. CASE ApproveCommand
    <3>1. Load(store).plan \in Plans
      BY <2>2, ManagedIsBegun, LoadIsEntity, EntityFacts DEF ApproveCommand, Command
    <3>2. Load(store).plan.id \in 1..MaxCommands
      BY <3>1 DEF Plans
    <3> QED
      BY <1>0, <2>2, <3>2 DEF ApproveCommand
  <2> QED
    BY <2>1, <2>2, HandlersLeave, OthersLeave DEF Next, Background
<1>4. lost' \in Nat
  <2>1. CASE UNCHANGED lost
    BY <1>0, <2>1
  <2>2. CASE Crash
    <3>1. IsFiniteSet({h \in handlers : h.pc = "created"})
      BY <1>0, FS_Subset
    <3>2. Cardinality({h \in handlers : h.pc = "created"}) \in Nat
      BY <3>1, FS_CardinalityType
    <3>3. lost' = lost + Cardinality({h \in handlers : h.pc = "created"})
      BY <2>2 DEF Crash
    <3> QED
      BY <1>0, <3>2, <3>3
  <2>3. ASSUME NEW h \in handlers, IssueNotAnswered(h) PROVE lost' \in Nat
    BY <1>0, <2>3 DEF IssueNotAnswered
  <2> QED
    BY <2>1, <2>2, <2>3, HandlersLeave, OthersLeave DEF Next, Background
<1> QED
  BY <1>1, <1>2, <1>3, <1>4

-----------------------------------------------------------------------------
(* The shape of the thread, and the planning it shows.                     *)

\* A step that is not of a planning handler ends none.
LEMMA PlannersStay ==
  ASSUME ThreadInv, NEW h \in handlers,
         \/ MessageTaken(h) \/ AttachmentsRefused(h) \/ ReplyLost(h) \/ ApproveBegins(h)
         \/ IssueCreated(h) \/ AddedToProject(h) \/ PlanApproved(h) \/ ApproveEnds(h)
         \/ IssueNotAnswered(h) \/ PromotionFails(h)
  PROVE  h.kind # "plan" /\ handlers \ {h} \subseteq handlers'
BY DEF MessageTaken, AttachmentsRefused, ReplyLost, ApproveBegins, Bind, IssueCreated,
   AddedToProject, PlanApproved, ApproveEnds, IssueNotAnswered, PromotionFails, Refuse,
   Continue, End

\* A planning that ends takes its status with it.
LEMMA PlanningStaysReal ==
  ASSUME ThreadInv, Next
  PROVE  PlanningIsReal'
<1> SUFFICES ASSUME store'.bound = 0, left'.crashes = MaxCrashes, Managed',
                    store'.draft.status \in {"planning", "test_plan_generating"}
             PROVE  \E h \in handlers' : h.kind = "plan"
  BY DEF PlanningIsReal
<1>1. store.bound = 0
  BY BindingStays
<1>2. left.crashes = MaxCrashes /\ ~Crash
  <2>1. left \in [commands : 0..MaxCommands, faults : 0..MaxFaults, crashes : 0..MaxCrashes]
    BY DEF ThreadInv, TypeOK
  <2>2. ~Crash
    <3>1. Crash => left.crashes > 0 /\ left' = [left EXCEPT !.crashes = left.crashes - 1]
      BY DEF Crash
    <3> QED
      BY <2>1, <3>1, Bounds
  <2>3. UNCHANGED left \/ Fault \/ \E kind \in Kinds : Command(kind)
    BY <2>2, HandlersLeave, OthersLeave DEF Next, Background
  <2> QED
    BY <2>1, <2>2, <2>3 DEF Fault, Command
<1>3. ASSUME Managed, store.draft.status = store'.draft.status
      PROVE  \E h \in handlers : h.kind = "plan"
  BY <1>1, <1>2, <1>3 DEF ThreadInv, PlanningIsReal
<1>4. ~(RejectCommand \/ ReviseCommand)
  BY <1>1, CommandsKeep
<1>5. ~BoardSync
  BY <1>1, BoardSyncKeeps
<1>6. ~NewThread
  <2>1. [NoEntity EXCEPT !.status = "draft"].status = "draft"
    BY DEF NoEntity
  <2> QED
    BY <2>1, NewThreadBegins
<1>7. CASE \/ MessageArrives \/ PlanCommand \/ ApproveCommand
           \/ TickReconciles \/ Dispatch \/ RunEnds
  <2>1. handlers \subseteq handlers'
    BY <1>2, <1>7, BackgroundLeaves DEF MessageArrives, PlanCommand, ApproveCommand, Start,
       Background
  <2>2. UNCHANGED store
    BY <1>1, <1>7, RunKeeps DEF PlanCommand, ApproveCommand
  <2> QED
    BY <1>3, <2>1, <2>2 DEF Managed
<1>8. ASSUME NEW h \in handlers, Progress(h) \/ PlanReports(h) \/ Failure(h)
      PROVE  \E g \in handlers' : g.kind = "plan"
  <2>1. Begun(store) /\ Managed
    BY HandlerFacts, EntityFacts DEF Managed, Begun
  <2>2. ~(ReplySent(h) \/ PlanFails(h) \/ PlanNotSynced(h) \/ PlanDrafted(h) \/ PlanSynced(h))
    BY <1>1, ReplySentKeeps, PlanFailureKeeps, PlanDraftedReplaces, PlanSyncedReplaces
  <2>3. ~(MadeReady(h) \/ RejectEnds(h) \/ ReviseEnds(h))
    BY <1>1, MadeReadyKeeps, ClosingKeeps
  <2>4. ASSUME NEW s, Begun(s), s.bound = 0, NEW n \in Numbers, Bind(h, s, n)
        PROVE  FALSE
    <3>1. MayBind(s, n) /\ n # 0
      BY <2>4, Bounds DEF MayBind, Numbers
    <3> QED
      BY <2>4, <3>1, BindSteps DEF Binds
  <2>5. ~IssueAnswered(h)
    <3>1. SUFFICES ASSUME IssueAnswered(h) PROVE FALSE
      OBVIOUS
    <3>2. h.number \in Numbers
      BY <3>1, HandlerFacts DEF IssueAnswered, Knows
    <3> QED
      BY <1>1, <2>1, <2>4, <3>1, <3>2, NumberIsWritten DEF IssueAnswered
  <2>6. CASE PlanBegins(h) \/ PlanBuilt(h)
    <3>1. h \in Handler /\ h.kind = "plan"
      BY <2>6, HandlerFacts DEF PlanBegins, PlanBuilt
    <3>2. PICK pc \in {"planning", "syncing"}, key \in {h.key, store.bound} :
            handlers' = (handlers \ {h}) \union {[h EXCEPT !.pc = pc, !.key = key]}
      <4>1. [h EXCEPT !.pc = "syncing"] = [h EXCEPT !.pc = "syncing", !.key = h.key]
        BY <3>1 DEF Handler
      <4> QED
        BY <2>6, <4>1 DEF PlanBegins, PlanBuilt, Continue
    <3>3. [h EXCEPT !.pc = pc, !.key = key].kind = "plan"
      BY <3>1 DEF Handler
    <3> QED
      BY <3>2, <3>3
  <2>7. CASE PlanReports(h)
    BY <2>7 DEF PlanReports
  <2>8. CASE \/ MessageTaken(h) \/ AttachmentsRefused(h) \/ ReplyLost(h) \/ ApproveBegins(h)
             \/ IssueCreated(h) \/ AddedToProject(h) \/ PlanApproved(h) \/ ApproveEnds(h)
             \/ IssueNotAnswered(h) \/ PromotionFails(h)
    <3>1. h.kind # "plan" /\ handlers \ {h} \subseteq handlers'
      BY <2>8, PlannersStay
    <3>2. store'.draft.status = store.draft.status
      <4>1. CASE MessageTaken(h)
        BY <4>1, MessageTakenKeeps
      <4>2. CASE ApproveBegins(h)
        BY <1>1, <2>1, <2>4, <4>2, ApproveBeginsSteps
      <4>3. CASE IssueNotAnswered(h) \/ PromotionFails(h) \/ ApproveEnds(h)
        BY <1>1, <4>3, ApprovalFailureKeeps
      <4>4. CASE \/ AttachmentsRefused(h) \/ ReplyLost(h) \/ IssueCreated(h)
                 \/ AddedToProject(h) \/ PlanApproved(h)
        BY <4>4 DEF AttachmentsRefused, ReplyLost, IssueCreated, AddedToProject, PlanApproved
      <4> QED
        BY <2>8, <4>1, <4>2, <4>3, <4>4
    <3> QED
      BY <1>3, <2>1, <3>1, <3>2
  <2> QED
    BY <1>8, <2>2, <2>3, <2>5, <2>6, <2>7, <2>8 DEF Progress, Failure
<1> QED
  BY <1>2, <1>4, <1>5, <1>6, <1>7, <1>8 DEF Next, Commands

\* The shape of the thread is inductive.
LEMMA ThreadInvariance == ThreadInv /\ [Next]_vars => ThreadInv'
<1>1. ASSUME ThreadInv, Next PROVE ThreadInv'
  <2>1. TypeOK'
    BY <1>1, StoreInvariance, HandlersStayRight, GithubInvariance, LeftInvariance,
       RestInvariance, RunInvariance
    DEF ThreadInv, TypeOK, Stores, Issues, HandlersAreRight
  <2>2. (\A h \in handlers : Knows(h, store.bound))'
    BY <1>1, HandlersStayRight DEF HandlersAreRight
  <2> QED
    BY <1>1, <2>1, <2>2, RunInvariance, StoreInvariance, PlanningStaysReal DEF ThreadInv
<1>2. ASSUME ThreadInv, UNCHANGED vars PROVE ThreadInv'
  BY <1>2 DEF ThreadInv, vars, TypeOK, ThreadIsBegun, Managed, PlanningIsReal
<1> QED
  BY <1>1, <1>2

\* The shape of the thread holds at the start.
LEMMA ThreadInitially == Init => ThreadInv
<1> SUFFICES ASSUME Init PROVE ThreadInv
  OBVIOUS
<1>1. 0 \in 0..MaxMessages /\ 0 \in 0..MaxCommands
      /\ MaxCommands \in 0..MaxCommands /\ MaxFaults \in 0..MaxFaults
      /\ MaxCrashes \in 0..MaxCrashes
  BY Bounds
<1>2. store \in Stores /\ github \in Issues
  BY <1>1 DEF Init, Stores, Issues, PlanState
<1>3. run \in Run /\ run.pc = "none"
  BY <1>1 DEF Init, NoRun, Run
<1>4. project \in BOOLEAN
  BY ConversationAssumption DEF Init
<1>5. TypeOK
  BY <1>1, <1>2, <1>3, <1>4, FS_EmptySet DEF Init, TypeOK, Stores, Issues
<1> QED
  BY <1>3, <1>5 DEF Init, ThreadInv, ThreadIsBegun, Managed, PlanningIsReal

\* The store has its shape, and what a handler read before its await is still
\* true of the thread where it counts, in every state.
THEOREM ThreadInvariant == Spec => []ThreadInv
  BY ThreadInitially, ThreadInvariance, PTL DEF Spec

\* The files, GitHub's issues and the handlers keep their types.
THEOREM TypeCorrect == Spec => []TypeOK
<1>1. ThreadInv => TypeOK
  BY DEF ThreadInv
<1> QED
  BY <1>1, ThreadInvariant, PTL

\* A thread without an issue never shows a planning that is not under way,
\* whichever commands and messages overlap and whatever raises.
THEOREM PlanningIsRealHolds == Spec => []PlanningIsReal
<1>1. ThreadInv => PlanningIsReal
  BY DEF ThreadInv
<1> QED
  BY <1>1, ThreadInvariant, PTL

-----------------------------------------------------------------------------
(* The issue of the thread.                                                *)

\* A user does not approve twice at once.
OneApprovalAtATime == {"approve"} \in Exclusive

Created(g) == {n \in Numbers : g[n].created}
IsOne(P) == IF P THEN 1 ELSE 0

IssueInv ==
  /\ ThreadInv
  /\ \A h, k \in handlers : h.kind = "approve" /\ k.kind = "approve" => h = k
  /\ \A h \in handlers :
       h.pc \in {"creating", "created"} => h.kind = "approve" /\ store.bound = 0
  /\ store.draft.issue # 0 => store.bound = store.draft.issue
  /\ BoundHasIssue
  /\ Cardinality(Created(github))
       <= lost + IsOne(store.bound # 0) + IsOne(\E h \in handlers : h.pc = "created")

\* A step of one handler replaces or ends it, and leaves the others.
LEMMA HandlerSteps ==
  ASSUME ThreadInv, NEW h \in handlers, Progress(h) \/ PlanReports(h) \/ Failure(h)
  PROVE  /\ handlers \ {h} \subseteq handlers'
         /\ \/ handlers' = handlers \ {h}
            \/ \E g : /\ handlers' = (handlers \ {h}) \union {g}
                      /\ g.kind = h.kind
                      /\ g.pc = "creating" => /\ h.kind = "approve" /\ h.pc = "deferred"
                                              /\ Load(store).issue = 0 /\ UNCHANGED store
                      /\ g.pc = "created" => IssueCreated(h)
<1>0. h \in Handler
  BY HandlerFacts
<1>1. CASE PlanReports(h)
  <2>1. handlers' = (handlers \ {h}) \union {h} /\ h.pc = "planning"
    BY <1>1 DEF PlanReports
  <2> QED
    BY <2>1
<1>2. CASE \/ AttachmentsRefused(h) \/ ReplySent(h) \/ PlanDrafted(h) \/ PlanSynced(h)
           \/ ApproveEnds(h) \/ RejectEnds(h) \/ ReviseEnds(h) \/ Failure(h)
  BY <1>2 DEF AttachmentsRefused, ReplySent, PlanDrafted, PlanSynced, ApproveEnds,
     RejectEnds, ReviseEnds, Failure, ReplyLost, PlanFails, PlanNotSynced,
     IssueNotAnswered, PromotionFails, Refuse, End
<1>3. CASE MessageTaken(h)
  <2>1. PICK g : g = [h EXCEPT !.pc = "replying", !.of = said + 1]
    OBVIOUS
  <2>2. g.kind = h.kind /\ g.pc = "replying"
    BY <1>0, <2>1 DEF Handler
  <2> QED
    BY <1>3, <2>1, <2>2 DEF MessageTaken, Continue
<1>4. CASE PlanBegins(h)
  <2>1. PICK g : g = [h EXCEPT !.pc = "planning", !.key = store.bound]
    OBVIOUS
  <2>2. g.kind = h.kind /\ g.pc = "planning"
    BY <1>0, <2>1 DEF Handler
  <2> QED
    BY <1>4, <2>1, <2>2 DEF PlanBegins, Continue
<1>5. CASE PlanBuilt(h) \/ AddedToProject(h) \/ PlanApproved(h) \/ MadeReady(h)
  <2>1. PICK pc \in {"syncing", "approving", "readying", "ticking"} :
          handlers' = (handlers \ {h}) \union {[h EXCEPT !.pc = pc]}
    BY <1>5 DEF PlanBuilt, AddedToProject, PlanApproved, MadeReady, Continue
  <2>2. [h EXCEPT !.pc = pc].kind = h.kind /\ [h EXCEPT !.pc = pc].pc = pc
    BY <1>0 DEF Handler
  <2> QED
    BY <2>1, <2>2
<1>6. CASE IssueCreated(h)
  <2>1. PICK n \in NextNumber(github) :
          handlers' = (handlers \ {h}) \union {[h EXCEPT !.pc = "created", !.number = n]}
    BY <1>6 DEF IssueCreated, Continue
  <2>2. PICK g : g = [h EXCEPT !.pc = "created", !.number = n]
    OBVIOUS
  <2>3. g.kind = h.kind /\ g.pc = "created"
    BY <1>0, <2>2 DEF Handler
  <2> QED
    BY <1>6, <2>1, <2>2, <2>3
<1>7. ASSUME NEW s, NEW n, Bind(h, s, n)
      PROVE  \/ handlers' = handlers \ {h}
             \/ \E g : /\ handlers' = (handlers \ {h}) \union {g}
                       /\ g.kind = h.kind /\ g.pc = "adding"
  <2>1. PICK g : g = [h EXCEPT !.pc = "adding", !.number = n]
    OBVIOUS
  <2>2. g.kind = h.kind /\ g.pc = "adding"
    BY <1>0, <2>1 DEF Handler
  <2> QED
    BY <1>7, <2>1, <2>2 DEF Bind, Continue, Refuse, End
<1>8. CASE IssueAnswered(h)
  BY <1>7, <1>8 DEF IssueAnswered
<1>9. CASE ApproveBegins(h)
  <2>1. CASE Load(store).plan = NoPlan /\ Refuse(h, store)
    BY <2>1 DEF Refuse, End
  <2>2. CASE Bind(h, store, Load(store).issue)
    BY <1>7, <2>2
  <2>3. CASE /\ Load(store).issue = 0 /\ UNCHANGED store
             /\ Continue(h, [h EXCEPT !.pc = "creating"])
    <3>1. h.kind = "approve" /\ h.pc = "deferred"
      BY <1>9 DEF ApproveBegins
    <3>2. PICK g : g = [h EXCEPT !.pc = "creating"]
      OBVIOUS
    <3>3. g.kind = h.kind /\ g.pc = "creating"
      BY <1>0, <3>2 DEF Handler
    <3> QED
      BY <2>3, <3>1, <3>2, <3>3 DEF Continue
  <2> QED
    BY <1>9, <2>1, <2>2, <2>3 DEF ApproveBegins
<1> QED
  BY <1>1, <1>2, <1>3, <1>4, <1>5, <1>6, <1>8, <1>9 DEF Progress

\* A handler that starts is of its command, and is at its beginning.
LEMMA StartSteps ==
  ASSUME ThreadInv, NewThread \/ MessageArrives \/ Commands
  PROVE  \/ handlers' = handlers
         \/ \E g : /\ handlers' = handlers \union {g}
                   /\ g.pc \notin {"creating", "created"}
                   /\ g.kind = "approve" => ApproveCommand
                   /\ g.kind = "plan" => PlanCommand
<1>1. ASSUME NEW kind \in Kinds, NEW pc \in {"reading", "replying", "deferred", "closing"},
             FreeIds # {}
      PROVE  /\ NewHandler(kind, pc) \in Handler
             /\ NewHandler(kind, pc).kind = kind /\ NewHandler(kind, pc).pc = pc
  BY <1>1, NewHandlerIsNew
<1>2. ASSUME NewThread PROVE FreeIds # {}
  BY <1>2, EntityFacts, Bounds DEF NewThread, ThreadInv, ThreadIsBegun, Managed, Begun, FreeIds
<1>3. CASE NewThread
  <2>1. PICK n : n = NewHandler("message", "replying")
    OBVIOUS
  <2>2. n \in Handler /\ n.kind = "message" /\ n.pc = "replying"
    BY <1>1, <1>2, <1>3, <2>1 DEF Kinds
  <2>3. PICK g : g = [n EXCEPT !.of = 1]
    OBVIOUS
  <2>4. g.kind = "message" /\ g.pc = "replying"
    BY <2>2, <2>3 DEF Handler
  <2> QED
    BY <1>3, <2>1, <2>3, <2>4 DEF NewThread, Start
<1>4. CASE MessageArrives
  <2>1. PICK n : n = NewHandler("message", "reading")
    OBVIOUS
  <2>2. n \in Handler /\ n.kind = "message" /\ n.pc = "reading"
    BY <1>1, <1>4, <2>1 DEF Kinds, MessageArrives, MayStart
  <2>3. PICK g : g = [n EXCEPT !.status = UiStatus(store'), !.key = store.bound]
    OBVIOUS
  <2>4. g.kind = "message" /\ g.pc = "reading"
    BY <2>2, <2>3 DEF Handler
  <2> QED
    BY <1>4, <2>1, <2>3, <2>4 DEF MessageArrives, Start
<1>5. CASE PlanCommand
  <2>1. PICK n : n = NewHandler("plan", "deferred")
    OBVIOUS
  <2>2. n \in Handler /\ n.kind = "plan" /\ n.pc = "deferred"
    BY <1>1, <1>5, <2>1 DEF Kinds, PlanCommand, Command, MayStart
  <2>3. PICK g : g = [n EXCEPT !.of = Load(store).summary, !.number = left.commands]
    OBVIOUS
  <2>4. g.kind = "plan" /\ g.pc = "deferred"
    BY <2>2, <2>3 DEF Handler
  <2> QED
    BY <1>5, <2>1, <2>3, <2>4 DEF PlanCommand, Start
<1>6. CASE ApproveCommand
  <2>1. PICK g : g = NewHandler("approve", "deferred")
    OBVIOUS
  <2>2. g.kind = "approve" /\ g.pc = "deferred"
    BY <1>1, <1>6, <2>1 DEF Kinds, ApproveCommand, Command, MayStart
  <2> QED
    BY <1>6, <2>1, <2>2 DEF ApproveCommand, Start
<1>7. ASSUME NEW kind \in {"reject", "revise"}, FreeIds # {},
             Start([NewHandler(kind, "closing") EXCEPT !.key = store.bound])
      PROVE  \E g : /\ handlers' = handlers \union {g}
                    /\ g.kind = kind /\ g.pc = "closing"
  <2>1. PICK n : n = NewHandler(kind, "closing")
    OBVIOUS
  <2>2. n \in Handler /\ n.kind = kind /\ n.pc = "closing"
    BY <1>1, <1>7, <2>1 DEF Kinds
  <2>3. PICK g : g = [n EXCEPT !.key = store.bound]
    OBVIOUS
  <2>4. g.kind = kind /\ g.pc = "closing"
    BY <2>2, <2>3 DEF Handler
  <2> QED
    BY <1>7, <2>1, <2>3, <2>4 DEF Start
<1>8. CASE RejectCommand
  <2>1. FreeIds # {}
    BY <1>8 DEF RejectCommand, Command, MayStart
  <2> QED
    BY <1>7, <1>8, <2>1 DEF RejectCommand
<1>9. CASE ReviseCommand
  <2>1. FreeIds # {}
    BY <1>9 DEF ReviseCommand, Command, MayStart
  <2> QED
    BY <1>7, <1>9, <2>1 DEF ReviseCommand
<1> QED
  BY <1>3, <1>4, <1>5, <1>6, <1>8, <1>9 DEF Commands

\* The answer of GitHub binds a thread that has no issue.
LEMMA AnswerBinds ==
  ASSUME IssueInv, NEW h \in handlers, IssueAnswered(h)
  PROVE  /\ store.bound = 0 /\ store'.bound = h.number /\ h.number \in Numbers
         /\ Begun(store') /\ store'.draft.issue = h.number
         /\ store'.draft.plan = store.draft.plan
         /\ Load(store').issue = h.number
         /\ Load(store').plan = store.draft.plan
<1> DEFINE n == h.number
           s == Put(store, [Load(store) EXCEPT !.issue = n])
<1>1. store.bound = 0 /\ n \in Numbers /\ n # 0 /\ Begun(store)
  BY HandlerFacts DEF IssueInv, IssueAnswered, Knows
<1>2. s = [store EXCEPT !.draft = [store.draft EXCEPT !.issue = n]] /\ Begun(s) /\ s.bound = 0
  BY <1>1, NumberIsWritten
<1>3. Bind(h, s, n)
  BY DEF IssueAnswered
<1>4. s.draft = [store.draft EXCEPT !.issue = n] /\ s.issues = store.issues
  BY <1>1, <1>2 DEF Begun, Stores
<1>5. s.draft \in Entity /\ s.draft.issue = n /\ s.draft.plan = store.draft.plan
  BY <1>1, <1>2, <1>4 DEF Begun, Entity
<1> HIDE DEF s
<1>6. Binds(s, n, store') /\ MayBind(s, n)
  BY <1>1, <1>2, <1>3, BindSteps DEF MayBind
<1>7. Begun(store') /\ store'.draft = s.draft /\ store'.bound = n
      /\ Load(store') = Promoted(s.draft, RecordOf(s, n))
  BY <1>6 DEF Binds
<1>8. RecordOf(s, n) = [NoEntity EXCEPT !.status = s.draft.status]
  BY <1>1, <1>2, <1>4 DEF RecordOf, Begun
<1>9. RecordOf(s, n) \in Entity /\ RecordOf(s, n).plan = NoPlan
  <2>1. s.draft.status \in DraftStatus \union IssueStatus
    BY <1>5, EntityFacts
  <2>2. 0 \in 0..MaxMessages /\ 0 \in 0..MaxCommands
    BY Bounds
  <2> QED
    BY <1>8, <2>1, <2>2 DEF NoEntity, Entity, PlanState
<1> QED
  BY <1>1, <1>5, <1>7, <1>9, PromotedIsEntity

\* An approval that finds an issue finds the thread's.
LEMMA RepeatBinds ==
  ASSUME IssueInv, NEW h \in handlers, Load(store).issue \in Numbers,
         Bind(h, store, Load(store).issue)
  PROVE  /\ store.bound # 0 /\ store'.bound = store.bound
         /\ Begun(store') /\ store'.draft = store.draft
         /\ Load(store').issue = store.bound
         /\ Load(store').plan = IF store.draft.plan # NoPlan THEN store.draft.plan
                                ELSE Load(store).plan
<1>1. Begun(store)
  BY HandlerFacts DEF IssueInv
<1>2. Load(store).issue # 0
  BY Bounds DEF Numbers
<1>3. store.bound # 0 /\ Load(store).issue = store.bound
  BY <1>2 DEF IssueInv, BoundHasIssue, Load
<1>4. MayBind(store, store.bound)
  BY DEF MayBind
<1>5. Binds(store, store.bound, store')
  BY <1>1, <1>3, <1>4, BindSteps
<1>6. RecordOf(store, store.bound) = Load(store) /\ Load(store) \in Entity
  BY <1>1, <1>3, LoadIsEntity, EntityFacts DEF RecordOf, Load
<1>7. /\ Load(store').issue = IF store.draft.issue # 0 THEN store.draft.issue
                              ELSE Load(store).issue
      /\ Load(store').plan = IF store.draft.plan # NoPlan THEN store.draft.plan
                             ELSE Load(store).plan
  BY <1>1, <1>4, <1>5, <1>6, PromotedIsEntity DEF Binds, Begun
<1>8. store.draft.issue # 0 => store.draft.issue = store.bound
  BY DEF IssueInv
<1> QED
  BY <1>3, <1>4, <1>5, <1>7, <1>8 DEF Binds

\* Only the answer of GitHub binds the thread.
LEMMA OnlyAnswersBind ==
  ASSUME IssueInv, Next, store'.bound # store.bound
  PROVE  \E h \in handlers : IssueAnswered(h)
BY StoreSteps, RepeatBinds, NewThreadBegins DEF IssueInv, Keeps, Replaces

\* issue.json of a bound thread names its issue after every step.
LEMMA IssueStaysNamed ==
  ASSUME IssueInv, Next
  PROVE  /\ store'.draft.issue # 0 => store'.bound = store'.draft.issue
         /\ BoundHasIssue'
<1>1. CASE UNCHANGED store
  BY <1>1 DEF IssueInv, BoundHasIssue
<1>2. CASE NewThread
  BY <1>2, NewThreadBegins DEF IssueInv, NoEntity, BoundHasIssue
<1>3. CASE Keeps(store, store')
  BY <1>3 DEF IssueInv, Keeps, BoundHasIssue
<1>4. CASE Replaces(store, store')
  BY <1>4 DEF IssueInv, Replaces, BoundHasIssue
<1>5. ASSUME NEW h \in handlers, Load(store).issue \in Numbers,
             Bind(h, store, Load(store).issue)
      PROVE  /\ store'.draft.issue # 0 => store'.bound = store'.draft.issue
             /\ BoundHasIssue'
  BY <1>5, RepeatBinds DEF IssueInv, BoundHasIssue
<1>6. ASSUME NEW h \in handlers, IssueAnswered(h)
      PROVE  /\ store'.draft.issue # 0 => store'.bound = store'.draft.issue
             /\ BoundHasIssue'
  BY <1>6, AnswerBinds DEF BoundHasIssue
<1> QED
  BY <1>1, <1>2, <1>3, <1>4, <1>5, <1>6, StoreSteps DEF IssueInv

\* No second approval starts beside one.
LEMMA ApprovalsStayAlone ==
  ASSUME IssueInv, Next, OneApprovalAtATime
  PROVE  \A h, k \in handlers' : h.kind = "approve" /\ k.kind = "approve" => h = k
<1>1. CASE NewThread \/ MessageArrives \/ Commands
  <2>1. ASSUME ApproveCommand, NEW k \in handlers PROVE k.kind # "approve"
    <3>1. {"approve", k.kind} \notin Exclusive
      BY <2>1 DEF ApproveCommand, Command, MayStart
    <3>2. k.kind = "approve" => {"approve", k.kind} = {"approve"}
      OBVIOUS
    <3> QED
      BY <3>1, <3>2 DEF OneApprovalAtATime
  <2> QED
    BY <1>1, <2>1, StartSteps DEF IssueInv
<1>2. ASSUME NEW h \in handlers, Progress(h) \/ PlanReports(h) \/ Failure(h)
      PROVE  \A g, k \in handlers' : g.kind = "approve" /\ k.kind = "approve" => g = k
  BY <1>2, HandlerSteps DEF IssueInv
<1>3. CASE Background
  BY <1>3, BackgroundLeaves DEF IssueInv
<1> QED
  BY <1>1, <1>2, <1>3 DEF Next, Background

\* An issue is created for a thread that has none.
LEMMA CreatingIsUnbound ==
  ASSUME IssueInv, Next, NEW k \in handlers', k.pc \in {"creating", "created"}
  PROVE  k.kind = "approve" /\ store'.bound = 0
<1>1. CASE k \in handlers
  <2>1. k.kind = "approve" /\ store.bound = 0
    BY <1>1 DEF IssueInv
  <2>2. SUFFICES ASSUME NEW h \in handlers, IssueAnswered(h) PROVE FALSE
    BY <2>1, OnlyAnswersBind
  <2>3. h = k
    BY <1>1, <2>1, <2>2 DEF IssueInv, IssueAnswered
  <2>4. Bind(h, Put(store, [Load(store) EXCEPT !.issue = h.number]), h.number)
    BY <2>2 DEF IssueAnswered
  <2>5. [h EXCEPT !.pc = "adding", !.number = h.number] # h
    BY <2>2, HandlerFacts DEF IssueInv, IssueAnswered, Handler
  <2>6. h \notin handlers'
    BY <2>4, <2>5 DEF Bind, Refuse, Continue, End
  <2> QED
    BY <2>3, <2>6
<1>2. CASE k \notin handlers
  <2>1. PICK h \in handlers : Progress(h) \/ PlanReports(h) \/ Failure(h)
    <3>1. ~Background
      BY <1>2, BackgroundLeaves
    <3>2. ~(NewThread \/ MessageArrives \/ Commands)
      BY <1>2, StartSteps DEF IssueInv
    <3> QED
      BY <3>1, <3>2 DEF Next, Background
  <2>2. PICK g : /\ handlers' = (handlers \ {h}) \union {g}
                 /\ g.kind = h.kind
                 /\ g.pc = "creating" => /\ h.kind = "approve" /\ h.pc = "deferred"
                                         /\ Load(store).issue = 0 /\ UNCHANGED store
                 /\ g.pc = "created" => IssueCreated(h)
    BY <1>2, <2>1, HandlerSteps DEF IssueInv
  <2>3. k = g
    BY <1>2, <2>2
  <2>4. CASE k.pc = "creating"
    <3>1. store.bound = 0
      <4>1. Begun(store) /\ store.bound # 0 => Load(store).issue # 0
        BY DEF IssueInv, BoundHasIssue
      <4>2. Begun(store)
        BY HandlerFacts DEF IssueInv
      <4> QED
        BY <2>2, <2>3, <2>4, <4>1, <4>2
    <3> QED
      BY <2>2, <2>3, <2>4, <3>1
  <2>5. CASE k.pc = "created"
    BY <2>2, <2>3, <2>5 DEF IssueInv, IssueCreated
  <2> QED
    BY <2>4, <2>5
<1> QED
  BY <1>1, <1>2

\* What the steps do to the set of the issues that were created.
LEMMA CreatedSteps ==
  ASSUME ThreadInv, Next
  PROVE  \/ Created(github') = Created(github)
         \/ \E h \in handlers, n \in Numbers :
              IssueCreated(h) /\ Created(github') = Created(github) \union {n}
<1>0. github \in Issues
  BY DEF ThreadInv, TypeOK, Issues
<1>1. /\ {"Drafted", "Approved", "Changes Requested"} \subseteq PlanState
      /\ {"Ready", "Backlog", "In Progress", "Human Review", "Rework", "Blocked"}
           \subseteq IssueStatus
  BY DEF PlanState, IssueStatus
<1>2. ASSUME NEW g \in Issues, NEW n \in Numbers, NEW plan \in PlanState, NEW state \in IssueStatus
      PROVE  /\ Created(SetPlan(g, n, plan)) = Created(g)
             /\ Created(SetState(g, n, state)) = Created(g)
             /\ SetPlan(g, n, plan) \in Issues
  BY FieldsAreSet DEF Created
<1>3. ASSUME NEW h \in handlers, PlanSynced(h) \/ PlanNotSynced(h) \/ RejectEnds(h) \/ ReviseEnds(h)
      PROVE  Created(github') = Created(github)
  <2>1. h.key \in Numbers
    BY <1>3, HandlerFacts DEF PlanSynced, PlanNotSynced, RejectEnds, ReviseEnds, Knows
  <2>2. /\ Created(SetPlan(github, h.key, "Drafted")) = Created(github)
        /\ Created(SetPlan(github, h.key, "Changes Requested")) = Created(github)
        /\ SetPlan(github, h.key, "Changes Requested") \in Issues
    BY <1>0, <1>1, <1>2, <2>1
  <2>3. Created(SetState(SetPlan(github, h.key, "Changes Requested"), h.key, "Backlog"))
          = Created(github)
    BY <1>1, <1>2, <2>1, <2>2
  <2> QED
    BY <1>3, <2>2, <2>3 DEF PlanSynced, PlanNotSynced, RejectEnds, ReviseEnds
<1>4. ASSUME NEW h \in handlers, IssueCreated(h)
      PROVE  \E n \in Numbers : Created(github') = Created(github) \union {n}
  <2>1. PICK n \in Numbers : github' = CreateIssue(github, n)
    BY <1>4 DEF IssueCreated, NextNumber
  <2>2. \A k \in Numbers : github'[k].created = (k = n \/ github[k].created)
    BY <1>0, <2>1, IssuesAreMade
  <2>3. \A k \in Numbers : github[k].created \in BOOLEAN
    BY <1>0 DEF Issues
  <2> QED
    BY <2>2, <2>3 DEF Created
<1>5. ASSUME NEW h \in handlers, AddedToProject(h) \/ PlanApproved(h) \/ MadeReady(h)
      PROVE  Created(github') = Created(github)
  <2>1. h.number \in Numbers
    BY <1>5, HandlerFacts DEF AddedToProject, PlanApproved, MadeReady, Knows
  <2>2. /\ Created(SetPlan(github, h.number, "Approved")) = Created(github)
        /\ Created(SetState(github, h.number, "Ready")) = Created(github)
    BY <1>0, <1>1, <1>2, <2>1
  <2>3. Created(AddToProject(github, h.number)) = Created(github)
    <3>1. \A k \in Numbers : AddToProject(github, h.number)[k].created = github[k].created
      BY <1>0, <2>1, IssuesAreMade
    <3> QED
      BY <3>1 DEF Created
  <2> QED
    BY <1>5, <2>2, <2>3 DEF AddedToProject, PlanApproved, MadeReady
<1>6. CASE MessageArrives \/ TickReconciles \/ Dispatch \/ RunEnds \/ Crash
  <2>1. CASE /\ store.bound \in Numbers
             /\ \E status \in IssueStatus : github' = SetState(github, store.bound, status)
    <3>1. PICK status \in IssueStatus : github' = SetState(github, store.bound, status)
      BY <2>1
    <3> QED
      BY <1>0, <1>1, <1>2, <2>1, <3>1
  <2> QED
    BY <1>6, <2>1, RunKeeps
<1>7. CASE NewThread \/ Commands \/ BoardSync
  BY <1>7 DEF NewThread, Commands, PlanCommand, ApproveCommand, RejectCommand, ReviseCommand,
     BoardSync
<1>8. ASSUME NEW h \in handlers,
             \/ MessageTaken(h) \/ AttachmentsRefused(h) \/ ReplySent(h)
             \/ PlanBegins(h) \/ PlanDrafted(h) \/ PlanBuilt(h) \/ ApproveBegins(h)
             \/ IssueAnswered(h) \/ ApproveEnds(h) \/ PlanReports(h) \/ ReplyLost(h)
             \/ PlanFails(h) \/ IssueNotAnswered(h) \/ PromotionFails(h)
      PROVE  UNCHANGED github
  BY <1>8 DEF MessageTaken, AttachmentsRefused, ReplySent, PlanBegins, PlanDrafted, PlanBuilt,
     ApproveBegins, IssueAnswered, ApproveEnds, PlanReports, ReplyLost, PlanFails,
     IssueNotAnswered, PromotionFails
<1>9. ASSUME NEW h \in handlers, Progress(h) \/ PlanReports(h) \/ Failure(h)
      PROVE  Created(github') = Created(github) \/ IssueCreated(h)
  BY <1>3, <1>5, <1>8, <1>9 DEF Progress, Failure
<1> QED
  BY <1>4, <1>6, <1>7, <1>9 DEF Next

CreationPending == \E h \in handlers : h.pc = "created"

\* What is counted, when one more is created or lost.
LEMMA CountFacts ==
  ASSUME ThreadInv
  PROVE  /\ IsFiniteSet(Created(github)) /\ Cardinality(Created(github)) \in Nat
         /\ lost \in Nat
<1>1. IsFiniteSet(Numbers)
  BY Bounds, FS_Interval DEF Numbers
<1>2. IsFiniteSet(Created(github))
  BY <1>1, FS_Subset DEF Created
<1> QED
  BY <1>2, FS_CardinalityType DEF ThreadInv, TypeOK

\* A creation that is pending stays so, is answered, or is lost.
LEMMA PendingSteps ==
  ASSUME IssueInv, Next, CreationPending
  PROVE  /\ CreationPending' \/ (\E h \in handlers : IssueAnswered(h)) \/ lost' >= lost + 1
         /\ ~\E h \in handlers : IssueCreated(h)
<1>1. PICK k \in handlers : k.pc = "created" /\ k.kind = "approve"
  BY DEF CreationPending, IssueInv
<1>2. ThreadInv
  BY DEF IssueInv
<1>3. ~\E h \in handlers : IssueCreated(h)
  BY <1>1 DEF IssueInv, IssueCreated
<1>4. CASE NewThread \/ MessageArrives \/ Commands
  BY <1>1, <1>2, <1>3, <1>4, StartSteps DEF CreationPending
<1>5. CASE Background /\ ~Crash
  BY <1>1, <1>3, <1>5, BackgroundLeaves DEF CreationPending
<1>6. CASE Crash
  <2> DEFINE P == {h \in handlers : h.pc = "created"}
  <2>1. IsFiniteSet(P) /\ P # {}
    BY <1>1, <1>2, FS_Subset DEF ThreadInv, TypeOK
  <2>2. Cardinality(P) \in Nat /\ Cardinality(P) # 0
    BY <2>1, FS_CardinalityType, FS_EmptySet
  <2>3. lost' = lost + Cardinality(P)
    BY <1>6 DEF Crash
  <2> HIDE DEF P
  <2> QED
    BY <1>2, <1>3, <2>2, <2>3, CountFacts
<1>7. ASSUME NEW h \in handlers, Progress(h) \/ PlanReports(h) \/ Failure(h)
      PROVE  CreationPending' \/ IssueAnswered(h) \/ lost' >= lost + 1
  <2>1. CASE h # k
    BY <1>1, <1>2, <1>7, <2>1, HandlerSteps DEF CreationPending
  <2>2. CASE h = k
    <3>1. IssueAnswered(h) \/ IssueNotAnswered(h)
      BY <1>1, <1>7, <2>2 DEF Progress, Failure, MessageTaken, AttachmentsRefused, ReplySent,
         PlanBegins, PlanDrafted, PlanBuilt, PlanSynced, ApproveBegins, IssueCreated,
         AddedToProject, PlanApproved, MadeReady, ApproveEnds, RejectEnds, ReviseEnds,
         PlanReports, ReplyLost, PlanFails, PlanNotSynced, PromotionFails
    <3> QED
      BY <1>1, <1>2, <2>2, <3>1, CountFacts DEF IssueNotAnswered
  <2> QED
    BY <2>1, <2>2
<1> QED
  BY <1>3, <1>4, <1>5, <1>6, <1>7 DEF Next, Background

\* What is lost stays lost.
LEMMA LostGrows ==
  ASSUME ThreadInv, Next
  PROVE  lost' \in Nat /\ lost' >= lost
<1>1. IsFiniteSet({h \in handlers : h.pc = "created"})
  BY FS_Subset DEF ThreadInv, TypeOK
<1>2. Cardinality({h \in handlers : h.pc = "created"}) \in Nat
  BY <1>1, FS_CardinalityType
<1>3. CASE Crash
  <2>1. lost' = lost + Cardinality({h \in handlers : h.pc = "created"})
    BY <1>3 DEF Crash
  <2> QED
    BY <1>2, <2>1, CountFacts
<1>4. ASSUME NEW h \in handlers, IssueNotAnswered(h) PROVE lost' \in Nat /\ lost' >= lost
  BY <1>4, CountFacts DEF IssueNotAnswered
<1>5. CASE UNCHANGED lost
  BY <1>5, CountFacts
<1> QED
  BY <1>3, <1>4, <1>5, HandlersLeave, OthersLeave DEF Next, Background

\* An issue is counted by its creation, its record or its loss.
LEMMA CountInvariance ==
  ASSUME IssueInv, Next
  PROVE  Cardinality(Created(github'))
           <= lost' + IsOne(store'.bound # 0) + IsOne(CreationPending')
<1>0. ThreadInv /\ Cardinality(Created(github))
                     <= lost + IsOne(store.bound # 0) + IsOne(CreationPending)
  BY DEF IssueInv, CreationPending
<1>1. lost' \in Nat /\ lost' >= lost /\ lost \in Nat
  BY <1>0, CountFacts, LostGrows
<1>2. store.bound # 0 => store'.bound # 0
  BY <1>0, BindingStays
<1>3. ASSUME NEW h \in handlers, IssueCreated(h)
      PROVE  CreationPending' /\ ~CreationPending /\ UNCHANGED <<lost, store>>
  <2>1. PICK n : handlers' = (handlers \ {h}) \union {[h EXCEPT !.pc = "created", !.number = n]}
    BY <1>3 DEF IssueCreated, Continue
  <2>2. [h EXCEPT !.pc = "created", !.number = n].pc = "created"
    BY <1>0, HandlerFacts DEF Handler
  <2> QED
    BY <1>3, <2>1, <2>2, PendingSteps DEF CreationPending, IssueCreated
<1>4. CASE \E h \in handlers, n \in Numbers :
             IssueCreated(h) /\ Created(github') = Created(github) \union {n}
  <2>1. PICK h \in handlers, n \in Numbers :
          IssueCreated(h) /\ Created(github') = Created(github) \union {n}
    BY <1>4
  <2>2. /\ Cardinality(Created(github)) \in Nat
        /\ Cardinality(Created(github')) \in {Cardinality(Created(github)),
                                              Cardinality(Created(github)) + 1}
    BY <1>0, <2>1, CountFacts, FS_AddElement
  <2>3. CreationPending' /\ ~CreationPending /\ UNCHANGED <<lost, store>>
    BY <1>3, <2>1
  <2> QED
    BY <1>0, <1>1, <2>2, <2>3 DEF IsOne
<1>5. CASE Created(github') = Created(github)
  <2>1. CASE CreationPending'
    BY <1>0, <1>1, <1>2, <1>5, <2>1, CountFacts DEF IsOne
  <2>2. CASE ~CreationPending
    BY <1>0, <1>1, <1>2, <1>5, <2>2, CountFacts DEF IsOne
  <2>3. CASE CreationPending /\ lost' >= lost + 1
    BY <1>0, <1>1, <1>2, <1>5, <2>3, CountFacts DEF IsOne
  <2>4. CASE CreationPending /\ \E h \in handlers : IssueAnswered(h)
    <3>1. store.bound = 0 /\ store'.bound # 0
      BY <2>4, AnswerBinds, Bounds DEF Numbers
    <3> QED
      BY <1>0, <1>1, <1>5, <3>1, CountFacts DEF IsOne
  <2> QED
    BY <2>1, <2>2, <2>3, <2>4, PendingSteps
<1> QED
  BY <1>0, <1>4, <1>5, CreatedSteps

\* The invariant of the issue is inductive.
LEMMA IssueInvariance ==
  OneApprovalAtATime => (IssueInv /\ [Next]_vars => IssueInv')
<1> SUFFICES ASSUME OneApprovalAtATime, IssueInv, [Next]_vars PROVE IssueInv'
  OBVIOUS
<1>1. CASE Next
  <2>1. ThreadInv'
    BY ThreadInvariance DEF IssueInv
  <2>2. CreationPending' = \E h \in handlers' : h.pc = "created"
    BY DEF CreationPending
  <2> QED
    BY <1>1, <2>1, <2>2, ApprovalsStayAlone, CreatingIsUnbound, IssueStaysNamed,
       CountInvariance DEF IssueInv
<1>2. CASE UNCHANGED vars
  <2>1. ThreadInv'
    BY ThreadInvariance DEF IssueInv
  <2> QED
    BY <1>2, <2>1 DEF IssueInv, vars, BoundHasIssue
<1> QED
  BY <1>1, <1>2

\* The invariant of the issue holds at the start.
LEMMA IssueInitially == Init => IssueInv
<1> SUFFICES ASSUME Init PROVE IssueInv
  OBVIOUS
<1>1. ThreadInv
  BY ThreadInitially
<1>2. Created(github) = {}
  BY DEF Init, Created
<1>3. Cardinality(Created(github)) = 0
  BY <1>2, FS_EmptySet
<1>4. lost = 0 /\ ~\E h \in handlers : h.pc = "created"
  BY DEF Init
<1>5. store.bound = 0 /\ store.draft.issue = 0 /\ handlers = {}
  BY DEF Init, NoEntity
<1>6. BoundHasIssue
  BY <1>5 DEF BoundHasIssue
<1>7. Cardinality(Created(github))
        <= lost + IsOne(store.bound # 0) + IsOne(\E h \in handlers : h.pc = "created")
  BY <1>3, <1>4, <1>5 DEF IsOne
<1> QED
  BY <1>1, <1>5, <1>6, <1>7 DEF IssueInv

\* Where the number of the thread's issue is written, and how many there are,
\* when approvals do not overlap.
THEOREM IssueInvariant == OneApprovalAtATime => (Spec => []IssueInv)
<1> SUFFICES ASSUME OneApprovalAtATime PROVE Spec => []IssueInv
  OBVIOUS
<1> QED
  BY IssueInitially, IssueInvariance, PTL DEF Spec

\* issue.json of a bound thread names the issue it is bound to.
THEOREM BoundHasIssueHolds == OneApprovalAtATime => (Spec => []BoundHasIssue)
<1>1. IssueInv => BoundHasIssue
  BY DEF IssueInv
<1> QED
  BY <1>1, IssueInvariant, PTL

\* A thread makes one issue, and one more for each that was never answered.
THEOREM OneIssuePerThreadHolds == OneApprovalAtATime => (Spec => []OneIssuePerThread)
<1>1. IssueInv => OneIssuePerThread
  <2> SUFFICES ASSUME IssueInv PROVE OneIssuePerThread
    OBVIOUS
  <2>1. store.bound # 0 => ~\E h \in handlers : h.pc = "created"
    BY DEF IssueInv
  <2>2. Cardinality(Created(github)) \in Nat /\ lost \in Nat
    BY CountFacts DEF IssueInv
  <2>3. IsOne(store.bound # 0) + IsOne(\E h \in handlers : h.pc = "created") <= 1
    BY <2>1 DEF IsOne
  <2> QED
    BY <2>2, <2>3 DEF IssueInv, OneIssuePerThread, Created, IsOne
<1> QED
  BY <1>1, IssueInvariant, PTL

-----------------------------------------------------------------------------
(* The plan that is approved.                                              *)

\* While a plan is approved it is not planned again.
PlanIsApprovedAlone == OneApprovalAtATime /\ {"approve", "plan"} \in Exclusive

IsApproved(plan) == plan = NoPlan \/ plan.id \in approved

\* The plan of an issue is set on its card only; no plan is approved that was
\* not before.
OnCards(g) == \A n \in Numbers : g[n].plan # "" => g[n].listed
NoneApproved(g, f) == \A n \in Numbers : f[n].plan = "Approved" => g[n].plan = "Approved"

PlanInv ==
  /\ IssueInv
  /\ \A h, k \in handlers : ~(h.kind = "approve" /\ k.kind = "plan")
  /\ \A h \in handlers : h.kind = "plan" /\ h.pc # "deferred" => h.key = store.bound
  /\ store.bound # 0 /\ store.draft.plan # NoPlan => Load(store).plan = store.draft.plan
  /\ OnCards(github)
  /\ (\E h \in handlers : h.kind = "approve") => IsApproved(Load(store).plan)
  /\ store.bound # 0 /\ github[store.bound].plan = "Approved" => IsApproved(Load(store).plan)
  /\ GateSawApproved

\* update_issue_plan, of an issue with a card or without.
LEMMA PlanIsSet ==
  ASSUME NEW g \in Issues, NEW f \in Issues, NEW n \in Numbers, NEW plan \in PlanState,
         OnCards(f), NoneApproved(g, f) \/ plan = "Approved"
  PROVE  /\ SetPlan(f, n, plan) \in Issues
         /\ OnCards(SetPlan(f, n, plan))
         /\ plan # "Approved" => NoneApproved(g, SetPlan(f, n, plan))
<1>1. "Ready" \in IssueStatus
  BY DEF IssueStatus
<1>2. PICK p : p = SetPlan(f, n, plan)
  OBVIOUS
<1>3. /\ p \in Issues
      /\ \A k \in Numbers : p[k].listed = f[k].listed
      /\ \A k \in Numbers : p[k].plan = (IF k = n /\ f[n].listed THEN plan ELSE f[k].plan)
  BY <1>1, <1>2, FieldsAreSet
<1> QED
  BY <1>2, <1>3 DEF OnCards, NoneApproved

\* update_issue_state leaves the plans.
LEMMA StateIsSet ==
  ASSUME NEW g \in Issues, NEW f \in Issues, NEW n \in Numbers, NEW state \in IssueStatus,
         OnCards(f), NoneApproved(g, f)
  PROVE  OnCards(SetState(f, n, state)) /\ NoneApproved(g, SetState(f, n, state))
<1>1. \A k \in Numbers : /\ SetState(f, n, state)[k].listed = f[k].listed
                         /\ SetState(f, n, state)[k].plan = f[k].plan
  BY DEF Issues, SetState, SetField, HasCard
<1> QED
  BY <1>1 DEF OnCards, NoneApproved

\* A new issue and a new card have no plan.
LEMMA CardIsMade ==
  ASSUME NEW g \in Issues, NEW n \in Numbers, OnCards(g)
  PROVE  /\ OnCards(CreateIssue(g, n)) /\ NoneApproved(g, CreateIssue(g, n))
         /\ OnCards(AddToProject(g, n)) /\ NoneApproved(g, AddToProject(g, n))
<1>1. \A k \in Numbers : /\ CreateIssue(g, n)[k].listed = g[k].listed
                         /\ CreateIssue(g, n)[k].plan = g[k].plan
  BY DEF Issues, CreateIssue
<1>2. \A k \in Numbers : /\ g[k].listed => AddToProject(g, n)[k].listed
                         /\ AddToProject(g, n)[k].plan = g[k].plan
  BY DEF Issues, AddToProject
<1> QED
  BY <1>1, <1>2 DEF OnCards, NoneApproved

\* A step of the thread approves a plan on GitHub while an approval is under way.
LEMMA PlanFieldChanges ==
  ASSUME ThreadInv, OnCards(github), Next
  PROVE  /\ OnCards(github')
         /\ NoneApproved(github, github') \/ \E h \in handlers : h.kind = "approve"
<1> DEFINE Fine == /\ OnCards(github')
                   /\ NoneApproved(github, github') \/ \E h \in handlers : h.kind = "approve"
<1>1. github \in Issues /\ NoneApproved(github, github)
  BY DEF ThreadInv, TypeOK, Issues, NoneApproved
<1>2. /\ {"Drafted", "Approved", "Changes Requested"} \subseteq PlanState
      /\ {"Ready", "Backlog", "In Progress", "Human Review", "Rework", "Blocked"}
           \subseteq IssueStatus
  BY DEF PlanState, IssueStatus
<1>3. ASSUME UNCHANGED github PROVE Fine
  BY <1>1, <1>3
<1>4. ASSUME NEW h \in handlers, PlanSynced(h) \/ PlanNotSynced(h) \/ RejectEnds(h) \/ ReviseEnds(h)
      PROVE  Fine
  <2>1. h.key \in Numbers
    BY <1>4, HandlerFacts DEF PlanSynced, PlanNotSynced, RejectEnds, ReviseEnds, Knows
  <2>2. ASSUME NEW plan \in {"Drafted", "Changes Requested"}, github' = SetPlan(github, h.key, plan)
        PROVE  Fine
    <3>1. plan \in PlanState /\ plan # "Approved"
      BY <1>2, <2>2
    <3> QED
      BY <1>1, <2>1, <2>2, <3>1, PlanIsSet
  <2>3. ASSUME github' = SetState(SetPlan(github, h.key, "Changes Requested"), h.key, "Backlog")
        PROVE  Fine
    <3>1. PICK f : f = SetPlan(github, h.key, "Changes Requested")
      OBVIOUS
    <3>2. f \in Issues /\ OnCards(f) /\ NoneApproved(github, f)
      BY <1>1, <1>2, <2>1, <3>1, PlanIsSet
    <3> QED
      BY <1>1, <1>2, <2>1, <2>3, <3>1, <3>2, StateIsSet
  <2>4. \/ UNCHANGED github
        \/ \E plan \in {"Drafted", "Changes Requested"} : github' = SetPlan(github, h.key, plan)
        \/ github' = SetState(SetPlan(github, h.key, "Changes Requested"), h.key, "Backlog")
    BY <1>4 DEF PlanSynced, PlanNotSynced, RejectEnds, ReviseEnds
  <2> HIDE DEF Fine
  <2> QED
    BY <1>3, <2>2, <2>3, <2>4
<1>5. ASSUME NEW h \in handlers, IssueCreated(h)
      PROVE  Fine
  <2>1. PICK n \in Numbers : github' = CreateIssue(github, n)
    BY <1>5 DEF IssueCreated, NextNumber
  <2> QED
    BY <1>1, <2>1, CardIsMade
<1>6. ASSUME NEW h \in handlers, AddedToProject(h) \/ PlanApproved(h) \/ MadeReady(h)
      PROVE  Fine
  <2>1. h.number \in Numbers /\ h.kind = "approve"
    BY <1>6, HandlerFacts DEF AddedToProject, PlanApproved, MadeReady, Knows
  <2>2. OnCards(AddToProject(github, h.number))
    BY <1>1, <2>1, CardIsMade
  <2>3. OnCards(SetPlan(github, h.number, "Approved"))
    BY <1>1, <1>2, <2>1, PlanIsSet
  <2>4. OnCards(SetState(github, h.number, "Ready"))
    BY <1>1, <1>2, <2>1, StateIsSet
  <2> QED
    BY <1>6, <2>1, <2>2, <2>3, <2>4 DEF AddedToProject, PlanApproved, MadeReady
<1>7. ASSUME MessageArrives \/ TickReconciles \/ Dispatch \/ RunEnds \/ Crash PROVE Fine
  <2>1. CASE /\ store.bound \in Numbers
             /\ \E status \in IssueStatus : github' = SetState(github, store.bound, status)
    BY <1>1, <2>1, StateIsSet
  <2> HIDE DEF Fine
  <2> QED
    BY <1>3, <1>7, <2>1, RunKeeps
<1>8. ASSUME NewThread \/ Commands \/ BoardSync
      PROVE  Fine
  <2>1. UNCHANGED github
    BY <1>8 DEF NewThread, Commands, PlanCommand, ApproveCommand, RejectCommand,
       ReviseCommand, BoardSync
  <2> QED
    BY <1>3, <2>1
<1>9. ASSUME NEW h \in handlers,
             \/ MessageTaken(h) \/ AttachmentsRefused(h) \/ ReplySent(h)
             \/ PlanBegins(h) \/ PlanDrafted(h) \/ PlanBuilt(h) \/ ApproveBegins(h)
             \/ IssueAnswered(h) \/ ApproveEnds(h) \/ PlanReports(h) \/ ReplyLost(h)
             \/ PlanFails(h) \/ IssueNotAnswered(h) \/ PromotionFails(h)
      PROVE  Fine
  <2>1. UNCHANGED github
    BY <1>9 DEF MessageTaken, AttachmentsRefused, ReplySent, PlanBegins, PlanDrafted, PlanBuilt,
       ApproveBegins, IssueAnswered, ApproveEnds, PlanReports, ReplyLost, PlanFails,
       IssueNotAnswered, PromotionFails
  <2> QED
    BY <1>3, <2>1
<1> HIDE DEF Fine
<1>10. Fine
  <2>1. ASSUME NEW h \in handlers, Progress(h) \/ PlanReports(h) \/ Failure(h)
        PROVE  Fine
    BY <1>4, <1>5, <1>6, <1>9, <2>1 DEF Progress, Failure
  <2> QED
    BY <1>7, <1>8, <2>1 DEF Next
<1> QED
  BY <1>10 DEF Fine

\* A new plan is told to the Project before it is kept.
LEMMA PlanFieldSteps ==
  ASSUME PlanInv, Next
  PROVE  /\ OnCards(github')
         /\ store.bound # 0 /\ github'[store.bound].plan = "Approved" =>
              \/ github[store.bound].plan = "Approved"
              \/ \E h \in handlers : h.kind = "approve"
         /\ \A h \in handlers : PlanSynced(h) /\ store.bound # 0 =>
              github'[store.bound].plan # "Approved"
<1>0. ThreadInv /\ github \in Issues /\ OnCards(github)
  BY DEF PlanInv, IssueInv, ThreadInv, TypeOK, Issues
<1>1. store.bound # 0 => store.bound \in Numbers
  BY <1>0, ManagedIsBegun
<1>2. ASSUME NEW h \in handlers, PlanSynced(h), store.bound # 0
      PROVE  github'[store.bound].plan # "Approved"
  <2>1. h.key = store.bound
    BY <1>0, <1>2, HandlerFacts DEF PlanSynced, Knows
  <2>2. "Drafted" \in PlanState /\ "Ready" \in IssueStatus
    BY DEF PlanState, IssueStatus
  <2>3. github' = SetPlan(github, store.bound, "Drafted")
    BY <1>2, <2>1 DEF PlanSynced
  <2>4. github'[store.bound].plan = (IF github[store.bound].listed THEN "Drafted"
                                     ELSE github[store.bound].plan)
    BY <1>0, <1>1, <1>2, <2>2, <2>3, FieldsAreSet
  <2> QED
    BY <1>0, <1>1, <1>2, <2>4 DEF OnCards
<1> QED
  BY <1>0, <1>1, <1>2, PlanFieldChanges DEF NoneApproved

\* What was approved once stays so.
LEMMA ApprovedGrows ==
  ASSUME Next
  PROVE  approved \subseteq approved'
BY HandlersLeave, OthersLeave DEF Next, Background, ApproveCommand

\* The approval and the planning exclude each other.
LEMMA PlanningStaysApart ==
  ASSUME PlanInv, Next, PlanIsApprovedAlone
  PROVE  \A h, k \in handlers' : ~(h.kind = "approve" /\ k.kind = "plan")
<1>0. ThreadInv /\ \A h, k \in handlers : ~(h.kind = "approve" /\ k.kind = "plan")
  BY DEF PlanInv, IssueInv
<1>1. CASE NewThread \/ MessageArrives \/ Commands
  <2>1. ASSUME ApproveCommand, NEW k \in handlers PROVE k.kind # "plan"
    BY <2>1 DEF ApproveCommand, Command, MayStart, PlanIsApprovedAlone
  <2>2. ASSUME PlanCommand, NEW k \in handlers PROVE k.kind # "approve"
    <3>1. {"plan", "approve"} = {"approve", "plan"}
      OBVIOUS
    <3> QED
      BY <2>2, <3>1 DEF PlanCommand, Command, MayStart, PlanIsApprovedAlone
  <2> QED
    BY <1>0, <1>1, <2>1, <2>2, StartSteps
<1>2. ASSUME NEW h \in handlers, Progress(h) \/ PlanReports(h) \/ Failure(h)
      PROVE  \A g, k \in handlers' : ~(g.kind = "approve" /\ k.kind = "plan")
  BY <1>0, <1>2, HandlerSteps
<1>3. CASE Background
  BY <1>0, <1>3, BackgroundLeaves
<1> QED
  BY <1>1, <1>2, <1>3 DEF Next, Background

\* A planning handler knows the thread as it is.
LEMMA PlannersStayCurrent ==
  ASSUME PlanInv, Next, NEW k \in handlers', k.kind = "plan", k.pc # "deferred"
  PROVE  k.key = store'.bound
<1>0. ThreadInv
  BY DEF PlanInv, IssueInv
<1>1. CASE k \in handlers
  <2>1. k.key = store.bound /\ ~\E h \in handlers : h.kind = "approve"
    BY <1>1 DEF PlanInv
  <2>2. store'.bound = store.bound
    BY <2>1, OnlyAnswersBind DEF PlanInv, IssueAnswered
  <2> QED
    BY <2>1, <2>2
<1>2. CASE k \notin handlers
  <2>1. ~Background
    BY <1>2, BackgroundLeaves
  <2>2. ~(NewThread \/ MessageArrives \/ Commands)
    <3> SUFFICES ASSUME NewThread \/ MessageArrives \/ Commands PROVE FALSE
      OBVIOUS
    <3>1. PlanCommand
      BY <1>0, <1>2, StartSteps
    <3>2. FreeIds # {}
      BY <3>1 DEF PlanCommand, Command, MayStart
    <3>3. PICK n : n = NewHandler("plan", "deferred")
      OBVIOUS
    <3>4. n \in Handler /\ n.pc = "deferred"
      BY <1>0, <3>2, <3>3, NewHandlerIsNew DEF Kinds
    <3>5. PICK g : g = [n EXCEPT !.of = Load(store).summary, !.number = left.commands]
      OBVIOUS
    <3>6. g.pc = "deferred"
      BY <3>4, <3>5 DEF Handler
    <3> QED
      BY <1>2, <3>1, <3>3, <3>5, <3>6 DEF PlanCommand, Start
  <2>3. PICK h \in handlers : Progress(h) \/ PlanReports(h) \/ Failure(h)
    BY <2>1, <2>2 DEF Next, Background
  <2>4. PICK g : handlers' = (handlers \ {h}) \union {g} /\ g.kind = h.kind
    BY <1>0, <1>2, <2>3, HandlerSteps
  <2>5. h.kind = "plan" /\ k = g
    BY <1>2, <2>4
  <2>6. PlanBegins(h) \/ PlanBuilt(h)
    BY <1>2, <2>3, <2>5 DEF Progress, Failure, MessageTaken, AttachmentsRefused, ReplySent,
       PlanDrafted, PlanSynced, ApproveBegins, IssueCreated, IssueAnswered, AddedToProject,
       PlanApproved, MadeReady, ApproveEnds, RejectEnds, ReviseEnds, PlanReports, ReplyLost,
       PlanFails, PlanNotSynced, IssueNotAnswered, PromotionFails, End
  <2>7. store'.bound = store.bound
    BY <1>0, <2>6, PlanBeginsKeeps DEF PlanBuilt, Keeps
  <2>8. h \in Handler
    BY <1>0, HandlerFacts
  <2>9. CASE PlanBegins(h)
    <3>1. k = [h EXCEPT !.pc = "planning", !.key = store.bound]
      BY <1>2, <2>9 DEF PlanBegins, Continue
    <3> QED
      BY <2>7, <2>8, <3>1 DEF Handler
  <2>10. CASE PlanBuilt(h)
    <3>1. k = [h EXCEPT !.pc = "syncing"]
      BY <1>2, <2>10 DEF PlanBuilt, Continue
    <3>2. h.key = store.bound
      BY <2>10 DEF PlanInv, PlanBuilt
    <3> QED
      BY <2>7, <2>8, <3>1, <3>2 DEF Handler
  <2> QED
    BY <2>6, <2>9, <2>10
<1> QED
  BY <1>1, <1>2

\* The plan the thread means is replaced by a planning handler alone.
LEMMA PlanStays ==
  ASSUME PlanInv, Next
  PROVE  /\ store'.bound # 0 /\ store'.draft.plan # NoPlan => Load(store').plan = store'.draft.plan
         /\ \/ NewThread /\ handlers = {}
            \/ Load(store').plan \in {Load(store).plan, NoPlan}
            \/ \E h \in handlers : PlanDrafted(h) \/ PlanSynced(h)
<1>0. ThreadInv /\ IssueInv
      /\ (store.bound # 0 /\ store.draft.plan # NoPlan => Load(store).plan = store.draft.plan)
  BY DEF PlanInv, IssueInv
<1>1. CASE NewThread
  <2>1. handlers = {}
    BY <1>0, <1>1, EntityFacts DEF ThreadInv, ThreadIsBegun, Begun, NewThread, Managed
  <2> QED
    BY <1>0, <1>1, <2>1, NewThreadBegins
<1>2. ASSUME NEW h \in handlers, Load(store).issue \in Numbers, Bind(h, store, Load(store).issue)
      PROVE  /\ Load(store').plan = Load(store).plan
             /\ store'.draft.plan # NoPlan => Load(store').plan = store'.draft.plan
  BY <1>0, <1>2, RepeatBinds
<1>3. ASSUME NEW h \in handlers, IssueAnswered(h)
      PROVE  /\ Load(store').plan = Load(store).plan
             /\ Load(store').plan = store'.draft.plan
  BY <1>0, <1>3, AnswerBinds DEF Load
<1>4. CASE Keeps(store, store')
  BY <1>0, <1>4 DEF Keeps
<1>5. CASE /\ Replaces(store, store')
           /\ \E h \in handlers : PlanDrafted(h) \/ PlanSynced(h)
  BY <1>5 DEF Replaces
<1>6. CASE UNCHANGED store
  BY <1>0, <1>6
<1> QED
  BY <1>0, <1>1, <1>2, <1>3, <1>4, <1>5, <1>6, StoreSteps

\* What is being approved, or is approved on the Project, was approved in the thread.
LEMMA ApprovalStaysApproved ==
  ASSUME PlanInv, Next
  PROVE  /\ (\E h \in handlers' : h.kind = "approve") => IsApproved(Load(store).plan)'
         /\ store'.bound # 0 /\ github'[store'.bound].plan = "Approved"
              => IsApproved(Load(store).plan)'
<1>0. ThreadInv /\ IssueInv
  BY DEF PlanInv, IssueInv
<1>1. ASSUME Load(store').plan \in {Load(store).plan, NoPlan}, IsApproved(Load(store).plan)
      PROVE  IsApproved(Load(store).plan)'
  BY <1>1, ApprovedGrows DEF IsApproved
<1>2. ASSUME NEW h \in handlers, PlanDrafted(h) \/ PlanSynced(h)
      PROVE  /\ h.kind = "plan" /\ ~\E k \in handlers : k.kind = "approve"
             /\ store'.bound = store.bound
             /\ store.bound # 0 => PlanSynced(h)
             /\ Progress(h)
  <2>1. h.kind = "plan" /\ ~\E k \in handlers : k.kind = "approve"
    BY <1>2 DEF PlanDrafted, PlanSynced, PlanInv
  <2>2. store'.bound = store.bound
    BY <1>0, <1>2, PlanDraftedReplaces, PlanSyncedReplaces DEF Replaces
  <2>3. PlanDrafted(h) => store.bound = 0
    BY DEF PlanInv, PlanDrafted
  <2> QED
    BY <1>2, <2>1, <2>2, <2>3 DEF Progress
<1>3. ASSUME NEW k \in handlers', k.kind = "approve"
      PROVE  IsApproved(Load(store).plan)'
  <2>1. CASE ApproveCommand
    <3>1. store' = store /\ Load(store).plan.id \in approved'
      BY <2>1 DEF ApproveCommand
    <3> QED
      BY <3>1 DEF IsApproved
  <2>2. CASE \E h \in handlers : h.kind = "approve"
    BY <1>1, <1>2, <2>2, PlanStays DEF PlanInv
  <2>3. ApproveCommand \/ \E h \in handlers : h.kind = "approve"
    <3>1. CASE NewThread \/ MessageArrives \/ Commands
      BY <1>0, <1>3, <3>1, StartSteps
    <3>2. ASSUME NEW h \in handlers, Progress(h) \/ PlanReports(h) \/ Failure(h)
          PROVE  \E g \in handlers : g.kind = "approve"
      BY <1>0, <1>3, <3>2, HandlerSteps
    <3>3. CASE Background
      BY <1>3, <3>3, BackgroundLeaves
    <3> QED
      BY <3>1, <3>2, <3>3 DEF Next, Background
  <2> QED
    BY <2>1, <2>2, <2>3
<1>4. ASSUME store'.bound # 0, github'[store'.bound].plan = "Approved"
      PROVE  IsApproved(Load(store).plan)'
  <2>1. CASE \E h \in handlers : h.kind = "approve"
    BY <1>1, <1>2, <2>1, PlanStays DEF PlanInv
  <2>2. CASE ~\E h \in handlers : h.kind = "approve"
    <3>1. store'.bound = store.bound
      BY <1>0, <2>2, OnlyAnswersBind DEF IssueAnswered
    <3>2. github[store.bound].plan = "Approved" /\ IsApproved(Load(store).plan)
      BY <1>4, <2>2, <3>1, PlanFieldSteps DEF PlanInv
    <3>3. ~\E h \in handlers : PlanDrafted(h) \/ PlanSynced(h)
      BY <1>2, <1>4, <3>1, PlanFieldSteps
    <3>4. ~NewThread
      BY <1>0, <1>4, NewThreadBegins
    <3> QED
      BY <1>1, <3>2, <3>3, <3>4, PlanStays
  <2> QED
    BY <2>1, <2>2
<1> QED
  BY <1>3, <1>4

\* The gate lets an issue through on a plan the Project calls approved.
LEMMA GateStaysApproved ==
  ASSUME PlanInv, Next
  PROVE  GateSawApproved'
<1>0. ThreadInv /\ run \in Run /\ project' = project /\ approved \subseteq approved'
  BY ApprovedGrows, RestInvariance DEF PlanInv, IssueInv, ThreadInv, TypeOK
<1>1. ASSUME run'.gate = run.gate,
             run'.pc \in {"gated", "queued", "running"} => run.pc \in {"gated", "queued", "running"}
      PROVE  GateSawApproved'
  BY <1>0, <1>1 DEF PlanInv, GateSawApproved
<1>2. ASSUME run'.pc \in {"none", "gate"} PROVE GateSawApproved'
  BY <1>2 DEF GateSawApproved
<1>3. NoRun.pc = "none" /\ NotRun.pc = "none"
  BY DEF NoRun, NotRun
<1>4. CASE UNCHANGED run
  BY <1>1, <1>4
<1>5. CASE Reconcile \/ RunLoads
  BY <1>0, <1>1, <1>5 DEF Reconcile, RunLoads, Run
<1>6. CASE DispatchBegins \/ RunEnds
  BY <1>0, <1>2, <1>3, <1>6 DEF DispatchBegins, RunEnds, Run
<1>7. CASE GateReads
  <2>1. CASE run' = NotRun
    BY <1>2, <1>3, <2>1
  <2>2. CASE /\ Passes(Gate(github, store.bound))
             /\ run' = [NotRun EXCEPT !.pc = "gated", !.gate = Load(store).plan.id]
    <3>1. Gate(github, store.bound).plan = "Approved"
      BY <2>2 DEF Passes
    <3>2. github[store.bound].plan = "Approved"
      BY <3>1 DEF Gate
    <3>3. store.bound # 0
      BY <1>0, <1>7 DEF GateReads, ThreadInv
    <3>4. IsApproved(Load(store).plan)
      BY <3>2, <3>3 DEF PlanInv
    <3>5. run'.gate = Load(store).plan.id
      BY <2>2 DEF NotRun, NoRun
    <3> QED
      BY <1>0, <3>4, <3>5 DEF IsApproved, NoPlan, GateSawApproved
  <2> QED
    BY <1>7, <2>1, <2>2 DEF GateReads
<1>8. CASE Enqueued
  <2>1. CASE run' = NotRun
    BY <1>2, <1>3, <2>1
  <2>2. CASE run' = Queue(run.gate)
    <3>1. run'.gate = run.gate /\ run.pc = "gated"
      BY <1>8, <2>2 DEF Enqueued, Queue, NoRun
    <3> QED
      BY <1>1, <3>1
  <2> QED
    BY <1>8, <2>1, <2>2 DEF Enqueued
<1>9. CASE Crash
  <2>1. CASE project
    <3>1. run'.pc \in {"none", "gate"}
      BY <1>3, <1>9, <2>1 DEF Crash, NotRun, NoRun
    <3> QED
      BY <1>2, <3>1
  <2>2. CASE ~project
    BY <1>0, <2>2 DEF GateSawApproved
  <2> QED
    BY <2>1, <2>2
<1>10. ASSUME NEW h \in handlers, ApproveEnds(h) PROVE GateSawApproved'
  BY <1>0, <1>4, <1>10 DEF ApproveEnds, GateSawApproved
<1> QED
  BY <1>4, <1>5, <1>6, <1>7, <1>8, <1>9, <1>10, RunSteps DEF Dispatch

\* The invariant of the plan is inductive.
LEMMA PlanInvariance ==
  PlanIsApprovedAlone => (PlanInv /\ [Next]_vars => PlanInv')
<1> SUFFICES ASSUME PlanIsApprovedAlone, PlanInv, [Next]_vars PROVE PlanInv'
  OBVIOUS
<1>1. IssueInv'
  BY IssueInvariance DEF PlanInv, PlanIsApprovedAlone
<1>2. CASE Next
  BY <1>1, <1>2, PlanFieldSteps, PlanningStaysApart, PlannersStayCurrent, PlanStays,
     ApprovalStaysApproved, GateStaysApproved DEF PlanInv
<1>3. CASE UNCHANGED vars
  BY <1>1, <1>3 DEF PlanInv, vars, GateSawApproved, IsApproved
<1> QED
  BY <1>2, <1>3

\* The invariant of the plan holds at the start.
LEMMA PlanInitially == Init => PlanInv
<1> SUFFICES ASSUME Init PROVE PlanInv
  OBVIOUS
<1>1. IssueInv
  BY IssueInitially
<1>2. \A n \in Numbers : github[n].plan = ""
  BY DEF Init
<1> QED
  BY <1>1, <1>2 DEF Init, NoRun, PlanInv, GateSawApproved, OnCards

\* A plan that the Project calls approved, or that is being approved, stood in
\* the thread when the user approved; approvals and plannings do not overlap.
THEOREM PlanInvariant == PlanIsApprovedAlone => (Spec => []PlanInv)
<1> SUFFICES ASSUME PlanIsApprovedAlone PROVE Spec => []PlanInv
  OBVIOUS
<1> QED
  BY PlanInitially, PlanInvariance, PTL DEF Spec

\* What stands in a thread when GitHub lets its issue through was approved there.
THEOREM GateSawApprovedHolds == PlanIsApprovedAlone => (Spec => []GateSawApproved)
<1>1. PlanInv => GateSawApproved
  BY DEF PlanInv
<1> QED
  BY <1>1, PlanInvariant, PTL

=============================================================================
