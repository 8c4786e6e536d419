------------------------- MODULE IssueRuntimeProofs -------------------------
(***************************************************************************)
(* For every set of issues, every number of moves and faults and, where no *)
(* hypothesis says otherwise, every kind and number of interruptions: the  *)
(* variables have their types (TypeCorrect), a card that is Done stays so  *)
(* (DoneIsFinalHolds), and no process that a crash has left behind lives   *)
(* beside one of a later run (OneAgentHolds).                              *)
(*                                                                         *)
(* IInv is the invariant of the first two: what runs (RunsExact), what a   *)
(* card may say while it does (BoardInv), and what the copies still tell   *)
(* that the scheduler (TickInv) and the restart (BootInv) work on.  Both   *)
(* rely on the same few things whatever else happens to an issue: those    *)
(* are Calm, which the steps of runs and people are shown to be.  StrayInv *)
(* adds, for the third, that the card of an issue with a stray process     *)
(* keeps scheduler and restart away from it, until an /abort is given.     *)
(***************************************************************************)
EXTENDS IssueRuntime, TLAPS

RunType ==
  /\ phase \in [Issues -> {"idle", "accepted", "active"}]
  /\ step \in [Issues -> Step]
  /\ verdict \in [Issues -> State]

\* /abort counts no candidate twice.
ProcessType ==
  /\ agents \in [Issues -> 0..Candidates]
  /\ killed \in [Issues -> 0..Candidates]
  /\ strays \in [Issues -> Nat]
  /\ detached \in [Issues -> Nat]
  /\ \A i \in Issues : agents[i] + killed[i] <= Candidates

CardType ==
  /\ local \in [Issues -> State]
  /\ runtime \in [Issues -> {"", "queued", "running"}]
  /\ board \in [Issues -> State]
  /\ plan \in [Issues -> {"Approved", "Drafted"}]
  /\ pr \in [Issues -> {"none", "open", "merged"}]

TickType ==
  tick \in [pc : TickPc, view : [Issues -> State], metas : [Issues -> State],
            todo : SUBSET Issues, at : Issues, ok : BOOLEAN]

BootType ==
  boot \in [pc : BootPc, metas : [Issues -> State], todo : SUBSET Issues,
            at : Issues, items : SUBSET Issues]

AbortType == abort \in [Issues -> {"none", "killed", "reporting"}]

LeftType ==
  left \in [moves : 0..MaxMoves, faults : 0..MaxFaults,
            interruptions : 0..MaxInterruptions]

TypeInv ==
  RunType /\ ProcessType /\ CardType /\ TickType /\ BootType /\ AbortType /\ LeftType

\* The invariant is the type invariant and the bound of the candidates.
LEMMA TypeInvIsTypeOK == TypeInv => TypeOK
  BY DEF TypeInv, TypeOK, RunType, ProcessType, CardType, TickType, BootType, AbortType, LeftType

\* What is spent stays within the bounds.
LEMMA SpentLeft ==
  ASSUME LeftType, NEW w \in {"moves", "faults", "interruptions"}, Spend(w)
  PROVE  LeftType'
<1> DEFINE n == left[w] - 1
<1>1. MaxMoves \in Nat /\ MaxFaults \in Nat /\ MaxInterruptions \in Nat
  BY IssueRuntimeAssumption
<1>2. left[w] > 0 /\ left' = [left EXCEPT ![w] = n]
  BY DEF Spend
<1>3. CASE w = "moves"
  <2>1. left.moves \in 0..MaxMoves /\ left.moves > 0
    BY <1>2, <1>3 DEF LeftType
  <2>2. left.moves - 1 \in 0..MaxMoves
    BY <2>1, <1>1
  <2> QED
    BY <1>2, <1>3, <2>2 DEF LeftType
<1>4. CASE w = "faults"
  <2>1. left.faults \in 0..MaxFaults /\ left.faults > 0
    BY <1>2, <1>4 DEF LeftType
  <2>2. left.faults - 1 \in 0..MaxFaults
    BY <2>1, <1>1
  <2> QED
    BY <1>2, <1>4, <2>2 DEF LeftType
<1>5. CASE w = "interruptions"
  <2>1. left.interruptions \in 0..MaxInterruptions /\ left.interruptions > 0
    BY <1>2, <1>5 DEF LeftType
  <2>2. left.interruptions - 1 \in 0..MaxInterruptions
    BY <2>1, <1>1
  <2> QED
    BY <1>2, <1>5, <2>2 DEF LeftType
<1> QED
  BY <1>3, <1>4, <1>5

\* A write of the board that may fail.
LEMMA BestEffortTypes ==
  ASSUME CardType, LeftType, NEW i \in Issues, NEW s \in State, BestEffort(i, s)
  PROVE  board' \in [Issues -> State] /\ LeftType'
<1>1. CASE board' = [board EXCEPT ![i] = s] /\ UNCHANGED left
  BY <1>1 DEF CardType, LeftType
<1>2. CASE Spend("faults") /\ UNCHANGED board
  BY <1>2, SpentLeft DEF CardType
<1> QED
  BY <1>1, <1>2 DEF BestEffort

\* A write of meta.json.
LEMMA SetMetaTypes ==
  ASSUME CardType, NEW i \in Issues, NEW s \in State, NEW r \in {"", "queued", "running"},
         SetMeta(i, s, r)
  PROVE  local' \in [Issues -> State] /\ runtime' \in [Issues -> {"", "queued", "running"}]
  BY DEF CardType, SetMeta

\* What _reconcile_runtime_state may write.
LEMMA ReconcileTypes ==
  ASSUME CardType, LeftType, NEW i \in Issues, Reconcile(i), UNCHANGED <<plan, pr>>
  PROVE  CardType' /\ LeftType'
<1>1. "Rework" \in State
  BY DEF State
<1>2. CASE UNCHANGED <<meta, board, left>>
  BY <1>2 DEF CardType, LeftType, meta
<1>3. CASE /\ runtime' = [runtime EXCEPT ![i] = "running"] \/ runtime' = runtime
           /\ UNCHANGED <<local, board, left>>
  BY <1>3 DEF CardType, LeftType
<1>4. CASE SetMeta(i, "Rework", "") /\ BestEffort(i, "Rework")
  BY <1>1, <1>4, SetMetaTypes, BestEffortTypes DEF CardType
<1> QED
  BY <1>2, <1>3, <1>4 DEF Reconcile, ReconcileIf

\* What enqueue() and restore() write.
LEMMA EnqueueTypes ==
  ASSUME RunType, CardType, NEW is, EnqueueAll(is),
         UNCHANGED <<step, verdict, local, board, plan, pr>>
  PROVE  RunType' /\ CardType'
  BY DEF RunType, CardType, EnqueueAll

-----------------------------------------------------------------------------
\* A step of a run keeps the types.
LEMMA RunTypes ==
  ASSUME TypeInv, NEW i \in Issues,
         RunBegins(i) \/ RunAdvances(i) \/ RunDecides(i) \/ RunRaises(i)
  PROVE  TypeInv'
<1> USE DEF TypeInv
<1>1. CASE RunBegins(i)
  <2>1. UNCHANGED <<tick, boot, abort, left>>
    BY <1>1 DEF RunBegins
  <2>2. CardType'
    BY <1>1 DEF RunBegins, CardType, project
  <2>3. RunType'
    BY <1>1 DEF RunBegins, RunType, Service!Activate, Step
  <2>4. killed' = [killed EXCEPT ![i] = 0] /\ UNCHANGED <<agents, strays, detached>>
    BY <1>1 DEF RunBegins
  <2>5. ProcessType'
    BY <2>4, IssueRuntimeAssumption DEF ProcessType
  <2> QED
    BY <2>1, <2>2, <2>3, <2>5 DEF TickType, BootType, AbortType, LeftType
<1>2. CASE RunAdvances(i) \/ RunPublishes(i)
  <2>1. UNCHANGED <<processes, tick, boot, abort, left>>
    BY <1>2 DEF RunAdvances, RunAnnounces, RunAnnounced, RunCompletes, RunReports, RunEnds,
                RunPublishes
  <2>2. RunType'
    BY <1>2 DEF RunAdvances, RunAnnounces, RunAnnounced, RunCompletes, RunReports, RunEnds,
                RunPublishes, RunType, Service!Release, run, State, Step
  <2>3. local' \in [Issues -> State] /\ runtime' \in [Issues -> {"", "queued", "running"}]
    BY <1>2 DEF RunAdvances, RunAnnounces, RunAnnounced, RunCompletes, RunReports, RunEnds,
                RunPublishes, CardType, SetMeta, meta, State
  <2>4. board' \in [Issues -> State] /\ plan' = plan
    BY <1>2 DEF RunAdvances, RunAnnounces, RunAnnounced, RunCompletes, RunReports, RunEnds,
                RunPublishes, CardType, RunType, project, State
  <2>5. pr' \in [Issues -> {"none", "open", "merged"}]
    BY <1>2 DEF RunAdvances, RunAnnounces, RunAnnounced, RunCompletes, RunReports, RunEnds,
                RunPublishes, CardType
  <2>6. CardType'
    BY <2>3, <2>4, <2>5 DEF CardType
  <2> QED
    BY <2>1, <2>2, <2>6 DEF ProcessType, TickType, BootType, AbortType, LeftType, processes
<1>3. CASE RunFails(i)
  <2>1. UNCHANGED <<processes, tick, boot, abort, left>>
    BY <1>3 DEF RunFails
  <2>2. PICK s \in {"Rework", "Blocked", "Human Review"} :
           SetMeta(i, s, "") /\ verdict' = [verdict EXCEPT ![i] = s]
    BY <1>3 DEF RunFails
  <2>3. s \in State
    BY DEF State
  <2>4. CardType'
    BY <1>3, <2>2, <2>3, SetMetaTypes DEF RunFails, CardType, project
  <2>5. RunType'
    BY <1>3, <2>2, <2>3 DEF RunFails, RunType, Step
  <2> QED
    BY <2>1, <2>4, <2>5 DEF ProcessType, TickType, BootType, AbortType, LeftType, processes
<1>4. CASE RunRaises(i)
  <2>1. UNCHANGED <<tick, boot, abort>> /\ Spend("faults")
    BY <1>4 DEF RunRaises
  <2>2. LeftType'
    BY <2>1, SpentLeft
  <2>3. CardType' /\ RunType'
    BY <1>4 DEF RunRaises, CardType, RunType, Service!Release, SetMeta, project, State, Step
  <2>4. PICK d : /\ d \in IF step[i] = "work" THEN agents[i]..(Candidates - 1) ELSE {0}
                 /\ detached' = [detached EXCEPT ![i] = @ + d]
    BY <1>4 DEF RunRaises
  <2>5. /\ agents[i] \in Nat /\ strays[i] \in Nat /\ detached[i] \in Nat
        /\ killed[i] \in 0..Candidates /\ Candidates \in Nat
    BY IssueRuntimeAssumption DEF ProcessType
  <2>6. d \in Nat
    BY <2>4, <2>5
  <2>7. detached[i] + d \in Nat /\ strays[i] + agents[i] \in Nat
    BY <2>5, <2>6
  <2>8. detached' \in [Issues -> Nat]
    BY <2>4, <2>7 DEF ProcessType
  <2>9. /\ strays' = [strays EXCEPT ![i] = strays[i] + agents[i]]
        /\ agents' = [agents EXCEPT ![i] = 0] /\ killed' = killed
    BY <1>4 DEF RunRaises, ProcessType
  <2>10. strays' \in [Issues -> Nat] /\ agents' \in [Issues -> 0..Candidates]
    BY <2>5, <2>7, <2>9 DEF ProcessType
  <2>11. \A k \in Issues : agents'[k] + killed'[k] <= Candidates
    BY <2>5, <2>9 DEF ProcessType
  <2> QED
    BY <2>1, <2>2, <2>3, <2>8, <2>9, <2>10, <2>11 DEF ProcessType, TickType, BootType, AbortType
<1> QED
  BY <1>1, <1>2, <1>3, <1>4 DEF RunDecides

\* Processes that come and go keep the types.
LEMMA ProcessTypes ==
  ASSUME TypeInv, NEW i \in Issues, AgentStarts(i) \/ AgentExits(i) \/ StrayStep(i)
  PROVE  TypeInv'
<1>1. UNCHANGED <<run, meta, project, pr, tick, boot, abort, left>>
  BY DEF AgentStarts, AgentExits, StrayStep, DetachedStarts, DetachedEnds, StrayExits
<1>0. SUFFICES ASSUME ProcessType PROVE ProcessType'
  BY <1>1
  DEF TypeInv, RunType, CardType, TickType, BootType, AbortType, LeftType, run, meta, project
<1>2. /\ agents[i] \in 0..Candidates /\ killed[i] \in 0..Candidates /\ Candidates \in Nat
      /\ strays[i] \in Nat /\ detached[i] \in Nat /\ agents[i] + killed[i] <= Candidates
  BY IssueRuntimeAssumption DEF TypeInv, ProcessType
<1>3. CASE AgentStarts(i)
  <2>1. /\ agents[i] + killed[i] < Candidates /\ agents' = [agents EXCEPT ![i] = agents[i] + 1]
        /\ UNCHANGED <<killed, strays, detached>>
    BY <1>3 DEF AgentStarts
  <2>2. agents[i] + 1 \in 0..Candidates /\ agents[i] + 1 + killed[i] <= Candidates
    BY <1>2, <2>1
  <2>3. agents' \in [Issues -> 0..Candidates] /\ \A k \in Issues : k # i => agents'[k] = agents[k]
    BY <1>0, <2>1, <2>2 DEF ProcessType
  <2>4. agents'[i] = agents[i] + 1
    BY <1>0, <2>1 DEF ProcessType
  <2>5. \A k \in Issues : agents'[k] + killed'[k] <= Candidates
    BY <1>0, <2>1, <2>2, <2>3, <2>4 DEF ProcessType
  <2> QED
    BY <1>0, <2>1, <2>3, <2>5 DEF ProcessType
<1>4. CASE AgentExits(i)
  <2>1. /\ agents[i] > 0 /\ agents' = [agents EXCEPT ![i] = agents[i] - 1]
        /\ UNCHANGED <<killed, strays, detached>>
    BY <1>4 DEF AgentExits
  <2>2. agents[i] - 1 \in 0..Candidates /\ agents[i] - 1 + killed[i] <= Candidates
    BY <1>2, <2>1
  <2>3. agents' \in [Issues -> 0..Candidates] /\ \A k \in Issues : k # i => agents'[k] = agents[k]
    BY <1>0, <2>1, <2>2 DEF ProcessType
  <2>4. agents'[i] = agents[i] - 1
    BY <1>0, <2>1 DEF ProcessType
  <2>5. \A k \in Issues : agents'[k] + killed'[k] <= Candidates
    BY <1>0, <2>1, <2>2, <2>3, <2>4 DEF ProcessType
  <2> QED
    BY <1>0, <2>1, <2>3, <2>5 DEF ProcessType
<1>5. CASE StrayStep(i)
  <2>1. UNCHANGED <<agents, killed>>
    BY <1>5 DEF StrayStep, DetachedStarts, DetachedEnds, StrayExits
  <2>2. \/ strays' = strays \/ strays' = [strays EXCEPT ![i] = strays[i] + 1]
        \/ strays[i] > 0 /\ strays' = [strays EXCEPT ![i] = strays[i] - 1]
    BY <1>5 DEF StrayStep, DetachedStarts, DetachedEnds, StrayExits
  <2>3. \/ detached' = detached
        \/ strays[i] < detached[i] /\ detached' = [detached EXCEPT ![i] = detached[i] - 1]
    BY <1>5 DEF StrayStep, DetachedStarts, DetachedEnds, StrayExits
  <2>4. /\ strays[i] + 1 \in Nat
        /\ strays[i] > 0 => strays[i] - 1 \in Nat
        /\ strays[i] < detached[i] => detached[i] - 1 \in Nat
    BY <1>2
  <2>5. strays' \in [Issues -> Nat]
    BY <2>2, <2>4 DEF TypeInv, ProcessType
  <2>6. detached' \in [Issues -> Nat]
    BY <2>3, <2>4 DEF TypeInv, ProcessType
  <2> QED
    BY <1>0, <2>1, <2>5, <2>6 DEF ProcessType
<1> QED
  BY <1>3, <1>4, <1>5

\* A step of the scheduler leaves the processes, the runs it does not start,
\* the restart and /abort alone.
LEMMA TickFrame ==
  ASSUME TickStep
  PROVE  /\ UNCHANGED <<step, verdict, processes, plan, boot, abort>>
         /\ TickDispatches \/ UNCHANGED phase
<1>1. CASE TickLists \/ TickReads \/ TickReadsGate \/ TickEnds
  BY <1>1 DEF TickLists, TickReads, TickReadsGate, TickEnds, run, project
<1>2. CASE TickDispatches
  BY <1>2 DEF TickDispatches, project
<1>3. CASE MergeStatus \/ MergeCall \/ MergeRecorded \/ MergeReported \/ BlockedReported
  BY <1>3 DEF MergeStatus, MergeCall, MergeRecorded, MergeReported, BlockedReported, MarkBlocked,
              run, project
<1>4. ASSUME NEW i \in Issues,
             TickWrites(i) \/ TickSkips(i) \/ TickAsksGate(i) \/ TickReconciles(i) \/ MergeStarts(i)
      PROVE  UNCHANGED <<run, processes, plan, boot, abort>>
  BY <1>4 DEF TickWrites, TickSkips, TickAsksGate, TickReconciles, MergeStarts, MarkBlocked, project
<1> QED
  BY <1>1, <1>2, <1>3, <1>4 DEF TickStep, run

\* The records a step of the scheduler may write.
LEMMA NoTickTypes ==
  /\ AnyIssue \in Issues
  /\ \A pc \in TickPc : [NoTick EXCEPT !.pc = pc] \in
       [pc : TickPc, view : [Issues -> State], metas : [Issues -> State],
        todo : SUBSET Issues, at : Issues, ok : BOOLEAN]
  /\ NoTick \in [pc : TickPc, view : [Issues -> State], metas : [Issues -> State],
                 todo : SUBSET Issues, at : Issues, ok : BOOLEAN]
  /\ NoBoot \in [pc : BootPc, metas : [Issues -> State], todo : SUBSET Issues,
                 at : Issues, items : SUBSET Issues]
<1>1. AnyIssue \in Issues
  BY IssueRuntimeAssumption DEF AnyIssue
<1>2. Unread \in [Issues -> State]
  BY DEF Unread, State
<1> QED
  BY <1>1, <1>2 DEF NoTick, NoBoot, TickPc, BootPc

\* A step of the scheduler keeps the types.
LEMMA TickTypes ==
  ASSUME TypeInv, TickStep
  PROVE  TypeInv'
<1>0. RunType /\ ProcessType /\ CardType /\ TickType /\ BootType /\ AbortType /\ LeftType
  BY DEF TypeInv
<1>1. ProcessType' /\ BootType' /\ AbortType'
  BY <1>0, TickFrame DEF ProcessType, BootType, AbortType, processes
<1>2. TickDispatches \/ RunType'
  BY <1>0, TickFrame DEF RunType
<1>a. {"idle", "writing", "reading", "serving", "gate", "gated", "status", "merge", "merged",
       "done", "blocked"} \subseteq TickPc
  BY DEF TickPc
<1>b. tick.at \in Issues /\ {"Rework", "Blocked", "Done"} \subseteq State
  BY <1>0 DEF TickType, State
<1>c. UNCHANGED <<meta, project, pr, left>> => CardType' /\ LeftType'
  BY <1>0 DEF CardType, LeftType, meta, project
<1>d. ASSUME NEW i \in Issues PROVE Served(i) \in
        [pc : TickPc, view : [Issues -> State], metas : [Issues -> State],
         todo : SUBSET Issues, at : Issues, ok : BOOLEAN]
  BY <1>0 DEF TickType, Served, TickPc
<1>e. ASSUME NEW i \in Issues, MarkBlocked(i) PROVE CardType' /\ TickType' /\ LeftType'
  <2>1. CardType' /\ LeftType'
    BY <1>0, <1>b, <1>e, SetMetaTypes DEF MarkBlocked, CardType, LeftType, project
  <2>2. TickType'
    BY <1>0, <1>a, <1>e DEF MarkBlocked, TickType
  <2> QED
    BY <2>1, <2>2
<1>3. CASE TickLists \/ TickReads
  <2>1. CardType' /\ LeftType'
    BY <1>3, <1>c DEF TickLists, TickReads
  <2>2. TickType'
    BY <1>0, <1>3, <1>a DEF TickLists, TickReads, TickType, CardType
  <2> QED
    BY <1>1, <1>2, <1>3, <2>1, <2>2 DEF TypeInv, TickLists, TickReads, run, RunType
<1>4. CASE TickReadsGate
  <2>1. UNCHANGED <<meta, project, pr>> /\ (UNCHANGED left \/ Spend("faults"))
    BY <1>4 DEF TickReadsGate
  <2>2. CardType' /\ LeftType'
    BY <1>0, <2>1, SpentLeft DEF CardType, LeftType, meta, project
  <2>3. TickType'
    <3>1. GateOpen(tick.at, {tick.metas[tick.at]}) \in BOOLEAN
      BY DEF GateOpen
    <3> QED
      BY <1>0, <1>4, <1>a, <3>1 DEF TickReadsGate, TickType
  <2>4. RunType'
    BY <1>0, <1>4 DEF TickReadsGate, run, RunType
  <2> QED
    BY <1>1, <2>2, <2>3, <2>4 DEF TypeInv
<1>5. CASE TickDispatches
  <2>1. RunType' /\ CardType'
    BY <1>0, <1>5, EnqueueTypes DEF TickDispatches, project
  <2>2. TickType'
    <3>1. tick' = [Served(tick.at) EXCEPT !.ok = FALSE]
      BY <1>5 DEF TickDispatches
    <3> QED
      BY <1>0, <1>a, <1>b, <3>1 DEF TickType, Served
  <2>3. LeftType'
    BY <1>0, <1>5 DEF TickDispatches, LeftType
  <2> QED
    BY <1>1, <2>1, <2>2, <2>3 DEF TypeInv
<1>6. CASE TickEnds
  <2>1. CardType' /\ LeftType'
    BY <1>6, <1>c DEF TickEnds
  <2>2. TickType'
    BY <1>6, <1>a, NoTickTypes DEF TickEnds, TickType
  <2> QED
    BY <1>0, <1>1, <1>6, <2>1, <2>2 DEF TypeInv, TickEnds, run, RunType
<1>7. CASE MergeStatus \/ MergeCall
  <2>1. RunType'
    BY <1>0, <1>7 DEF MergeStatus, MergeCall, MarkBlocked, run, RunType
  <2>2. CASE MarkBlocked(tick.at)
    BY <1>1, <1>b, <1>e, <2>1, <2>2 DEF TypeInv
  <2>3. CASE tick' = Served(tick.at) /\ UNCHANGED <<meta, project, pr, left>>
    <3>1. TickType'
      BY <1>b, <1>d, <2>3 DEF TickType
    <3> QED
      BY <1>1, <1>c, <2>1, <2>3, <3>1 DEF TypeInv
  <2>4. CASE /\ \E p \in {"merge", "merged"} : tick' = [tick EXCEPT !.pc = p]
             /\ pr' = pr \/ pr' = [pr EXCEPT ![tick.at] = "merged"]
             /\ UNCHANGED <<meta, project, left>>
    <3>1. TickType'
      BY <1>0, <1>a, <2>4 DEF TickType
    <3>2. CardType' /\ LeftType'
      BY <1>0, <2>4 DEF CardType, LeftType, meta, project
    <3> QED
      BY <1>1, <2>1, <3>1, <3>2 DEF TypeInv
  <2> QED
    BY <1>7, <2>2, <2>3, <2>4 DEF MergeStatus, MergeCall
<1>8. CASE MergeRecorded
  <2>1. CardType' /\ LeftType'
    BY <1>0, <1>8, <1>b, SetMetaTypes DEF MergeRecorded, CardType, LeftType, project
  <2>2. TickType'
    BY <1>0, <1>8, <1>a DEF MergeRecorded, TickType
  <2> QED
    BY <1>0, <1>1, <1>8, <2>1, <2>2 DEF TypeInv, MergeRecorded, run, RunType
<1>9. CASE MergeReported
  <2>1. board' \in [Issues -> State] /\ UNCHANGED <<run, meta, plan, pr>>
    BY <1>0, <1>9, <1>b DEF MergeReported, CardType
  <2>2. UNCHANGED left \/ Spend("faults")
    BY <1>9 DEF MergeReported
  <2>3. LeftType'
    BY <1>0, <2>2, SpentLeft DEF LeftType
  <2>4. TickType'
    BY <1>9, <1>a, <1>b, <1>d, NoTickTypes DEF MergeReported, TickType
  <2> QED
    BY <1>0, <1>1, <2>1, <2>3, <2>4 DEF TypeInv, run, meta, RunType, CardType
<1>10. CASE BlockedReported
  <2>1. board' \in [Issues -> State] /\ LeftType' /\ UNCHANGED <<run, meta, plan, pr>>
    BY <1>0, <1>10, <1>b, BestEffortTypes DEF BlockedReported
  <2>2. TickType'
    BY <1>10, <1>b, <1>d DEF BlockedReported, TickType
  <2> QED
    BY <1>0, <1>1, <2>1, <2>2 DEF TypeInv, run, meta, RunType, CardType
<1>11. ASSUME NEW i \in Issues,
              \/ TickWrites(i) \/ TickSkips(i) \/ TickAsksGate(i) \/ TickReconciles(i)
              \/ MergeStarts(i)
       PROVE  TypeInv'
  <2>1. RunType'
    BY <1>0, <1>11 DEF TickWrites, TickSkips, TickAsksGate, TickReconciles, MergeStarts,
                       MarkBlocked, run, RunType
  <2>2. CASE TickWrites(i)
    <3>1. Resolved(i) \in State
      BY <1>0, <1>b DEF Resolved, TickType
    <3>2. CardType' /\ LeftType'
      BY <1>0, <2>2, <3>1 DEF TickWrites, CardType, LeftType, project
    <3>3. TickType'
      BY <1>0, <1>a, <2>2 DEF TickWrites, TickType
    <3> QED
      BY <1>1, <2>1, <3>2, <3>3 DEF TypeInv
  <2>3. CASE TickSkips(i)
    <3>1. TickType'
      BY <1>d, <2>3 DEF TickSkips, TickType
    <3> QED
      BY <1>1, <1>c, <2>1, <2>3, <3>1 DEF TypeInv, TickSkips
  <2>4. CASE TickAsksGate(i)
    <3>1. TickType'
      BY <1>0, <1>a, <2>4 DEF TickAsksGate, TickType
    <3> QED
      BY <1>1, <1>c, <2>1, <2>4, <3>1 DEF TypeInv, TickAsksGate
  <2>5. CASE TickReconciles(i)
    <3>1. TickType'
      BY <1>d, <2>5 DEF TickReconciles, TickType
    <3>2. CardType' /\ LeftType'
      BY <1>0, <2>5, ReconcileTypes DEF TickReconciles
    <3> QED
      BY <1>1, <2>1, <3>1, <3>2 DEF TypeInv
  <2>6. CASE MergeStarts(i)
    <3>1. CASE MarkBlocked(i)
      BY <1>1, <1>e, <2>1, <3>1 DEF TypeInv
    <3>2. CASE /\ tick' = [tick EXCEPT !.pc = "status", !.at = i]
               /\ UNCHANGED <<meta, project, pr, left>>
      <4>1. TickType'
        BY <1>0, <1>a, <3>2 DEF TickType
      <4> QED
        BY <1>1, <1>c, <2>1, <3>2, <4>1 DEF TypeInv
    <3> QED
      BY <2>6, <3>1, <3>2 DEF MergeStarts
  <2> QED
    BY <1>11, <2>2, <2>3, <2>4, <2>5, <2>6
<1> QED
  BY <1>3, <1>4, <1>5, <1>6, <1>7, <1>8, <1>9, <1>10, <1>11 DEF TickStep

\* A step of the restart keeps the types.
LEMMA BootTypes ==
  ASSUME TypeInv, BootStep
  PROVE  TypeInv'
<1>0. RunType /\ ProcessType /\ CardType /\ TickType /\ BootType /\ AbortType /\ LeftType
  BY DEF TypeInv
<1>a. {"off", "scan", "gate", "rework", "ready"} \subseteq BootPc
  BY DEF BootPc
<1>b. boot.at \in Issues /\ "Rework" \in State
  BY <1>0 DEF BootType, State
<1>c. ASSUME NEW i \in Issues PROVE Restored(i) \in
        [pc : BootPc, metas : [Issues -> State], todo : SUBSET Issues,
         at : Issues, items : SUBSET Issues]
  BY <1>0 DEF BootType, Restored, BootPc
<1>1. CASE BootBegins
  <2>1. UNCHANGED left \/ Spend("interruptions")
    BY <1>1 DEF BootBegins, Interrupt
  <2>2. LeftType'
    BY <1>0, <2>1, SpentLeft DEF LeftType
  <2>3. BootType'
    <3>1. boot' = [NoBoot EXCEPT !.pc = "scan", !.metas = local,
                                 !.todo = {i \in Issues : local[i] \in RestoreStates}]
      BY <1>1 DEF BootBegins
    <3> QED
      BY <1>0, <1>a, <3>1, NoTickTypes DEF BootType, CardType
  <2>4. UNCHANGED <<run, processes, meta, project, pr, tick, abort>>
    BY <1>1 DEF BootBegins
  <2> QED
    BY <1>0, <2>2, <2>3, <2>4
    DEF TypeInv, RunType, ProcessType, CardType, TickType, AbortType, run, processes, meta, project
<1>2. CASE RestoreReported
  <2>1. board' \in [Issues -> State] /\ LeftType'
    BY <1>0, <1>b, <1>2, BestEffortTypes DEF RestoreReported
  <2>2. BootType'
    BY <1>b, <1>c, <1>2 DEF RestoreReported, BootType
  <2>3. UNCHANGED <<run, processes, meta, plan, pr, tick, abort>>
    BY <1>2 DEF RestoreReported
  <2> QED
    BY <1>0, <2>1, <2>2, <2>3
    DEF TypeInv, RunType, ProcessType, CardType, TickType, AbortType, run, processes, meta
<1>3. CASE BootEnds
  <2>1. RunType' /\ CardType'
    BY <1>0, <1>3, EnqueueTypes DEF BootEnds, project
  <2>2. BootType'
    <3>1. boot' = [NoBoot EXCEPT !.pc = "ready"]
      BY <1>3 DEF BootEnds
    <3> QED
      BY <1>a, <3>1, NoTickTypes DEF BootType
  <2>3. TickType'
    <3>1. tick' = tick \/ tick' = [tick EXCEPT !.pc = "idle"]
      BY <1>3 DEF BootEnds
    <3> QED
      BY <1>0, <3>1 DEF TickType, TickPc
  <2>4. UNCHANGED <<processes, abort, left>>
    BY <1>3 DEF BootEnds
  <2> QED
    BY <1>0, <2>1, <2>2, <2>3, <2>4 DEF TypeInv, ProcessType, AbortType, LeftType, processes
<1>4. ASSUME NEW i \in Issues, RestoreInProgress(i)
      PROVE  TypeInv'
  <2>1. UNCHANGED <<run, processes, project, pr, tick, abort, left>>
    BY <1>4 DEF RestoreInProgress
  <2>2. UNCHANGED meta \/ SetMeta(i, "Rework", "")
    BY <1>4 DEF RestoreInProgress
  <2>3. local' \in [Issues -> State] /\ runtime' \in [Issues -> {"", "queued", "running"}]
    BY <1>0, <1>b, <2>2, SetMetaTypes DEF CardType, meta
  <2>4. boot' = Restored(i) \/ boot' = [boot EXCEPT !.pc = "rework", !.at = i]
    BY <1>4 DEF RestoreInProgress
  <2>5. BootType'
    BY <1>0, <1>a, <1>c, <2>4 DEF BootType
  <2> QED
    BY <1>0, <2>1, <2>3, <2>5
    DEF TypeInv, RunType, ProcessType, CardType, TickType, AbortType, LeftType, run, processes,
        project
<1>5. ASSUME NEW i \in Issues, RestoreGate(i)
      PROVE  TypeInv'
  <2>1. UNCHANGED <<run, processes, meta, project, pr, tick, abort>>
    BY <1>5 DEF RestoreGate
  <2>2. UNCHANGED left \/ Spend("faults")
    BY <1>5 DEF RestoreGate
  <2>3. LeftType'
    BY <1>0, <2>2, SpentLeft DEF LeftType
  <2>4. PICK g : g = Restored(i)
    OBVIOUS
  <2>5. \/ boot' = g
        \/ \E x \in {g.items, g.items \union {i}} : boot' = [g EXCEPT !.items = x]
    BY <1>5, <2>4 DEF RestoreGate
  <2>6. BootType'
    BY <1>c, <2>4, <2>5 DEF BootType
  <2> QED
    BY <1>0, <2>1, <2>3, <2>6
    DEF TypeInv, RunType, ProcessType, CardType, TickType, AbortType, run, processes, meta, project
<1> QED
  BY <1>1, <1>2, <1>3, <1>4, <1>5 DEF BootStep

\* /abort, /status and the people keep the types.
LEMMA PeopleTypes ==
  ASSUME TypeInv, NEW i \in Issues,
         \/ AbortKills(i) \/ AbortMarks(i) \/ AbortReports(i)
         \/ StatusCommand(i) \/ Human(i)
  PROVE  TypeInv'
<1>0. RunType /\ ProcessType /\ CardType /\ TickType /\ BootType /\ AbortType /\ LeftType
  BY DEF TypeInv
<1>1. CASE AbortKills(i)
  <2>1. UNCHANGED <<run, detached, meta, project, pr, tick, boot>>
    BY <1>1 DEF AbortKills
  <2>2. LeftType'
    BY <1>0, <1>1, SpentLeft DEF AbortKills, Interrupt
  <2>3. AbortType'
    BY <1>0, <1>1 DEF AbortKills, AbortType
  <2>4. /\ agents' = [agents EXCEPT ![i] = 0] /\ strays' = [strays EXCEPT ![i] = 0]
        /\ killed' = [killed EXCEPT ![i] = killed[i] + agents[i]]
    BY <1>0, <1>1 DEF AbortKills, ProcessType
  <2>5. /\ agents[i] \in 0..Candidates /\ killed[i] \in 0..Candidates
        /\ agents[i] + killed[i] <= Candidates /\ Candidates \in Nat
    BY <1>0, IssueRuntimeAssumption DEF ProcessType
  <2>6. killed[i] + agents[i] \in 0..Candidates /\ 0 + (killed[i] + agents[i]) <= Candidates
        /\ 0 \in 0..Candidates
    BY <2>5
  <2>7. /\ agents' \in [Issues -> 0..Candidates] /\ killed' \in [Issues -> 0..Candidates]
        /\ strays' \in [Issues -> Nat] /\ detached' \in [Issues -> Nat]
    BY <1>0, <2>1, <2>4, <2>6 DEF ProcessType
  <2>8. \A k \in Issues : agents'[k] + killed'[k] <= Candidates
    BY <1>0, <2>4, <2>6 DEF ProcessType
  <2>9. ProcessType'
    BY <2>7, <2>8 DEF ProcessType
  <2> QED
    BY <1>0, <2>1, <2>2, <2>3, <2>9
    DEF TypeInv, RunType, CardType, TickType, BootType, run, meta, project
<1>2. CASE AbortMarks(i)
  <2>1. "Blocked" \in State
    BY DEF State
  <2>2. local' \in [Issues -> State] /\ runtime' \in [Issues -> {"", "queued", "running"}]
    BY <1>0, <1>2, <2>1, SetMetaTypes DEF AbortMarks
  <2>3. AbortType'
    BY <1>0, <1>2 DEF AbortMarks, AbortType
  <2>4. UNCHANGED <<run, processes, project, pr, tick, boot, left>>
    BY <1>2 DEF AbortMarks
  <2> QED
    BY <1>0, <2>2, <2>3, <2>4
    DEF TypeInv, RunType, ProcessType, CardType, TickType, BootType, LeftType, run, processes,
        project
<1>3. CASE AbortReports(i)
  <2>1. "Blocked" \in State
    BY DEF State
  <2>2. board' \in [Issues -> State] /\ LeftType'
    BY <1>0, <1>3, <2>1, BestEffortTypes DEF AbortReports
  <2>3. AbortType'
    BY <1>0, <1>3 DEF AbortReports, AbortType
  <2>4. UNCHANGED <<run, processes, meta, plan, pr, tick, boot>>
    BY <1>3 DEF AbortReports
  <2> QED
    BY <1>0, <2>2, <2>3, <2>4
    DEF TypeInv, RunType, ProcessType, CardType, TickType, BootType, run, processes, meta
<1>4. CASE StatusCommand(i)
  <2>1. CardType' /\ LeftType'
    BY <1>0, <1>4, ReconcileTypes DEF StatusCommand
  <2>2. UNCHANGED <<run, processes, tick, boot, abort>>
    BY <1>4 DEF StatusCommand
  <2> QED
    BY <1>0, <2>1, <2>2
    DEF TypeInv, RunType, ProcessType, TickType, BootType, AbortType, run, processes
<1>5. CASE Human(i)
  <2>1. LeftType'
    BY <1>0, <1>5, SpentLeft DEF Human, HumanMoves, HumanPlans
  <2>2. \/ UNCHANGED board
        \/ \E s \in {"Ready", "Rework", "Merging"} : board' = [board EXCEPT ![i] = s]
    BY <1>5 DEF Human, HumanMoves, HumanPlans, MoveOf
  <2>3. board' \in [Issues -> State]
    BY <1>0, <2>2 DEF CardType, State
  <2>4. plan' \in [Issues -> {"Approved", "Drafted"}]
    BY <1>0, <1>5 DEF Human, HumanMoves, HumanPlans, CardType
  <2>5. UNCHANGED <<run, processes, meta, pr, tick, boot, abort>>
    BY <1>5 DEF Human, HumanMoves, HumanPlans
  <2> QED
    BY <1>0, <2>1, <2>3, <2>4, <2>5
    DEF TypeInv, RunType, ProcessType, CardType, TickType, BootType, AbortType, run, processes, meta
<1> QED
  BY <1>1, <1>2, <1>3, <1>4, <1>5

\* The death of the bot keeps the types.
LEMMA CrashTypes ==
  ASSUME TypeInv, Crash
  PROVE  TypeInv'
<1>0. RunType /\ ProcessType /\ CardType /\ LeftType
  BY DEF TypeInv
<1>1. UNCHANGED <<verdict, meta, project, pr>>
  BY DEF Crash
<1>2. LeftType'
  BY <1>0, SpentLeft DEF Crash, Interrupt
<1>3. RunType'
  BY <1>0 DEF Crash, RunType, Step
<1>4. TickType' /\ BootType' /\ AbortType'
  BY NoTickTypes DEF Crash, TickType, BootType, AbortType
<1>5. Candidates \in Nat
  BY IssueRuntimeAssumption
<1>6. PICK survivors \in [Issues -> 0..Candidates] :
        strays' = [i \in Issues |-> strays[i] + survivors[i]]
  BY DEF Crash
<1>7. \A i \in Issues : strays[i] + survivors[i] \in Nat
  BY <1>0, <1>5, <1>6 DEF ProcessType
<1>8. strays' \in [Issues -> Nat]
  BY <1>6, <1>7
<1>9. /\ agents' = [i \in Issues |-> 0] /\ killed' = [i \in Issues |-> 0]
      /\ detached' = [i \in Issues |-> 0]
  BY DEF Crash
<1>10. ProcessType'
  BY <1>5, <1>8, <1>9 DEF ProcessType
<1> QED
  BY <1>0, <1>1, <1>2, <1>3, <1>4, <1>10 DEF TypeInv, CardType, meta, project

\* The initial states have the types.
LEMMA InitTypes == Init => TypeInv
<1> SUFFICES ASSUME Init PROVE TypeInv
  OBVIOUS
<1>1. Candidates \in Nat /\ MaxMoves \in Nat /\ MaxFaults \in Nat /\ MaxInterruptions \in Nat
  BY IssueRuntimeAssumption
<1>2. RunType /\ CardType /\ AbortType
  BY DEF Init, RunType, CardType, AbortType, Step, State
<1>3. /\ agents = [i \in Issues |-> 0] /\ killed = [i \in Issues |-> 0]
      /\ detached = [i \in Issues |-> 0] /\ strays = [i \in Issues |-> 0]
  BY DEF Init
<1>4. ProcessType
  BY <1>1, <1>3 DEF ProcessType
<1>5. TickType /\ BootType
  BY NoTickTypes DEF Init, TickType, BootType
<1>6. LeftType
  <2>1. /\ MaxMoves \in 0..MaxMoves /\ MaxFaults \in 0..MaxFaults
        /\ MaxInterruptions \in 0..MaxInterruptions
    BY <1>1
  <2>2. left = [moves |-> MaxMoves, faults |-> MaxFaults, interruptions |-> MaxInterruptions]
    BY DEF Init
  <2> QED
    BY <2>1, <2>2 DEF LeftType
<1> QED
  BY <1>2, <1>4, <1>5, <1>6 DEF TypeInv

\* Every step keeps the types.
LEMMA NextTypes == TypeInv /\ [Next]_vars => TypeInv'
<1> SUFFICES ASSUME TypeInv, [Next]_vars PROVE TypeInv'
  OBVIOUS
<1>1. CASE UNCHANGED vars
  BY <1>1 DEF TypeInv, RunType, ProcessType, CardType, TickType, BootType, AbortType, LeftType,
              vars, run, processes, meta, project
<1> QED
  BY <1>1, TickTypes, BootTypes, CrashTypes, RunTypes, ProcessTypes, PeopleTypes DEF Next

\* The variables have their types, the candidates of a run that live or were
\* stopped are never more than it has, and no count falls below zero.
THEOREM TypeCorrect == Spec => []TypeOK
<1>1. TypeInv => TypeOK
  BY TypeInvIsTypeOK
<1> QED
  BY InitTypes, NextTypes, <1>1, PTL DEF Spec

NoReconnect == "reconnect" \notin Interruptions

\* on_ready comes again in a bot that has not died.
Reconnects == boot.pc = "ready" /\ BootBegins

\* A run that will write the Project or meta.json again before it reports.
Busy(i) ==
  phase[i] = "accepted" \/ step[i] \in {"snapshot", "announce", "work", "publish", "report"}
Undelivered == State \ {"Human Review", "Merging", "Done"}

\* The queue and execute_run agree on what runs; processes belong to its work.
RunsExact ==
  \A i \in Issues :
    /\ step[i] # "none" <=> phase[i] = "active"
    /\ agents[i] > 0 => step[i] = "work"
    /\ verdict[i] \in {"Rework", "Blocked", "Human Review"}

\* No card is delivered while a run may still write it, and meta.json says
\* nothing of a delivered one that anybody would repair.
CardInv(i) ==
  /\ Busy(i) => board[i] \in Undelivered
  /\ board[i] = "Done" => local[i] \notin {"In Progress", "Merging"} /\ runtime[i] = ""
BoardInv == \A i \in Issues : CardInv(i)

Merges == {"status", "merge", "merged", "done", "blocked"}

\* What the copies of the tick still tell of the cards.
WritingInv ==
  tick.pc = "writing" =>
    \A i \in Issues : /\ tick.view[i] = "Merging" => ~Busy(i)
                      /\ board[i] = "Done" => tick.view[i] = "Done"
                      /\ i \notin tick.todo /\ local[i] = "Merging" => ~Busy(i)
ReadingInv ==
  tick.pc = "reading" => \A i \in Issues : local[i] = "Merging" => ~Busy(i)
ServingInv ==
  tick.pc \in {"serving", "gate", "gated"} \union Merges =>
    \A i \in tick.todo : tick.metas[i] = "Merging" => ~Busy(i) /\ board[i] # "Done"
GateInv ==
  /\ tick.pc \in {"gate", "gated"} => tick.at \in tick.todo /\ phase[tick.at] = "idle"
  /\ tick.pc = "gate" => tick.metas[tick.at] \in DispatchStates
  /\ tick.pc = "gated" /\ tick.ok => board[tick.at] \in Undelivered
MergeInv ==
  /\ tick.pc \in Merges =>
       tick.at \in tick.todo /\ ~Busy(tick.at) /\ board[tick.at] # "Done"
  /\ tick.pc = "done" =>
       local[tick.at] \notin {"In Progress", "Merging"} /\ runtime[tick.at] = ""
TickInv == WritingInv /\ ReadingInv /\ ServingInv /\ GateInv /\ MergeInv

\* Until the first restart is over nothing else has begun.
BootInv ==
  /\ boot.pc # "ready" => tick.pc = "off" /\ \A i \in Issues : phase[i] = "idle"
  /\ boot.pc \in {"scan", "rework"} =>
       /\ \A i \in boot.todo : boot.metas[i] = "In Progress" => board[i] # "Done"
       /\ \A i \in boot.items : board[i] \in Undelivered
  /\ boot.pc = "rework" => board[boot.at] # "Done"

IInv == TypeInv /\ RunsExact /\ BoardInv /\ TickInv /\ BootInv

-----------------------------------------------------------------------------
\* What enqueue() and restore() do to an issue.
LEMMA EnqueueEffect ==
  ASSUME TypeInv, NEW is, EnqueueAll(is)
  PROVE  \A k \in Issues :
           \/ phase'[k] = phase[k] /\ runtime'[k] = runtime[k]
           \/ k \in is /\ phase[k] = "idle" /\ phase'[k] = "accepted" /\ runtime'[k] = "queued"
  BY DEF EnqueueAll, Idle

\* What _reconcile_runtime_state does to an issue.
LEMMA ReconcileEffect ==
  ASSUME TypeInv, NEW i \in Issues, Reconcile(i)
  PROVE  /\ \A k \in Issues \ {i} :
              local'[k] = local[k] /\ runtime'[k] = runtime[k] /\ board'[k] = board[k]
         /\ \/ local'[i] = local[i] /\ runtime'[i] = runtime[i] /\ board'[i] = board[i]
            \/ /\ local'[i] = local[i] /\ local[i] = "In Progress" /\ board'[i] = board[i]
            \/ /\ local'[i] = "Rework" /\ runtime'[i] = "" /\ board'[i] \in {board[i], "Rework"}
               /\ local[i] = "In Progress" \/ runtime[i] # ""
               /\ ~Active(i)
<1> USE DEF TypeInv, CardType
<1>1. CASE UNCHANGED <<meta, board, left>>
  BY <1>1 DEF meta
<1>2. CASE /\ Active(i)
           /\ runtime' = IF local[i] = "In Progress" /\ HasProcess(i) /\ runtime[i] = ""
                         THEN [runtime EXCEPT ![i] = "running"] ELSE runtime
           /\ UNCHANGED <<local, board, left>>
  BY <1>2
<1>3. CASE /\ local[i] = "In Progress" \/ runtime[i] # "" 
           /\ ~Active(i) /\ SetMeta(i, "Rework", "") /\ BestEffort(i, "Rework")
  BY <1>3 DEF SetMeta, BestEffort
<1> QED
  BY <1>1, <1>2, <1>3 DEF Reconcile, ReconcileIf

\* Every step but the dispatch, the restart's end, the crash and a run's own
\* leaves what runs as it is.
LEMMA RunFrame ==
  ASSUME NEW i \in Issues, AbortKills(i) \/ AbortMarks(i) \/ AbortReports(i)
                           \/ StatusCommand(i) \/ Human(i)
                           \/ AgentStarts(i) \/ AgentExits(i) \/ StrayStep(i)
  PROVE  UNCHANGED <<phase, step, verdict, tick, boot>>
  BY DEF AbortKills, AbortMarks, AbortReports, StatusCommand, Human, HumanMoves, HumanPlans,
         AgentStarts, AgentExits, StrayStep, DetachedStarts, DetachedEnds, StrayExits, run

\* The steps of the restart but its end.
LEMMA BootFrame ==
  ASSUME BootStep
  PROVE  /\ UNCHANGED <<step, verdict, processes, plan, pr, abort>>
         /\ BootEnds \/ UNCHANGED <<phase, tick>>
<1>1. CASE BootBegins \/ RestoreReported
  BY <1>1 DEF BootBegins, RestoreReported, run, project
<1>2. CASE BootEnds
  BY <1>2 DEF BootEnds, project
<1>3. ASSUME NEW i \in Issues, RestoreInProgress(i) \/ RestoreGate(i)
      PROVE  UNCHANGED <<run, processes, plan, pr, tick, abort>>
  BY <1>3 DEF RestoreInProgress, RestoreGate, project
<1> QED
  BY <1>1, <1>2, <1>3 DEF BootStep, run

\* The queue and the run go together.
LEMMA RunsExactKept ==
  ASSUME TypeInv, RunsExact, TypeInv', Next
  PROVE  RunsExact'
<1>0. RunType /\ ProcessType /\ RunType' /\ ProcessType'
  BY DEF TypeInv
<1>1. ASSUME (\E is : EnqueueAll(is)) \/ UNCHANGED phase,
             UNCHANGED <<step, verdict, agents>>
      PROVE  RunsExact'
  <2>1. \A k \in Issues : phase'[k] = phase[k] \/ (phase[k] = "idle" /\ phase'[k] = "accepted")
    BY <1>1, EnqueueEffect
  <2> QED
    BY <1>1, <2>1 DEF RunsExact
<1>2. CASE TickStep \/ BootStep
  <2>1. UNCHANGED <<step, verdict, agents>>
    BY <1>2, TickFrame, BootFrame DEF processes
  <2>2. (\E is : EnqueueAll(is)) \/ UNCHANGED phase
    BY <1>2, TickFrame, BootFrame DEF TickDispatches, BootEnds
  <2> QED
    BY <1>1, <2>1, <2>2
<1>3. CASE Crash
  <2>1. /\ phase' = [i \in Issues |-> "idle"] /\ step' = [i \in Issues |-> "none"]
        /\ agents' = [i \in Issues |-> 0] /\ verdict' = verdict
    BY <1>3 DEF Crash
  <2>2. ~(0 > 0)
    OBVIOUS
  <2> QED
    BY <2>1, <2>2 DEF RunsExact
<1>4. ASSUME NEW i \in Issues, AbortMarks(i) \/ AbortReports(i) \/ StatusCommand(i) \/ Human(i)
                               \/ StrayStep(i)
      PROVE  RunsExact'
  <2>1. UNCHANGED agents
    BY <1>4 DEF AbortMarks, AbortReports, StatusCommand, Human, HumanMoves, HumanPlans,
                StrayStep, DetachedStarts, DetachedEnds, StrayExits, processes
  <2> QED
    BY <1>4, <2>1, RunFrame DEF RunsExact
<1>5. ASSUME NEW i \in Issues, AgentStarts(i) \/ AgentExits(i) \/ AbortKills(i)
      PROVE  RunsExact'
  <2>1. UNCHANGED <<phase, step, verdict>>
    BY <1>5, RunFrame
  <2>2. \A k \in Issues : k # i => agents'[k] = agents[k]
    BY <1>0, <1>5 DEF AgentStarts, AgentExits, AbortKills, ProcessType
  <2>3. agents'[i] > 0 => step[i] = "work"
    <3>1. CASE AgentStarts(i)
      BY <3>1 DEF AgentStarts
    <3>2. CASE AgentExits(i)
      BY <3>2 DEF AgentExits, RunsExact
    <3>3. CASE AbortKills(i)
      BY <1>0, <3>3 DEF AbortKills, ProcessType
    <3> QED
      BY <1>5, <3>1, <3>2, <3>3
  <2> QED
    BY <2>1, <2>2, <2>3 DEF RunsExact
<1>6. ASSUME NEW i \in Issues, RunBegins(i) \/ RunAdvances(i) \/ RunDecides(i) \/ RunRaises(i)
      PROVE  RunsExact'
  <2>1. ASSUME NEW k \in Issues, k # i
        PROVE  /\ phase'[k] = phase[k] /\ step'[k] = step[k] /\ agents'[k] = agents[k]
               /\ verdict'[k] = verdict[k]
    <3>1. CASE RunBegins(i) \/ RunRaises(i)
      BY <1>0, <2>1, <3>1 DEF RunBegins, RunRaises, RunType, ProcessType, Service!Activate,
                              Service!Release
    <3>2. CASE RunAdvances(i)
      BY <1>0, <2>1, <3>2 DEF RunAdvances, RunAnnounces, RunAnnounced, RunCompletes, RunReports,
                              RunEnds, RunType, Service!Release, processes
    <3>3. CASE RunDecides(i)
      BY <1>0, <2>1, <3>3 DEF RunDecides, RunFails, RunPublishes, RunType, processes
    <3> QED
      BY <1>6, <3>1, <3>2, <3>3
  <2>2. step'[i] # "none" <=> phase'[i] = "active"
    BY <1>0, <1>6 DEF RunBegins, RunAdvances, RunAnnounces, RunAnnounced, RunCompletes, RunReports,
                RunEnds, RunDecides, RunFails, RunPublishes, RunRaises, RunsExact, RunType,
                Service!Activate, Service!Release
  <2>3. verdict'[i] \in {"Rework", "Blocked", "Human Review"}
    BY <1>0, <1>6 DEF RunBegins, RunAdvances, RunAnnounces, RunAnnounced, RunCompletes, RunReports,
                RunEnds, RunDecides, RunFails, RunPublishes, RunRaises, RunsExact, RunType
  <2>4. agents'[i] > 0 => step'[i] = "work"
    <3>1. CASE RunBegins(i)
      <4>1. phase[i] = "accepted" /\ UNCHANGED agents
        BY <3>1 DEF RunBegins, Service!Activate
      <4> QED
        BY <4>1 DEF RunsExact
    <3>2. CASE RunRaises(i)
      <4>1. agents'[i] = 0
        BY <1>0, <3>2 DEF RunRaises, ProcessType
      <4> QED
        BY <4>1
    <3>3. CASE RunAdvances(i)
      <4>1. step[i] # "work" /\ UNCHANGED agents
        BY <3>3 DEF RunAdvances, RunAnnounces, RunAnnounced, RunCompletes, RunReports, RunEnds,
                    processes
      <4> QED
        BY <4>1 DEF RunsExact
    <3>4. CASE RunDecides(i)
      <4>1. agents[i] = 0 /\ UNCHANGED agents
        BY <3>4 DEF RunDecides, RunFails, RunPublishes, processes
      <4> QED
        BY <4>1
    <3> QED
      BY <1>6, <3>1, <3>2, <3>3, <3>4
  <2> QED
    BY <2>1, <2>2, <2>3, <2>4 DEF RunsExact
<1> QED
  BY <1>2, <1>3, <1>4, <1>5, <1>6 DEF Next

(***************************************************************************)
(* Steps that neither the scheduler nor the restart takes.  Calm is what   *)
(* those two may rely on, whatever happens to an issue meanwhile.          *)
(***************************************************************************)
Calm(k) ==
  /\ Busy(k)' => Busy(k)
  /\ board'[k] = "Done" => board[k] = "Done"
  /\ local'[k] = "Merging" => local[k] = "Merging"
  /\ phase[k] = "idle" => phase'[k] = "idle"
  /\ phase[k] = "idle" /\ board[k] \in Undelivered => board'[k] \in Undelivered
  /\ ~Busy(k) /\ local[k] \notin {"In Progress", "Merging"} /\ runtime[k] = "" =>
       local'[k] \notin {"In Progress", "Merging"} /\ runtime'[k] = ""

\* Neither the scheduler nor the restart is misled by a calm step.
LEMMA CalmKeeps ==
  ASSUME TypeInv, TickInv, BootInv, UNCHANGED <<tick, boot>>, \A k \in Issues : Calm(k)
  PROVE  TickInv' /\ BootInv'
<1>0. tick.at \in Issues /\ tick.todo \subseteq Issues /\ boot.at \in Issues
      /\ boot.todo \subseteq Issues /\ boot.items \subseteq Issues
  BY DEF TypeInv, TickType, BootType
<1>1. WritingInv'
  BY DEF TickInv, WritingInv, Calm
<1>2. ReadingInv'
  BY DEF TickInv, ReadingInv, Calm
<1>3. ServingInv'
  BY <1>0 DEF TickInv, ServingInv, Calm
<1>4. GateInv'
  BY <1>0 DEF TickInv, GateInv, Calm
<1>5. MergeInv'
  BY <1>0 DEF TickInv, MergeInv, Calm, Merges
<1>6. boot.pc # "ready" => tick.pc = "off" /\ \A i \in Issues : phase'[i] = "idle"
  BY DEF BootInv, Calm
<1>7. boot.pc \in {"scan", "rework"} =>
        /\ \A i \in boot.todo : boot.metas[i] = "In Progress" => board'[i] # "Done"
        /\ \A i \in boot.items : board'[i] \in Undelivered
  BY <1>0 DEF BootInv, Calm
<1>8. boot.pc = "rework" => board'[boot.at] # "Done"
  BY <1>0 DEF BootInv, Calm
<1> QED
  BY <1>1, <1>2, <1>3, <1>4, <1>5, <1>6, <1>7, <1>8 DEF TickInv, BootInv

\* A step of a run is calm and keeps what holds of the cards.
LEMMA RunBoard ==
  ASSUME IInv, TypeInv', NEW i \in Issues,
         RunBegins(i) \/ RunAdvances(i) \/ RunDecides(i) \/ RunRaises(i)
  PROVE  BoardInv' /\ TickInv' /\ BootInv'
<1>0. RunType /\ CardType /\ RunsExact /\ BoardInv
  BY DEF IInv, TypeInv
<1>a. RunBegins(i) \/ RunAdvances(i) \/ RunDecides(i) \/ RunRaises(i)
  OBVIOUS
<1>1. UNCHANGED <<tick, boot>>
  BY DEF RunBegins, RunAdvances, RunAnnounces, RunAnnounced, RunCompletes, RunReports, RunEnds,
         RunDecides, RunFails, RunPublishes, RunRaises
<1>2. ASSUME NEW k \in Issues, k # i
      PROVE  /\ phase'[k] = phase[k] /\ step'[k] = step[k] /\ board'[k] = board[k]
             /\ local'[k] = local[k] /\ runtime'[k] = runtime[k]
  <2>1. CASE RunBegins(i) \/ RunRaises(i)
    BY <1>0, <1>2, <2>1 DEF RunBegins, RunRaises, RunType, CardType, SetMeta, Service!Activate,
                            Service!Release, project
  <2>2. CASE RunAdvances(i)
    BY <1>0, <1>2, <2>2 DEF RunAdvances, RunAnnounces, RunAnnounced, RunCompletes, RunReports,
                            RunEnds, RunType, CardType, SetMeta, Service!Release, meta, project
  <2>3. CASE RunDecides(i)
    <3>1. /\ phase' = phase /\ board' = board
          /\ \E s \in {"report", "publish"} : step' = [step EXCEPT ![i] = s]
      BY <2>3 DEF RunDecides, RunFails, RunPublishes, project
    <3>2. UNCHANGED meta \/ \E s \in State : SetMeta(i, s, "")
      BY <2>3 DEF RunDecides, RunFails, RunPublishes, State
    <3> QED
      BY <1>0, <1>2, <3>1, <3>2 DEF RunType, CardType, SetMeta, meta
  <2> QED
    BY <1>2, <2>1, <2>2, <2>3, <1>a
<1>3. phase[i] # "idle"
  BY <1>0 DEF RunsExact, RunBegins, RunAdvances, RunAnnounces, RunAnnounced, RunCompletes,
              RunReports, RunEnds, RunDecides, RunFails, RunPublishes, RunRaises, Service!Activate
<1>4. Calm(i) /\ CardInv(i)'
  <2>0. CardInv(i)
    BY <1>0 DEF BoardInv
  <2>1. CASE RunBegins(i)
    <3>1. phase[i] = "accepted" /\ phase'[i] = "active" /\ step'[i] = "snapshot"
      BY <1>0, <2>1 DEF RunBegins, RunType, Service!Activate
    <3>2. board'[i] = board[i] /\ local'[i] = local[i]
      BY <2>1 DEF RunBegins, project
    <3> QED
      BY <2>0, <3>1, <3>2 DEF Calm, CardInv, Busy, Undelivered
  <2>2. CASE RunRaises(i)
    <3>1. phase'[i] = "idle" /\ step'[i] = "none"
      BY <1>0, <2>2 DEF RunRaises, RunType, Service!Release
    <3>2. board'[i] = board[i] /\ local'[i] = "Rework" /\ runtime'[i] = ""
      BY <1>0, <2>2 DEF RunRaises, SetMeta, CardType, project
    <3> QED
      BY <1>3, <3>1, <3>2 DEF Calm, CardInv, Busy
  <2>3. CASE RunAnnounces(i)
    <3>1. phase'[i] = phase[i] /\ step[i] = "snapshot" /\ step'[i] = "announce"
      BY <1>0, <2>3 DEF RunAnnounces, RunType
    <3>2. board'[i] = board[i] /\ local'[i] = "In Progress"
      BY <1>0, <2>3 DEF RunAnnounces, SetMeta, CardType, project
    <3> QED
      BY <1>3, <2>0, <3>1, <3>2 DEF Calm, CardInv, Busy, Undelivered
  <2>4. CASE RunAnnounced(i)
    <3>1. phase'[i] = phase[i] /\ step[i] = "announce" /\ step'[i] = "work"
      BY <1>0, <2>4 DEF RunAnnounced, RunType
    <3>2. board'[i] = "In Progress" /\ UNCHANGED meta
      BY <1>0, <2>4 DEF RunAnnounced, CardType
    <3> QED
      BY <1>3, <2>0, <3>1, <3>2 DEF Calm, CardInv, Busy, Undelivered, State, meta
  <2>5. CASE RunFails(i)
    <3>1. phase'[i] = phase[i] /\ step[i] = "work" /\ step'[i] = "report"
      BY <1>0, <2>5 DEF RunFails, RunType
    <3>2. board'[i] = board[i] /\ runtime'[i] = ""
          /\ local'[i] \in {"Rework", "Blocked", "Human Review"}
      BY <1>0, <2>5 DEF RunFails, SetMeta, CardType, project
    <3> QED
      BY <1>3, <2>0, <3>1, <3>2 DEF Calm, CardInv, Busy, Undelivered
  <2>6. CASE RunPublishes(i)
    <3>1. phase'[i] = phase[i] /\ step[i] = "work" /\ step'[i] = "publish"
      BY <1>0, <2>6 DEF RunPublishes, RunType
    <3>2. UNCHANGED <<board, meta>>
      BY <2>6 DEF RunPublishes, project
    <3> QED
      BY <1>3, <2>0, <3>1, <3>2 DEF Calm, CardInv, Busy, Undelivered, meta
  <2>7. CASE RunCompletes(i)
    <3>1. phase'[i] = phase[i] /\ step[i] = "publish" /\ step'[i] = "report"
      BY <1>0, <2>7 DEF RunCompletes, RunType
    <3>2. board'[i] = board[i] /\ runtime'[i] = "" /\ local'[i] = "Human Review"
      BY <1>0, <2>7 DEF RunCompletes, SetMeta, CardType, project
    <3> QED
      BY <1>3, <2>0, <3>1, <3>2 DEF Calm, CardInv, Busy, Undelivered
  <2>8. CASE RunReports(i)
    <3>1. phase'[i] = "active" /\ step[i] = "report" /\ step'[i] = "comment"
      BY <1>0, <2>8 DEF RunReports, RunType, RunsExact
    <3>2. board'[i] \in {"Rework", "Blocked", "Human Review"} /\ UNCHANGED meta
      BY <1>0, <2>8 DEF RunReports, CardType, RunsExact
    <3> QED
      BY <1>3, <2>0, <3>1, <3>2 DEF Calm, CardInv, Busy, meta
  <2>9. CASE RunEnds(i)
    <3>1. phase'[i] = "idle" /\ step[i] = "comment" /\ step'[i] = "none"
      BY <1>0, <2>9 DEF RunEnds, RunType, Service!Release
    <3>2. board'[i] = board[i] /\ local'[i] = local[i] /\ runtime'[i] = ""
      BY <1>0, <2>9 DEF RunEnds, CardType, project
    <3> QED
      BY <1>3, <2>0, <3>1, <3>2 DEF Calm, CardInv, Busy
  <2> QED
    BY <1>a, <2>1, <2>2, <2>3, <2>4, <2>5, <2>6, <2>7, <2>8, <2>9 DEF RunAdvances, RunDecides
<1>5. \A k \in Issues : Calm(k) /\ CardInv(k)'
  BY <1>0, <1>2, <1>4 DEF Calm, Busy, BoardInv, CardInv
<1> QED
  BY <1>1, <1>5, CalmKeeps DEF IInv, BoardInv

\* Processes that come and go touch no card.
LEMMA ProcessBoard ==
  ASSUME IInv, NEW i \in Issues, AgentStarts(i) \/ AgentExits(i) \/ StrayStep(i)
  PROVE  BoardInv' /\ TickInv' /\ BootInv'
<1>1. UNCHANGED <<phase, step, meta, board, tick, boot>>
  BY DEF AgentStarts, AgentExits, StrayStep, DetachedStarts, DetachedEnds, StrayExits, run, project
<1>2. \A k \in Issues : Calm(k) /\ CardInv(k)'
  BY <1>1 DEF Calm, Busy, IInv, BoardInv, CardInv, meta
<1> QED
  BY <1>1, <1>2, CalmKeeps DEF IInv, BoardInv

\* /abort, /status and the people are calm.
LEMMA PeopleBoard ==
  ASSUME IInv, NEW i \in Issues,
         \/ AbortKills(i) \/ AbortMarks(i) \/ AbortReports(i)
         \/ StatusCommand(i) \/ Human(i)
  PROVE  BoardInv' /\ TickInv' /\ BootInv'
<1>0. CardType /\ BoardInv
  BY DEF IInv, TypeInv
<1>1. UNCHANGED <<phase, step, tick, boot>>
  BY RunFrame
<1>2. \A k \in Issues : Busy(k)' = Busy(k)
  BY <1>1 DEF Busy
<1>3. ASSUME NEW k \in Issues
      PROVE  Calm(k) /\ CardInv(k)'
  <2>0. CardInv(k)
    BY <1>0 DEF BoardInv
  <2>a. {"Blocked", "Rework", "Ready"} \subseteq Undelivered
        /\ "Done" \notin Undelivered /\ "Human Review" \notin Undelivered
    BY DEF Undelivered, State
  <2>1. CASE UNCHANGED <<local, runtime, board>>
    BY <1>1, <1>2, <2>0, <2>1 DEF Calm, CardInv
  <2>2. CASE AbortKills(i)
    BY <2>1, <2>2 DEF AbortKills, meta, project
  <2>3. CASE AbortMarks(i)
    <3>1. board' = board
      BY <2>3 DEF AbortMarks, project
    <3>2. \/ local'[k] = local[k] /\ runtime'[k] = runtime[k]
          \/ local'[k] = "Blocked" /\ runtime'[k] = ""
      BY <1>0, <2>3 DEF AbortMarks, SetMeta, CardType
    <3> QED
      BY <1>1, <1>2, <2>0, <3>1, <3>2 DEF Calm, CardInv
  <2>4. CASE AbortReports(i)
    <3>1. UNCHANGED meta /\ board'[k] \in {board[k], "Blocked"}
      BY <1>0, <2>4 DEF AbortReports, BestEffort, CardType
    <3> QED
      BY <1>1, <1>2, <2>0, <2>a, <3>1 DEF Calm, CardInv, meta
  <2>5. CASE StatusCommand(i)
    <3>1. \/ local'[k] = local[k] /\ runtime'[k] = runtime[k] /\ board'[k] = board[k]
          \/ local'[k] = local[k] /\ local[k] = "In Progress" /\ board'[k] = board[k]
          \/ local'[k] = "Rework" /\ runtime'[k] = "" /\ board'[k] \in {board[k], "Rework"}
      BY <2>5, ReconcileEffect DEF StatusCommand, IInv
    <3> QED
      BY <1>1, <1>2, <2>0, <2>a, <3>1 DEF Calm, CardInv
  <2>6. CASE Human(i)
    <3>1. \/ board'[k] = board[k]
          \/ board[k] = "Blocked" /\ board'[k] = "Ready"
          \/ board[k] = "Human Review" /\ board'[k] \in {"Rework", "Merging"}
      <4>1. CASE HumanMoves(i)
        <5>1. PICK s \in MoveOf(board[i]) : board' = [board EXCEPT ![i] = s]
          BY <4>1 DEF HumanMoves
        <5>2. \/ board[i] = "Blocked" /\ s = "Ready"
              \/ board[i] = "Human Review" /\ s \in {"Rework", "Merging"}
          BY <5>1 DEF MoveOf
        <5>3. board'[k] = IF k = i THEN s ELSE board[k]
          BY <1>0, <5>1 DEF CardType
        <5> QED
          BY <4>1, <5>2, <5>3 DEF HumanMoves
      <4>2. CASE HumanPlans(i)
        BY <4>2 DEF HumanPlans
      <4> QED
        BY <2>6, <4>1, <4>2 DEF Human
    <3>2. UNCHANGED meta
      BY <2>6 DEF Human, HumanMoves, HumanPlans
    <3> QED
      BY <1>1, <1>2, <2>0, <2>a, <3>1, <3>2 DEF Calm, CardInv, meta
  <2> QED
    BY <2>2, <2>3, <2>4, <2>5, <2>6
<1> QED
  BY <1>1, <1>3, CalmKeeps DEF IInv, BoardInv

\* A step of the scheduler is taken when the restart is over.
LEMMA TickWhenReady ==
  ASSUME IInv, TickStep
  PROVE  boot.pc = "ready" /\ BootInv'
<1>1. tick.pc # "off"
  BY DEF TickStep, TickLists, TickReads, TickReadsGate, TickDispatches, TickEnds, MergeStatus,
         MergeCall, MergeRecorded, MergeReported, BlockedReported, TickWrites, TickSkips,
         TickAsksGate, TickReconciles, MergeStarts, Serving, AtIssue
<1>2. boot.pc = "ready"
  BY <1>1 DEF IInv, BootInv
<1> QED
  BY <1>2, TickFrame DEF BootInv

\* The tick goes on to the next issue: what is left to serve is as before.
LEMMA ServedOn ==
  ASSUME IInv, NEW i \in Issues, tick.pc \in {"serving", "gate", "gated"} \union Merges,
         NEW ok, tick' = Served(i) \/ tick' = [Served(i) EXCEPT !.ok = ok],
         \A k \in Issues \ {i} : /\ Busy(k)' => Busy(k)
                                 /\ board'[k] = "Done" => board[k] = "Done"
  PROVE  TickInv'
<1>1. /\ tick'.pc = "serving" /\ tick'.todo = tick.todo \ {i} /\ tick'.metas = tick.metas
      /\ tick.todo \subseteq Issues
  BY DEF IInv, TypeInv, TickType, Served
<1>2. ServingInv'
  BY <1>1 DEF IInv, TickInv, ServingInv
<1> QED
  BY <1>1, <1>2 DEF TickInv, WritingInv, ReadingInv, GateInv, MergeInv, Merges

\* Between two ticks the copies matter to nobody.
LEMMA TickOver ==
  ASSUME tick' = NoTick \/ tick' = [NoTick EXCEPT !.pc = "idle"]
  PROVE  TickInv' /\ tick'.pc \in {"off", "idle"}
<1>1. tick'.pc \in {"off", "idle"}
  BY DEF NoTick
<1> QED
  BY <1>1 DEF TickInv, WritingInv, ReadingInv, ServingInv, GateInv, MergeInv, Merges

\* The listing and the copies of meta.json.
LEMMA ListBoard ==
  ASSUME IInv, TypeInv',
         TickLists \/ TickReads \/ TickEnds \/ \E i \in Issues : TickWrites(i)
  PROVE  BoardInv' /\ TickInv'
<1>0. CardType /\ TickType /\ BoardInv /\ TickInv
  BY DEF IInv, TypeInv
<1>1. UNCHANGED <<phase, step, board, runtime>>
  BY DEF TickLists, TickReads, TickEnds, TickWrites, run, meta, project
<1>2. \A k \in Issues : Busy(k)' = Busy(k)
  BY <1>1 DEF Busy
<1>3. ASSUME UNCHANGED local
      PROVE  BoardInv'
  BY <1>0, <1>1, <1>2, <1>3 DEF BoardInv, CardInv
<1>4. CASE TickLists
  <2>1. /\ tick'.pc = "writing" /\ tick'.view = board /\ tick'.todo = Issues /\ UNCHANGED local
    BY <1>0, <1>4 DEF TickLists, TickType, meta
  <2>2. WritingInv'
    <3>1. "Merging" \notin Undelivered
      BY DEF Undelivered
    <3> QED
      BY <1>0, <1>1, <1>2, <2>1, <3>1 DEF WritingInv, BoardInv, CardInv
  <2> QED
    BY <1>3, <2>1, <2>2 DEF TickInv, ReadingInv, ServingInv, GateInv, MergeInv, Merges
<1>5. CASE TickReads
  <2>1. /\ tick'.pc = "serving" /\ tick'.metas = local /\ tick'.todo = Issues /\ UNCHANGED local
        /\ tick.pc = "reading"
    BY <1>0, <1>5 DEF TickReads, TickType, meta
  <2>2. ServingInv'
    BY <1>0, <1>1, <1>2, <2>1 DEF TickInv, ReadingInv, ServingInv, BoardInv, CardInv
  <2> QED
    BY <1>3, <2>1, <2>2 DEF TickInv, WritingInv, ReadingInv, GateInv, MergeInv, Merges
<1>6. CASE TickEnds
  BY <1>3, <1>6, TickOver DEF TickEnds, meta
<1>7. ASSUME NEW i \in Issues, TickWrites(i)
      PROVE  BoardInv' /\ TickInv'
  <2>1. /\ tick.pc = "writing" /\ i \in tick.todo /\ tick'.view = tick.view
        /\ tick'.todo = tick.todo \ {i}
        /\ tick'.pc = IF tick.todo = {i} THEN "reading" ELSE "writing"
    BY <1>0, <1>7 DEF TickWrites, TickType
  <2>2. \A k \in Issues : local'[k] = IF k = i THEN Resolved(i) ELSE local[k]
    BY <1>0, <1>7 DEF TickWrites, CardType
  <2>3. /\ Resolved(i) = "Merging" => tick.view[i] = "Merging"
        /\ tick.view[i] = "Done" => Resolved(i) = "Done"
    BY DEF Resolved
  <2>4. BoardInv'
    BY <1>0, <1>1, <1>2, <2>1, <2>2, <2>3 DEF BoardInv, CardInv, TickInv, WritingInv
  <2>5. \A k \in Issues : k \notin tick'.todo /\ local'[k] = "Merging" => ~Busy(k)
    BY <1>0, <2>1, <2>2, <2>3 DEF TickInv, WritingInv
  <2>6. WritingInv'
    BY <1>0, <1>1, <1>2, <2>1, <2>5 DEF TickInv, WritingInv
  <2>7. ReadingInv'
    BY <1>2, <2>1, <2>5 DEF ReadingInv
  <2> QED
    BY <2>1, <2>4, <2>6, <2>7 DEF TickInv, ServingInv, GateInv, MergeInv, Merges
<1> QED
  BY <1>4, <1>5, <1>6, <1>7

\* The dispatch of an issue, up to the queue.
LEMMA DispatchBoard ==
  ASSUME IInv, TypeInv',
         TickReadsGate \/ TickDispatches \/ \E i \in Issues : TickSkips(i) \/ TickAsksGate(i)
  PROVE  BoardInv' /\ TickInv'
<1>0. CardType /\ TickType /\ RunType /\ BoardInv /\ TickInv
  BY DEF IInv, TypeInv
<1>1. ASSUME UNCHANGED <<phase, step, board, meta>>
      PROVE  BoardInv' /\ \A k \in Issues : Busy(k)' = Busy(k)
  BY <1>0, <1>1 DEF BoardInv, CardInv, Busy, meta
<1>2. ASSUME NEW i \in Issues, TickSkips(i)
      PROVE  BoardInv' /\ TickInv'
  <2>1. /\ UNCHANGED <<phase, step, board, meta>> /\ tick' = Served(i) /\ tick.pc = "serving"
    BY <1>2 DEF TickSkips, Serving, run, project
  <2> QED
    BY <1>1, <2>1, ServedOn
<1>3. ASSUME NEW i \in Issues, TickAsksGate(i)
      PROVE  BoardInv' /\ TickInv'
  <2>1. /\ UNCHANGED <<phase, step, board, meta>> /\ tick.pc = "serving" /\ i \in tick.todo
        /\ tick.metas[i] \in DispatchStates /\ ~Active(i)
    BY <1>3 DEF TickAsksGate, Serving, run, project
  <2>2. /\ tick'.pc = "gate" /\ tick'.at = i /\ tick'.todo = tick.todo /\ tick'.metas = tick.metas
    BY <1>0, <1>3 DEF TickAsksGate, TickType
  <2>3. phase[i] = "idle"
    BY <1>0, <2>1 DEF Active, IsRunning, IsQueued, RunType
  <2>4. GateInv'
    BY <2>1, <2>2, <2>3 DEF GateInv
  <2>5. ServingInv'
    BY <1>0, <1>1, <2>1, <2>2 DEF TickInv, ServingInv, TickType
  <2> QED
    BY <1>1, <2>1, <2>2, <2>4, <2>5 DEF TickInv, WritingInv, ReadingInv, MergeInv, Merges
<1>4. CASE TickReadsGate
  <2>1. /\ UNCHANGED <<phase, step, board, meta>> /\ tick.pc = "gate"
    BY <1>4 DEF TickReadsGate, AtIssue, run, project
  <2>2. /\ tick'.pc = "gated" /\ tick'.at = tick.at /\ tick'.todo = tick.todo
        /\ tick'.metas = tick.metas
        /\ tick'.ok => board[tick.at] = tick.metas[tick.at]
    BY <1>0, <1>4 DEF TickReadsGate, TickType, GateOpen
  <2>3. DispatchStates \subseteq Undelivered
    BY DEF DispatchStates, Undelivered, State
  <2>4. GateInv'
    BY <1>0, <2>1, <2>2, <2>3 DEF TickInv, GateInv
  <2>5. ServingInv'
    BY <1>0, <1>1, <2>1, <2>2 DEF TickInv, ServingInv, TickType
  <2> QED
    BY <1>1, <2>1, <2>2, <2>4, <2>5 DEF TickInv, WritingInv, ReadingInv, MergeInv, Merges
<1>5. CASE TickDispatches
  <2>1. /\ UNCHANGED <<step, local, board>> /\ tick.pc = "gated" /\ tick.at \in Issues
        /\ tick' = [Served(tick.at) EXCEPT !.ok = FALSE]
        /\ EnqueueAll(IF tick.ok THEN {tick.at} ELSE {})
    BY <1>0, <1>5 DEF TickDispatches, AtIssue, project, TickType
  <2>2. \A k \in Issues :
          \/ phase'[k] = phase[k] /\ runtime'[k] = runtime[k]
          \/ k = tick.at /\ tick.ok
    BY <2>1, EnqueueEffect DEF IInv
  <2>3. \A k \in Issues \ {tick.at} : Busy(k)' = Busy(k)
    BY <2>1, <2>2 DEF Busy
  <2>4. tick.ok => board[tick.at] \in Undelivered
    BY <1>0, <2>1 DEF TickInv, GateInv
  <2>5. ASSUME NEW k \in Issues PROVE CardInv(k)'
    <3>1. "Done" \notin Undelivered
      BY DEF Undelivered
    <3>2. CASE phase'[k] = phase[k] /\ runtime'[k] = runtime[k]
      BY <1>0, <2>1, <3>2 DEF BoardInv, CardInv, Busy
    <3>3. CASE k = tick.at /\ tick.ok
      BY <1>0, <2>1, <2>4, <3>1, <3>3 DEF BoardInv, CardInv
    <3> QED
      BY <2>2, <3>2, <3>3
  <2>6. TickInv'
    BY <2>1, <2>3, ServedOn
  <2> QED
    BY <2>5, <2>6 DEF BoardInv
<1> QED
  BY <1>2, <1>3, <1>4, <1>5

\* The scheduler reconciles an issue that it listed In Progress.
LEMMA ReconcileBoard ==
  ASSUME IInv, TypeInv', NEW i \in Issues, TickReconciles(i)
  PROVE  BoardInv' /\ TickInv'
<1>0. BoardInv
  BY DEF IInv
<1>1. /\ UNCHANGED <<phase, step>> /\ tick' = Served(i) /\ tick.pc = "serving"
  BY DEF TickReconciles, Serving, run
<1>2. \A k \in Issues : Busy(k)' = Busy(k)
  BY <1>1 DEF Busy
<1>3. \A k \in Issues :
        \/ local'[k] = local[k] /\ runtime'[k] = runtime[k] /\ board'[k] = board[k]
        \/ local'[k] = local[k] /\ local[k] = "In Progress" /\ board'[k] = board[k]
        \/ local'[k] = "Rework" /\ runtime'[k] = "" /\ board'[k] \in {board[k], "Rework"}
  BY ReconcileEffect DEF TickReconciles, IInv
<1>4. "Rework" \in Undelivered
  BY DEF Undelivered, State
<1>5. BoardInv'
  BY <1>0, <1>2, <1>3, <1>4 DEF BoardInv, CardInv
<1>6. \A k \in Issues : board'[k] = "Done" => board[k] = "Done"
  BY <1>3
<1> QED
  BY <1>1, <1>2, <1>5, <1>6, ServedOn

\* _mark_merging_blocked, for an issue that no run writes.
LEMMA MarkBoard ==
  ASSUME IInv, TypeInv', NEW i \in tick.todo, MarkBlocked(i),
         tick.pc \in {"serving"} \union Merges,
         ~Busy(i), board[i] # "Done"
  PROVE  BoardInv' /\ TickInv'
<1>0. CardType /\ TickType /\ BoardInv /\ TickInv
  BY DEF IInv, TypeInv
<1>1. UNCHANGED <<phase, step, board>> /\ i \in Issues
  BY <1>0 DEF MarkBlocked, run, project, TickType
<1>2. \A k \in Issues : Busy(k)' = Busy(k)
  BY <1>1 DEF Busy
<1>3. /\ tick'.pc = "blocked" /\ tick'.at = i /\ tick'.todo = tick.todo /\ tick'.metas = tick.metas
  BY <1>0 DEF MarkBlocked, TickType
<1>4. \A k \in Issues : \/ local'[k] = local[k] /\ runtime'[k] = runtime[k]
                        \/ local'[k] = "Blocked" /\ runtime'[k] = ""
  BY <1>0, <1>1 DEF MarkBlocked, SetMeta, CardType
<1>5. BoardInv'
  BY <1>0, <1>1, <1>2, <1>4 DEF BoardInv, CardInv
<1>6. ServingInv'
  BY <1>0, <1>1, <1>2, <1>3 DEF TickInv, ServingInv, TickType
<1>7. MergeInv'
  BY <1>1, <1>2, <1>3 DEF MergeInv
<1> QED
  BY <1>3, <1>5, <1>6, <1>7 DEF TickInv, WritingInv, ReadingInv, GateInv

\* The merge of an issue, up to the write of the Project.
LEMMA MergeBoard ==
  ASSUME IInv, TypeInv',
         MergeStatus \/ MergeCall \/ MergeRecorded \/ \E i \in Issues : MergeStarts(i)
  PROVE  BoardInv' /\ TickInv'
<1>0. CardType /\ TickType /\ BoardInv /\ TickInv
  BY DEF IInv, TypeInv
<1>a. tick.todo \subseteq Issues
  BY <1>0 DEF TickType
<1>1. ASSUME NEW i \in tick.todo, NEW pc \in Merges \ {"done"},
             tick.pc \in {"serving"} \union Merges, ~Busy(i), board[i] # "Done",
             UNCHANGED <<run, meta, project>>, tick' = [tick EXCEPT !.pc = pc, !.at = i]
      PROVE  BoardInv' /\ TickInv'
  <2>1. UNCHANGED <<phase, step, board, local, runtime>>
    BY <1>1 DEF run, meta, project
  <2>2. \A k \in Issues : Busy(k)' = Busy(k)
    BY <2>1 DEF Busy
  <2>3. tick'.pc = pc /\ tick'.at = i /\ tick'.todo = tick.todo /\ tick'.metas = tick.metas
    BY <1>0, <1>1 DEF TickType
  <2>4. BoardInv'
    BY <1>0, <2>1, <2>2 DEF BoardInv, CardInv
  <2>5. ServingInv'
    BY <1>0, <1>1, <1>a, <2>1, <2>2, <2>3 DEF TickInv, ServingInv
  <2>6. MergeInv'
    BY <1>1, <1>a, <2>1, <2>2, <2>3 DEF MergeInv
  <2> QED
    BY <1>1, <2>3, <2>4, <2>5, <2>6 DEF TickInv, WritingInv, ReadingInv, GateInv, Merges
<1>2. ASSUME NEW i \in Issues, MergeStarts(i)
      PROVE  BoardInv' /\ TickInv'
  <2>1. tick.pc = "serving" /\ i \in tick.todo /\ tick.metas[i] = "Merging"
    BY <1>2 DEF MergeStarts, Serving
  <2>2. ~Busy(i) /\ board[i] # "Done"
    BY <1>0, <2>1 DEF TickInv, ServingInv
  <2>3. CASE MarkBlocked(i)
    BY <2>1, <2>2, <2>3, MarkBoard
  <2>4. CASE UNCHANGED <<run, meta, project>> /\ tick' = [tick EXCEPT !.pc = "status", !.at = i]
    BY <1>1, <2>1, <2>2, <2>4 DEF Merges
  <2> QED
    BY <1>2, <2>3, <2>4 DEF MergeStarts
<1>b. ASSUME tick.pc \in Merges
      PROVE  /\ tick.at \in tick.todo /\ tick.at \in Issues
             /\ ~Busy(tick.at) /\ board[tick.at] # "Done"
  BY <1>0, <1>a, <1>b DEF TickInv, MergeInv
<1>3. CASE MergeStatus \/ MergeCall
  <2>1. tick.pc \in {"status", "merge"} /\ tick.pc \in Merges
    BY <1>3 DEF MergeStatus, MergeCall, AtIssue, Merges
  <2>2. CASE MarkBlocked(tick.at)
    BY <1>b, <2>1, <2>2, MarkBoard
  <2>3. CASE UNCHANGED <<run, meta, project>> /\ tick' = Served(tick.at)
    <3>1. UNCHANGED <<phase, step, board, local, runtime>>
      BY <2>3 DEF run, meta, project
    <3>2. BoardInv'
      BY <1>0, <3>1 DEF BoardInv, CardInv, Busy
    <3>3. TickInv'
      BY <1>b, <2>1, <2>3, <3>1, ServedOn DEF Busy
    <3> QED
      BY <3>2, <3>3
  <2>4. CASE /\ UNCHANGED <<run, meta, project>>
             /\ \E pc \in {"merge", "merged"} : tick' = [tick EXCEPT !.pc = pc]
    <3>1. PICK pc \in {"merge", "merged"} : tick' = [tick EXCEPT !.pc = pc]
      BY <2>4
    <3>2. tick' = [tick EXCEPT !.pc = pc, !.at = tick.at]
      BY <1>0, <3>1 DEF TickType
    <3>3. pc \in Merges \ {"done"}
      BY DEF Merges
    <3> QED
      BY <1>1, <1>b, <2>1, <2>4, <3>2, <3>3
  <2> QED
    BY <1>3, <2>2, <2>3, <2>4 DEF MergeStatus, MergeCall
<1>4. CASE MergeRecorded
  <2>1. tick.pc \in Merges /\ UNCHANGED <<phase, step, board>>
    BY <1>4 DEF MergeRecorded, AtIssue, Merges, run, project
  <2>2. \A k \in Issues : Busy(k)' = Busy(k)
    BY <2>1 DEF Busy
  <2>3. /\ tick'.pc = "done" /\ tick'.at = tick.at
        /\ tick'.todo = tick.todo /\ tick'.metas = tick.metas
    BY <1>0, <1>4 DEF MergeRecorded, TickType
  <2>4. /\ local'[tick.at] = "Done" /\ runtime'[tick.at] = ""
        /\ \A k \in Issues \ {tick.at} : local'[k] = local[k] /\ runtime'[k] = runtime[k]
    BY <1>0, <1>4, <1>b, <2>1 DEF MergeRecorded, SetMeta, CardType
  <2>5. BoardInv'
    BY <1>0, <2>1, <2>2, <2>4 DEF BoardInv, CardInv
  <2>6. ServingInv'
    BY <1>0, <1>a, <2>1, <2>2, <2>3 DEF TickInv, ServingInv
  <2>7. MergeInv'
    BY <1>b, <2>1, <2>2, <2>3, <2>4 DEF MergeInv
  <2> QED
    BY <2>3, <2>5, <2>6, <2>7 DEF TickInv, WritingInv, ReadingInv, GateInv
<1> QED
  BY <1>2, <1>3, <1>4

\* The Project is told of a merge, or that there is none.
LEMMA ReportBoard ==
  ASSUME IInv, TypeInv', MergeReported \/ BlockedReported
  PROVE  BoardInv' /\ TickInv'
<1>0. CardType /\ TickType /\ BoardInv /\ TickInv
  BY DEF IInv, TypeInv
<1>1. /\ tick.pc \in {"done", "blocked"} /\ tick.pc \in Merges
      /\ UNCHANGED <<phase, step, local, runtime>>
  BY DEF MergeReported, BlockedReported, AtIssue, Merges, run, meta
<1>2. tick.at \in Issues /\ ~Busy(tick.at) /\ board[tick.at] # "Done"
  BY <1>0, <1>1 DEF TickInv, MergeInv, TickType
<1>3. \A k \in Issues : Busy(k)' = Busy(k)
  BY <1>1 DEF Busy
<1>4. \A k \in Issues \ {tick.at} : board'[k] = board[k]
  BY <1>0, <1>2 DEF MergeReported, BlockedReported, BestEffort, CardType
<1>5. board'[tick.at] = "Done" => tick.pc = "done"
  BY <1>0, <1>1, <1>2 DEF MergeReported, BlockedReported, BestEffort, CardType, AtIssue
<1>6. BoardInv'
  BY <1>0, <1>1, <1>2, <1>3, <1>4, <1>5 DEF BoardInv, CardInv, TickInv, MergeInv
<1>7. CASE tick' = Served(tick.at)
  <2>1. TickInv'
    BY <1>1, <1>2, <1>3, <1>4, <1>7, ServedOn
  <2> QED
    BY <1>6, <2>1
<1>8. CASE tick' = [NoTick EXCEPT !.pc = "idle"]
  BY <1>6, <1>8, TickOver
<1> QED
  BY <1>7, <1>8 DEF MergeReported, BlockedReported

\* A step of the scheduler.
LEMMA TickBoard ==
  ASSUME IInv, TypeInv', TickStep
  PROVE  BoardInv' /\ TickInv' /\ BootInv'
<1>1. BootInv'
  BY TickWhenReady
<1> QED
  BY <1>1, ListBoard, DispatchBoard, ReconcileBoard, MergeBoard, ReportBoard DEF TickStep

\* A step of the first restart of the process.
LEMMA BootBoard ==
  ASSUME ~Reconnects, IInv, TypeInv', BootStep
  PROVE  BoardInv' /\ TickInv' /\ BootInv'
<1>0. CardType /\ BootType /\ TickType /\ BoardInv /\ BootInv
  BY DEF IInv, TypeInv
<1>1. boot.pc # "ready" /\ tick.pc = "off" /\ \A k \in Issues : phase[k] = "idle"
  <2>1. boot.pc # "ready"
    BY DEF Reconnects, BootStep, BootBegins, RestoreReported, BootEnds,
           RestoreInProgress, RestoreGate, Restoring
  <2> QED
    BY <1>0, <2>1 DEF BootInv
<1>a. {"Rework", "Ready"} \subseteq Undelivered /\ "Done" \notin Undelivered
  BY DEF Undelivered, State
<1>2. ASSUME UNCHANGED <<phase, step, tick>>
      PROVE  TickInv' /\ \A k \in Issues : Busy(k)' = Busy(k)
  BY <1>1, <1>2 DEF TickInv, WritingInv, ReadingInv, ServingInv, GateInv, MergeInv, Merges, Busy
<1>3. CASE BootBegins
  <2>1. UNCHANGED <<phase, step, tick, board, local, runtime>>
    BY <1>3 DEF BootBegins, run, meta, project
  <2>2. boot'.pc = "scan" /\ boot'.metas = local /\ boot'.items = {} /\ boot'.todo \subseteq Issues
    BY <1>3 DEF BootBegins, NoBoot
  <2>3. BoardInv'
    BY <1>0, <1>2, <2>1 DEF BoardInv, CardInv
  <2>4. BootInv'
    BY <1>0, <1>1, <2>1, <2>2 DEF BootInv, BoardInv, CardInv
  <2> QED
    BY <1>2, <2>1, <2>3, <2>4
<1>4. CASE RestoreReported
  <2>1. UNCHANGED <<phase, step, tick, local, runtime>> /\ boot.pc = "rework"
    BY <1>4 DEF RestoreReported, run, meta
  <2>2. \A k \in Issues : board'[k] \in {board[k], "Rework"}
    BY <1>0, <1>4 DEF RestoreReported, BestEffort, CardType
  <2>3. /\ boot'.pc = "scan" /\ boot'.metas = boot.metas /\ boot'.items = boot.items
        /\ boot'.todo \subseteq boot.todo /\ boot.todo \subseteq Issues
        /\ boot.items \subseteq Issues
    BY <1>0, <1>4 DEF RestoreReported, Restored, BootType
  <2>4. BoardInv'
    BY <1>0, <1>2, <1>a, <2>1, <2>2 DEF BoardInv, CardInv
  <2>5. BootInv'
    BY <1>0, <1>1, <1>a, <2>1, <2>2, <2>3 DEF BootInv
  <2> QED
    BY <1>2, <2>1, <2>4, <2>5
<1>5. ASSUME NEW i \in Issues, RestoreInProgress(i)
      PROVE  BoardInv' /\ TickInv' /\ BootInv'
  <2>1. UNCHANGED <<phase, step, tick, board>> /\ boot.pc = "scan" /\ i \in boot.todo
        /\ boot.metas[i] = "In Progress"
    BY <1>5 DEF RestoreInProgress, Restoring, run, project
  <2>2. UNCHANGED meta \/ SetMeta(i, "Rework", "")
    BY <1>5 DEF RestoreInProgress
  <2>3. \A k \in Issues : \/ local'[k] = local[k] /\ runtime'[k] = runtime[k]
                          \/ local'[k] = "Rework" /\ runtime'[k] = ""
    BY <1>0, <2>2 DEF SetMeta, meta, CardType
  <2>4. /\ boot'.pc = "scan" \/ (boot'.pc = "rework" /\ boot'.at = i)
        /\ boot'.metas = boot.metas /\ boot'.items = boot.items
        /\ boot'.todo \subseteq boot.todo /\ boot.todo \subseteq Issues
        /\ boot.items \subseteq Issues
    BY <1>0, <1>5 DEF RestoreInProgress, Restored, BootType
  <2>5. BoardInv'
    BY <1>0, <1>2, <2>1, <2>3 DEF BoardInv, CardInv
  <2>6. BootInv'
    BY <1>0, <1>1, <2>1, <2>4 DEF BootInv
  <2> QED
    BY <1>2, <2>1, <2>5, <2>6
<1>6. ASSUME NEW i \in Issues, RestoreGate(i)
      PROVE  BoardInv' /\ TickInv' /\ BootInv'
  <2>1. UNCHANGED <<phase, step, tick, board, local, runtime>> /\ boot.pc = "scan"
    BY <1>6 DEF RestoreGate, Restoring, run, meta, project
  <2>2. PICK g : g = Restored(i)
    OBVIOUS
  <2>3. /\ g.pc = "scan" /\ g.metas = boot.metas /\ g.items = boot.items
        /\ g.todo = boot.todo \ {i} /\ boot.todo \subseteq Issues /\ boot.items \subseteq Issues
        /\ g \in [pc : BootPc, metas : [Issues -> State], todo : SUBSET Issues,
                  at : Issues, items : SUBSET Issues]
    BY <1>0, <2>2 DEF Restored, BootType, BootPc
  <2>4. \/ boot' = g
        \/ boot' = [g EXCEPT !.items = g.items]
        \/ boot' = [g EXCEPT !.items = g.items \union {i}] /\ board[i] \in DispatchStates
    BY <1>6, <2>2 DEF RestoreGate, GateOpen
  <2>5. /\ boot'.pc = "scan" /\ boot'.metas = boot.metas /\ boot'.todo \subseteq boot.todo
        /\ boot'.items \subseteq boot.items \union {i}
    BY <2>3, <2>4
  <2>6. i \in boot'.items => i \in boot.items \/ board[i] \in Undelivered
    BY <1>a, <2>3, <2>4 DEF DispatchStates
  <2>7. BoardInv'
    BY <1>0, <1>2, <2>1 DEF BoardInv, CardInv
  <2>8. BootInv'
    BY <1>0, <1>1, <2>1, <2>3, <2>5, <2>6 DEF BootInv
  <2> QED
    BY <1>2, <2>1, <2>7, <2>8
<1>7. CASE BootEnds
  <2>1. UNCHANGED <<step, board, local>> /\ boot.pc = "scan" /\ boot.items \subseteq Issues
    BY <1>0, <1>7 DEF BootEnds, project, BootType
  <2>2. boot'.pc = "ready"
    BY <1>7 DEF BootEnds, NoBoot
  <2>3. tick'.pc = "idle"
    BY <1>0, <1>1, <1>7 DEF BootEnds, TickType
  <2>4. \A k \in Issues : \/ phase'[k] = phase[k] /\ runtime'[k] = runtime[k]
                          \/ k \in boot.items
    BY <1>7, EnqueueEffect DEF BootEnds, IInv
  <2>5. ASSUME NEW k \in Issues PROVE CardInv(k)'
    <3>1. CASE phase'[k] = phase[k] /\ runtime'[k] = runtime[k]
      BY <1>0, <2>1, <3>1 DEF BoardInv, CardInv, Busy
    <3>2. CASE k \in boot.items
      BY <1>0, <1>a, <2>1, <3>2 DEF BootInv, BoardInv, CardInv
    <3> QED
      BY <2>4, <3>1, <3>2
  <2> QED
    BY <2>2, <2>3, <2>5
    DEF BoardInv, BootInv, TickInv, WritingInv, ReadingInv, ServingInv, GateInv, MergeInv, Merges
<1> QED
  BY <1>3, <1>4, <1>5, <1>6, <1>7 DEF BootStep

\* The bot dies: no run is left, and the restart has everything before it.
LEMMA CrashBoard ==
  ASSUME IInv, Crash
  PROVE  BoardInv' /\ TickInv' /\ BootInv'
<1>1. /\ \A k \in Issues : phase'[k] = "idle" /\ step'[k] = "none"
      /\ UNCHANGED <<local, runtime, board>>
  BY DEF Crash, meta, project
<1>2. TickInv' /\ tick'.pc = "off"
  <2>1. tick' = NoTick
    BY DEF Crash
  <2> QED
    BY <2>1, TickOver DEF NoTick
<1>3. boot'.pc = "off"
  BY DEF Crash, NoBoot
<1>4. BoardInv'
  BY <1>1 DEF IInv, BoardInv, CardInv, Busy
<1> QED
  BY <1>1, <1>2, <1>3, <1>4 DEF BootInv

\* The invariant holds at the start.
LEMMA InitIInv == Init => IInv
<1> SUFFICES ASSUME Init PROVE IInv
  OBVIOUS
<1>1. tick.pc = "off" /\ boot.pc = "off"
  BY DEF Init, NoTick, NoBoot
<1>2. \A k \in Issues : /\ phase[k] = "idle" /\ step[k] = "none" /\ verdict[k] = "Rework"
                        /\ board[k] = "Ready" /\ ~(agents[k] > 0)
  <2>1. \A k \in Issues : /\ phase[k] = "idle" /\ step[k] = "none" /\ verdict[k] = "Rework"
                          /\ board[k] = "Ready" /\ agents[k] = 0
    BY DEF Init
  <2>2. ~(0 > 0)
    OBVIOUS
  <2> QED
    BY <2>1, <2>2
<1>3. RunsExact
  BY <1>2 DEF RunsExact
<1>4. BoardInv
  BY <1>2 DEF BoardInv, CardInv, Busy
<1>5. TickInv /\ BootInv
  BY <1>1, <1>2
  DEF TickInv, WritingInv, ReadingInv, ServingInv, GateInv, MergeInv, Merges, BootInv
<1> QED
  BY <1>3, <1>4, <1>5, InitTypes DEF IInv

\* A stuttering step keeps the invariant.
LEMMA UnchangedIInv ==
  ASSUME IInv, UNCHANGED vars
  PROVE  IInv'
<1>1. UNCHANGED <<phase, step, verdict, agents, local, runtime, board, tick, boot>>
  BY DEF vars, run, processes, meta, project
<1>2. TypeInv'
  BY NextTypes DEF IInv
<1>3. RunsExact /\ BoardInv /\ TickInv /\ BootInv
  BY DEF IInv
<1>4. RunsExact'
  BY <1>1, <1>3 DEF RunsExact
<1>5. BoardInv'
  BY <1>1, <1>3 DEF BoardInv, CardInv, Busy
<1>6. WritingInv' /\ ReadingInv'
  BY <1>1, <1>3 DEF TickInv, WritingInv, ReadingInv, Busy
<1>7. ServingInv'
  BY <1>1, <1>3 DEF TickInv, ServingInv, Busy
<1>8. GateInv'
  BY <1>1, <1>3 DEF TickInv, GateInv
<1>9. MergeInv'
  BY <1>1, <1>3 DEF TickInv, MergeInv, Busy
<1>10. BootInv'
  BY <1>1, <1>3 DEF BootInv
<1> QED
  BY <1>2, <1>4, <1>5, <1>6, <1>7, <1>8, <1>9, <1>10 DEF IInv, TickInv

\* Every step keeps the invariant but the second on_ready of a process.
LEMMA NextIInv ==
  ASSUME IInv, [Next]_vars, ~Reconnects
  PROVE  IInv'
<1>1. TypeInv'
  BY NextTypes DEF IInv
<1>2. CASE UNCHANGED vars
  BY <1>2, UnchangedIInv
<1>3. CASE Next
  <2>1. RunsExact'
    BY <1>1, <1>3, RunsExactKept DEF IInv
  <2>2. BoardInv' /\ TickInv' /\ BootInv'
    BY <1>1, <1>3, TickBoard, BootBoard, CrashBoard, RunBoard, ProcessBoard,
       PeopleBoard DEF Next
  <2> QED
    BY <1>1, <2>1, <2>2 DEF IInv
<1> QED
  BY <1>2, <1>3

-----------------------------------------------------------------------------
\* Nobody but a late /abort takes a card out of Done.
LEMMA StepKeepsDone ==
  ASSUME IInv, NEW i \in Issues, board[i] = "Done", Next
  PROVE  board'[i] = "Done" \/ AbortReports(i)
<1>0. CardType /\ BoardInv /\ TickInv /\ BootInv
  BY DEF IInv, TypeInv
<1>1. ~Busy(i) /\ local[i] # "In Progress" /\ runtime[i] = ""
  BY <1>0 DEF BoardInv, CardInv, Undelivered
<1>2. CASE Crash
  BY <1>2 DEF Crash, project
<1>3. CASE BootStep
  <2>1. CASE RestoreReported
    <3>1. boot.at # i
      BY <1>0, <2>1 DEF BootInv, RestoreReported
    <3> QED
      BY <1>0, <2>1, <3>1 DEF RestoreReported, BestEffort, CardType
  <2>2. CASE UNCHANGED board
    BY <2>2
  <2> QED
    BY <1>3, <2>1, <2>2 DEF BootStep, BootBegins, BootEnds, RestoreInProgress, RestoreGate, project
<1>4. CASE TickStep
  <2>1. CASE MergeReported
    <3>1. board'[i] \in {board[i], "Done"}
      BY <1>0, <2>1 DEF MergeReported, CardType
    <3> QED
      BY <3>1
  <2>2. CASE BlockedReported
    <3>1. tick.at # i
      BY <1>0, <2>2 DEF TickInv, MergeInv, Merges, BlockedReported, AtIssue
    <3> QED
      BY <1>0, <2>2, <3>1 DEF BlockedReported, BestEffort, CardType
  <2>3. ASSUME NEW k \in Issues, TickReconciles(k) PROVE board'[i] = "Done"
    BY <1>1, <2>3, ReconcileEffect DEF TickReconciles, IInv
  <2>4. CASE UNCHANGED board
    BY <2>4
  <2> QED
    BY <1>4, <2>1, <2>2, <2>3, <2>4
    DEF TickStep, TickLists, TickReads, TickReadsGate, TickDispatches, TickEnds, MergeStatus,
        MergeCall, MergeRecorded, TickWrites, TickSkips, TickAsksGate, MergeStarts, MarkBlocked,
        project
<1>5. ASSUME NEW k \in Issues,
             \/ RunBegins(k) \/ RunAdvances(k) \/ RunDecides(k) \/ RunRaises(k)
             \/ AgentStarts(k) \/ AgentExits(k) \/ StrayStep(k)
             \/ AbortKills(k) \/ AbortMarks(k)
      PROVE  board'[i] = "Done"
  <2>1. CASE RunAnnounced(k) \/ RunReports(k)
    <3>1. Busy(k)
      BY <2>1 DEF RunAnnounced, RunReports, Busy
    <3> QED
      BY <1>0, <1>1, <2>1, <3>1 DEF RunAnnounced, RunReports, CardType
  <2>2. CASE UNCHANGED board
    BY <2>2
  <2> QED
    BY <1>5, <2>1, <2>2
    DEF RunBegins, RunAdvances, RunAnnounces, RunCompletes, RunEnds, RunDecides, RunFails,
        RunPublishes, RunRaises, AgentStarts, AgentExits, StrayStep, DetachedStarts, DetachedEnds,
        StrayExits, AbortKills, AbortMarks, project
<1>6. ASSUME NEW k \in Issues, AbortReports(k) \/ StatusCommand(k) \/ Human(k)
      PROVE  board'[i] = "Done" \/ AbortReports(i)
  <2>1. CASE AbortReports(k)
    BY <1>0, <2>1 DEF AbortReports, BestEffort, CardType
  <2>2. CASE StatusCommand(k)
    BY <1>1, <2>2, ReconcileEffect DEF StatusCommand, IInv
  <2>3. CASE Human(k)
    BY <1>0, <2>3 DEF Human, HumanMoves, HumanPlans, MoveOf, CardType
  <2> QED
    BY <1>6, <2>1, <2>2, <2>3
<1> QED
  BY <1>2, <1>3, <1>4, <1>5, <1>6 DEF Next

\* Unless on_ready can come twice, a card that is Done stays Done, whatever
\* the copies of the scheduler, a restart or people do; only an /abort that
\* was given before the merge may still take it out.
THEOREM DoneIsFinalHolds ==
  ASSUME NoReconnect
  PROVE  Spec => DoneIsFinal
<1>1. IInv /\ [Next]_vars =>
        [\A i \in Issues : board[i] = "Done" => board'[i] = "Done" \/ AbortReports(i)]_vars
  BY StepKeepsDone
<1>2. ~Reconnects
  BY NoReconnect DEF NoReconnect, Reconnects, BootBegins, Interrupt
<1>3. IInv /\ [Next]_vars => IInv'
  BY <1>2, NextIInv
<1> QED
  BY InitIInv, <1>1, <1>3, PTL DEF Spec, DoneIsFinal

(***************************************************************************)
(* A process that belongs to no run was left behind by a crash.  While no  *)
(* /abort has been given, the card of such an issue says In Progress and   *)
(* so keeps the scheduler and the restart away from it.                    *)
(***************************************************************************)
Harmless ==
  /\ \A i \in Issues : strays[i] = 0
  /\ "crash" \notin Interruptions \/ left.interruptions = 0

KeptAway(i) ==
  /\ phase[i] = "idle"
  /\ i \notin boot.items
  /\ tick.pc \in {"gate", "gated"} \union Merges => tick.at # i
  /\ boot.pc = "rework" => boot.at # i

TrackedAt(i) ==
  /\ abort[i] = "none"
  /\ step[i] = "work" \/ strays[i] > 0 => board[i] = "In Progress"
  /\ strays[i] > 0 => KeptAway(i)
Tracked == \A i \in Issues : TrackedAt(i)

StrayInv ==
  /\ TypeInv
  /\ \A i \in Issues : detached[i] = 0
  /\ \A i \in Issues :
       strays[i] > 0 => "crash" \in Interruptions /\ left.interruptions < MaxInterruptions
  /\ Harmless \/ (IInv /\ Tracked)

OneCandidate == Candidates = 1
CrashAlone ==
  "crash" \in Interruptions => Interruptions = {"crash"} \/ MaxInterruptions <= 1

\* Every step but those that raise or interrupt leaves the bound of the
\* interruptions, and none raises it.
LEMMA LeftFalls ==
  ASSUME TypeInv, Next
  PROVE  left'.interruptions <= left.interruptions
<1>0. left \in [moves : 0..MaxMoves, faults : 0..MaxFaults, interruptions : 0..MaxInterruptions]
  BY DEF TypeInv, LeftType
<1>1. left.interruptions \in Nat
  <2>1. MaxInterruptions \in Nat /\ left.interruptions \in 0..MaxInterruptions
    BY <1>0, IssueRuntimeAssumption
  <2> QED
    BY <2>1
<1>2. ASSUME NEW w \in {"moves", "faults", "interruptions"}, Spend(w)
      PROVE  left'.interruptions <= left.interruptions
  <2>1. left'.interruptions \in {left.interruptions, left.interruptions - 1}
    BY <1>0, <1>2 DEF Spend
  <2> QED
    BY <1>1, <2>1
<1>3. CASE UNCHANGED left
  BY <1>1, <1>3
<1>4. ASSUME NEW i \in Issues, NEW s, BestEffort(i, s)
      PROVE  UNCHANGED left \/ Spend("faults")
  BY <1>4 DEF BestEffort
<1>5. ASSUME NEW i \in Issues, Reconcile(i)
      PROVE  UNCHANGED left \/ Spend("faults")
  BY <1>5, <1>4 DEF Reconcile, ReconcileIf
<1>a. tick.at \in Issues /\ boot.at \in Issues
  BY DEF TypeInv, TickType, BootType
<1>6. CASE TickStep
  <2>1. UNCHANGED left \/ Spend("faults")
    <3>1. ASSUME NEW i \in Issues, TickReconciles(i) PROVE UNCHANGED left \/ Spend("faults")
      BY <3>1, <1>5 DEF TickReconciles
    <3>2. CASE BlockedReported
      BY <3>2, <1>4, <1>a DEF BlockedReported
    <3>3. CASE TickReadsGate \/ MergeReported
      BY <3>3 DEF TickReadsGate, MergeReported
    <3>4. CASE UNCHANGED left
      BY <3>4
    <3> QED
      BY <1>6, <3>1, <3>2, <3>3, <3>4
      DEF TickStep, TickLists, TickReads, TickDispatches, TickEnds, MergeStatus,
          MergeCall, MergeRecorded, TickWrites, TickSkips, TickAsksGate, MergeStarts, MarkBlocked
  <2> QED
    BY <1>2, <1>3, <2>1
<1>7. CASE BootStep
  <2>1. UNCHANGED left \/ Spend("faults") \/ Spend("interruptions")
    <3>1. CASE RestoreReported
      BY <3>1, <1>4, <1>a DEF RestoreReported
    <3> QED
      BY <1>7, <3>1 DEF BootStep, BootBegins, BootEnds, RestoreInProgress, RestoreGate, Interrupt
  <2> QED
    BY <1>2, <1>3, <2>1
<1>8. CASE Crash
  BY <1>2, <1>8 DEF Crash, Interrupt
<1>9. ASSUME NEW i \in Issues,
             \/ RunBegins(i) \/ RunAdvances(i) \/ RunDecides(i) \/ RunRaises(i)
             \/ AgentStarts(i) \/ AgentExits(i) \/ StrayStep(i)
      PROVE  left'.interruptions <= left.interruptions
  <2>1. UNCHANGED left \/ Spend("faults")
    BY <1>9 DEF RunBegins, RunAdvances, RunAnnounces, RunAnnounced, RunCompletes, RunReports,
                RunEnds, RunDecides, RunFails, RunPublishes, RunRaises, AgentStarts, AgentExits,
                StrayStep, DetachedStarts, DetachedEnds, StrayExits
  <2> QED
    BY <1>2, <1>3, <2>1
<1>10. ASSUME NEW i \in Issues,
              \/ AbortKills(i) \/ AbortMarks(i) \/ AbortReports(i)
              \/ StatusCommand(i) \/ Human(i)
       PROVE  left'.interruptions <= left.interruptions
  <2>1. UNCHANGED left \/ Spend("faults") \/ Spend("moves") \/ Spend("interruptions")
    <3>1. CASE AbortReports(i)
      BY <3>1, <1>4 DEF AbortReports
    <3>2. CASE StatusCommand(i)
      BY <3>2, <1>5 DEF StatusCommand
    <3> QED
      BY <1>10, <3>1, <3>2 DEF AbortKills, AbortMarks, Human, HumanMoves, HumanPlans, Interrupt
  <2> QED
    BY <1>2, <1>3, <2>1
<1> QED
  BY <1>6, <1>7, <1>8, <1>9, <1>10 DEF Next

\* With one candidate nothing is ever detached, and only a crash leaves a
\* process without a run.
LEMMA StraysFall ==
  ASSUME OneCandidate, TypeInv, \A i \in Issues : detached[i] = 0, Next
  PROVE  /\ \A k \in Issues : detached'[k] = 0
         /\ Crash \/ \A k \in Issues : strays'[k] > 0 => strays[k] > 0
<1>0. ProcessType
  BY DEF TypeInv
<1>1. CASE TickStep \/ BootStep
  BY <1>1, TickFrame, BootFrame DEF processes
<1>2. CASE Crash
  BY <1>2 DEF Crash
<1>3. ASSUME NEW i \in Issues,
             \/ RunBegins(i) \/ RunAdvances(i) \/ RunDecides(i)
             \/ AgentStarts(i) \/ AgentExits(i)
             \/ AbortMarks(i) \/ AbortReports(i) \/ StatusCommand(i) \/ Human(i)
      PROVE  UNCHANGED <<strays, detached>>
  BY <1>3 DEF RunBegins, RunAdvances, RunAnnounces, RunAnnounced, RunCompletes, RunReports, RunEnds,
              RunDecides, RunFails, RunPublishes, AgentStarts, AgentExits, AbortMarks, AbortReports,
              StatusCommand, Human, HumanMoves, HumanPlans, processes
<1>4. ASSUME NEW i \in Issues, RunRaises(i)
      PROVE  UNCHANGED <<strays, detached>>
  <2>1. PICK d : /\ d \in IF step[i] = "work" THEN agents[i]..(Candidates - 1) ELSE {0}
                 /\ detached' = [detached EXCEPT ![i] = @ + d]
    BY <1>4 DEF RunRaises
  <2>2. agents[i] < Candidates /\ strays' = [strays EXCEPT ![i] = @ + agents[i]]
    BY <1>4 DEF RunRaises
  <2>3. agents[i] \in 0..Candidates /\ Candidates = 1 /\ strays[i] \in Nat /\ detached[i] \in Nat
    BY <1>0 DEF ProcessType, OneCandidate
  <2>4. d = 0 /\ agents[i] = 0
    BY <2>1, <2>2, <2>3
  <2>5. strays[i] + agents[i] = strays[i] /\ detached[i] + d = detached[i]
    BY <2>3, <2>4
  <2> QED
    BY <1>0, <2>1, <2>2, <2>5 DEF ProcessType
<1>5. ASSUME NEW i \in Issues, StrayStep(i)
      PROVE  UNCHANGED detached /\ \A k \in Issues : strays'[k] > 0 => strays[k] > 0
  <2>1. strays[i] \in Nat /\ detached[i] = 0
    BY <1>0 DEF ProcessType
  <2>2. ~(strays[i] < detached[i])
    BY <2>1
  <2>3. StrayExits(i)
    BY <1>5, <2>2 DEF StrayStep, DetachedStarts, DetachedEnds
  <2> QED
    BY <1>0, <2>3 DEF StrayExits, ProcessType
<1>6. ASSUME NEW i \in Issues, AbortKills(i)
      PROVE  UNCHANGED detached /\ \A k \in Issues : strays'[k] > 0 => strays[k] > 0
  <2>1. \A k \in Issues : strays'[k] = strays[k] \/ strays'[k] = 0
    BY <1>0, <1>6 DEF AbortKills, ProcessType
  <2> QED
    BY <1>6, <2>1 DEF AbortKills
<1>7. UNCHANGED <<strays, detached>> =>
        /\ \A k \in Issues : detached'[k] = 0
        /\ \A k \in Issues : strays'[k] > 0 => strays[k] > 0
  OBVIOUS
<1> QED
  BY <1>1, <1>2, <1>3, <1>4, <1>5, <1>6, <1>7 DEF Next

\* A process of an issue keeps every repair away from it.
LEMMA StrayIsActive ==
  ASSUME TypeInv, NEW i \in Issues
  PROVE  /\ strays[i] > 0 => HasProcess(i) /\ Active(i)
         /\ phase[i] = "active" => Active(i)
<1>1. agents[i] \in Nat /\ strays[i] \in Nat
  BY IssueRuntimeAssumption DEF TypeInv, ProcessType
<1> QED
  BY <1>1 DEF HasProcess, Active, IsRunning

\* What _reconcile_runtime_state may do to a card with work or strays: nothing.
LEMMA ReconcileSpares ==
  ASSUME TypeInv, RunsExact, NEW i \in Issues, Reconcile(i), NEW k \in Issues,
         step[k] = "work" \/ strays[k] > 0
  PROVE  board'[k] = board[k]
<1>1. Active(k)
  BY StrayIsActive DEF RunsExact
<1> QED
  BY <1>1, ReconcileEffect

\* A step of a run, of its agents, of people or of a stray process that no
\* /abort has anything to do with.
LEMMA TrackedByOthers ==
  ASSUME IInv, Tracked, NEW i \in Issues,
         \/ RunBegins(i) \/ RunAdvances(i) \/ RunDecides(i) \/ RunRaises(i)
         \/ AgentStarts(i) \/ AgentExits(i) \/ StrayStep(i)
         \/ AbortMarks(i) \/ AbortReports(i) \/ StatusCommand(i) \/ Human(i),
         \A k \in Issues : strays'[k] > 0 => strays[k] > 0
  PROVE  Tracked'
<1>0. RunType /\ CardType /\ AbortType /\ RunsExact /\ TypeInv
  BY DEF IInv, TypeInv
<1>1. abort[i] = "none"
  BY DEF Tracked, TrackedAt
<1>2. ~AbortMarks(i) /\ ~AbortReports(i)
  BY <1>1 DEF AbortMarks, AbortReports
<1>3. UNCHANGED <<tick, boot, abort>>
  BY <1>2 DEF RunBegins, RunAdvances, RunAnnounces, RunAnnounced, RunCompletes, RunReports,
              RunEnds, RunDecides, RunFails, RunPublishes, RunRaises, AgentStarts, AgentExits,
              StrayStep, DetachedStarts, DetachedEnds, StrayExits, StatusCommand, Human,
              HumanMoves, HumanPlans
<1>4. ASSUME NEW k \in Issues,
             phase[k] = "idle" => phase'[k] = "idle",
             step'[k] = "work" \/ strays[k] > 0 => board'[k] = "In Progress"
      PROVE  TrackedAt(k)'
  BY <1>3, <1>4 DEF Tracked, TrackedAt, KeptAway
<1>5. ASSUME RunBegins(i) \/ RunAdvances(i) \/ RunDecides(i) \/ RunRaises(i), NEW k \in Issues
      PROVE  TrackedAt(k)'
  <2>0. phase[i] # "idle" /\ ~(strays[i] > 0)
    <3>1. phase[i] # "idle"
      BY <1>0, <1>5 DEF RunsExact, RunBegins, RunAdvances, RunAnnounces, RunAnnounced, RunCompletes,
                RunReports, RunEnds, RunDecides, RunFails, RunPublishes, RunRaises, Service!Activate
    <3> QED
      BY <3>1 DEF Tracked, TrackedAt, KeptAway
  <2>1. CASE k = i
    <3>1. step'[i] = "work" => RunAnnounced(i)
      BY <1>0, <1>5 DEF RunBegins, RunAdvances, RunAnnounces, RunCompletes,
                RunReports, RunEnds, RunDecides, RunFails, RunPublishes, RunRaises, RunType
    <3>2. RunAnnounced(i) => board'[i] = "In Progress"
      BY <1>0 DEF RunAnnounced, CardType
    <3> QED
      BY <1>4, <2>0, <2>1, <3>1, <3>2
  <2>2. CASE k # i
    <3>1. CASE RunBegins(i) \/ RunRaises(i)
      <4>1. phase'[k] = phase[k] /\ step'[k] = step[k] /\ board'[k] = board[k]
        BY <1>0, <2>2, <3>1 DEF RunBegins, RunRaises, RunType, Service!Activate, Service!Release,
                                project
      <4> QED
        BY <1>4, <4>1 DEF Tracked, TrackedAt
    <3>2. CASE RunAdvances(i)
      <4>1. phase'[k] = phase[k] /\ step'[k] = step[k] /\ board'[k] = board[k]
        BY <1>0, <2>2, <3>2 DEF RunAdvances, RunAnnounces, RunAnnounced, RunCompletes, RunReports,
                                RunEnds, RunType, CardType, Service!Release, project
      <4> QED
        BY <1>4, <4>1 DEF Tracked, TrackedAt
    <3>3. CASE RunDecides(i)
      <4>1. phase'[k] = phase[k] /\ step'[k] = step[k] /\ board'[k] = board[k]
        BY <1>0, <2>2, <3>3 DEF RunDecides, RunFails, RunPublishes, RunType, project
      <4> QED
        BY <1>4, <4>1 DEF Tracked, TrackedAt
    <3> QED
      BY <1>5, <3>1, <3>2, <3>3
  <2> QED
    BY <2>1, <2>2
<1>6. ASSUME AgentStarts(i) \/ AgentExits(i) \/ StrayStep(i), NEW k \in Issues
      PROVE  TrackedAt(k)'
  <2>1. UNCHANGED <<phase, step, board>>
    BY <1>6 DEF AgentStarts, AgentExits, StrayStep, DetachedStarts, DetachedEnds, StrayExits, run,
                project
  <2> QED
    BY <1>4, <2>1 DEF Tracked, TrackedAt
<1>7. ASSUME StatusCommand(i) \/ Human(i), NEW k \in Issues
      PROVE  TrackedAt(k)'
  <2>1. UNCHANGED <<phase, step>>
    BY <1>7, RunFrame
  <2>2. ASSUME step[k] = "work" \/ strays[k] > 0
        PROVE  board'[k] = "In Progress"
    <3>1. board[k] = "In Progress"
      BY <2>2 DEF Tracked, TrackedAt
    <3>2. CASE StatusCommand(i)
      BY <1>0, <2>2, <3>1, <3>2, ReconcileSpares DEF StatusCommand
    <3>3. CASE Human(i)
      BY <1>0, <3>1, <3>3 DEF Human, HumanMoves, HumanPlans, MoveOf, CardType
    <3> QED
      BY <1>7, <3>2, <3>3
  <2> QED
    BY <1>4, <2>1, <2>2
<1> QED
  BY <1>2, <1>5, <1>6, <1>7 DEF Tracked

\* The scheduler serves and merges no issue that has a process.
LEMMA TrackedByTick ==
  ASSUME IInv, Tracked, TickStep
  PROVE  Tracked'
<1>0. RunType /\ CardType /\ TickType /\ RunsExact /\ TickInv /\ TypeInv
  BY DEF IInv, TypeInv
<1>1. UNCHANGED <<step, strays, boot, abort>>
  BY TickFrame DEF processes
<1>2. ASSUME NEW k \in Issues,
             strays[k] > 0 =>
               /\ phase'[k] = "idle"
               /\ tick'.pc \in {"gate", "gated"} \union Merges => tick'.at # k,
             step[k] = "work" \/ strays[k] > 0 => board'[k] = board[k]
      PROVE  TrackedAt(k)'
  BY <1>1, <1>2 DEF Tracked, TrackedAt, KeptAway
<1>3. ASSUME NEW k \in Issues, step[k] = "work" \/ strays[k] > 0
      PROVE  board'[k] = board[k]
  <2>1. CASE MergeReported \/ BlockedReported
    <3>1. tick.pc \in Merges
      BY <2>1 DEF MergeReported, BlockedReported, AtIssue, Merges
    <3>2. ~Busy(tick.at) /\ ~(strays[k] > 0 /\ tick.at = k)
      BY <1>0, <3>1 DEF TickInv, MergeInv, Tracked, TrackedAt, KeptAway
    <3>3. tick.at # k
      BY <1>3, <3>2 DEF Busy
    <3> QED
      BY <1>0, <2>1, <3>3 DEF MergeReported, BlockedReported, BestEffort, CardType
  <2>2. ASSUME NEW i \in Issues, TickReconciles(i) PROVE board'[k] = board[k]
    BY <1>0, <1>3, <2>2, ReconcileSpares DEF TickReconciles
  <2>3. CASE UNCHANGED board
    BY <2>3
  <2> QED
    BY <2>1, <2>2, <2>3
    DEF TickStep, TickLists, TickReads, TickReadsGate, TickDispatches, TickEnds, MergeStatus,
        MergeCall, MergeRecorded, TickWrites, TickSkips, TickAsksGate, MergeStarts, MarkBlocked,
        project
<1>4. ASSUME NEW k \in Issues, strays[k] > 0
      PROVE  phase'[k] = "idle"
  <2>1. KeptAway(k)
    BY <1>4 DEF Tracked, TrackedAt
  <2>2. CASE UNCHANGED phase
    BY <2>1, <2>2 DEF KeptAway
  <2>3. CASE TickDispatches
    <3>1. tick.at # k
      BY <2>1, <2>3 DEF KeptAway, TickDispatches, AtIssue
    <3>2. phase'[k] = phase[k]
      BY <1>0, <2>3, <3>1, EnqueueEffect DEF TickDispatches
    <3> QED
      BY <2>1, <3>2 DEF KeptAway
  <2> QED
    BY <2>2, <2>3, TickFrame
<1>5. ASSUME NEW k \in Issues, strays[k] > 0, tick'.pc \in {"gate", "gated"} \union Merges
      PROVE  tick'.at # k
  <2>0. HasProcess(k) /\ Active(k)
    BY <1>0, <1>5, StrayIsActive
  <2>1. tick.pc \in {"gate", "gated"} \union Merges => tick.at # k
    BY <1>5 DEF Tracked, TrackedAt, KeptAway
  <2>2. CASE TickLists \/ TickReads \/ TickEnds \/ MergeReported \/ BlockedReported
    <3>1. tick'.pc \notin {"gate", "gated"} \union Merges
      BY <1>0, <2>2 DEF TickLists, TickReads, TickEnds, MergeReported, BlockedReported, TickType,
                        NoTick, Served, Merges
    <3> QED
      BY <1>5, <3>1
  <2>3. CASE TickDispatches
    <3>1. tick'.pc = "serving"
      BY <1>0, <2>3 DEF TickDispatches, TickType, Served
    <3> QED
      BY <1>5, <3>1 DEF Merges
  <2>4. CASE TickReadsGate \/ MergeRecorded
    <3>1. tick'.at = tick.at /\ tick.pc \in {"gate", "gated"} \union Merges
      BY <1>0, <2>4 DEF TickReadsGate, MergeRecorded, AtIssue, TickType, Merges
    <3> QED
      BY <2>1, <3>1
  <2>5. CASE MergeStatus \/ MergeCall
    <3>1. tick.pc \in Merges
      BY <2>5 DEF MergeStatus, MergeCall, AtIssue, Merges
    <3>2. tick'.at = tick.at
      BY <1>0, <2>5 DEF MergeStatus, MergeCall, MarkBlocked, Served, TickType
    <3> QED
      BY <2>1, <3>1, <3>2
  <2>6. ASSUME NEW i \in Issues, TickWrites(i) \/ TickSkips(i) \/ TickReconciles(i)
        PROVE  FALSE
    <3>1. tick'.pc \in {"writing", "reading", "serving"}
      BY <1>0, <2>6 DEF TickWrites, TickSkips, TickReconciles, TickType, Served
    <3> QED
      BY <1>5, <3>1 DEF Merges
  <2>7. ASSUME NEW i \in Issues, TickAsksGate(i) \/ MergeStarts(i)
        PROVE  tick'.at # k
    <3>1. tick'.at = i
      BY <1>0, <2>7 DEF TickAsksGate, MergeStarts, MarkBlocked, TickType
    <3>2. ~Active(i) \/ ~HasProcess(i)
      BY <2>7 DEF TickAsksGate, MergeStarts
    <3> QED
      BY <2>0, <3>1, <3>2
  <2> QED
    BY <2>2, <2>3, <2>4, <2>5, <2>6, <2>7 DEF TickStep
<1> QED
  BY <1>2, <1>3, <1>4, <1>5 DEF Tracked

\* The restart requests and repairs no issue that has a process.
LEMMA TrackedByBoot ==
  ASSUME ~Reconnects, IInv, Tracked, BootStep
  PROVE  Tracked'
<1>0. RunType /\ CardType /\ BootType /\ RunsExact /\ BootInv /\ TypeInv
  BY DEF IInv, TypeInv
<1>1. UNCHANGED <<step, strays, abort>>
  BY BootFrame DEF processes
<1>2. tick.pc = "off" /\ \A k \in Issues : phase[k] = "idle" /\ step[k] = "none"
  <2>1. boot.pc # "ready"
    BY DEF Reconnects, BootStep, BootBegins, RestoreReported, BootEnds,
           RestoreInProgress, RestoreGate, Restoring
  <2> QED
    BY <1>0, <2>1 DEF BootInv, RunsExact
<1>3. tick'.pc \in {"off", "idle"}
  BY <1>0, <1>2, BootFrame DEF BootEnds, TypeInv, TickType
<1>4. ASSUME NEW k \in Issues,
             strays[k] > 0 => /\ phase'[k] = "idle"
                              /\ k \notin boot'.items
                              /\ boot'.pc = "rework" => boot'.at # k
                              /\ board'[k] = board[k]
      PROVE  TrackedAt(k)'
  BY <1>1, <1>2, <1>3, <1>4 DEF Tracked, TrackedAt, KeptAway, Merges
<1>5. ASSUME NEW k \in Issues, strays[k] > 0
      PROVE  /\ phase'[k] = "idle" /\ k \notin boot'.items
             /\ boot'.pc = "rework" => boot'.at # k
             /\ board'[k] = board[k]
  <2>0. HasProcess(k)
    BY <1>0, <1>5, StrayIsActive
  <2>1. KeptAway(k) /\ board[k] = "In Progress"
    BY <1>5 DEF Tracked, TrackedAt
  <2>2. CASE BootBegins
    BY <1>2, <2>2 DEF BootBegins, NoBoot, run, project
  <2>3. CASE RestoreReported
    <3>1. boot.at # k /\ k \notin boot.items /\ UNCHANGED phase
      BY <2>1, <2>3 DEF RestoreReported, KeptAway, run
    <3>2. boot'.pc = "scan" /\ boot'.items = boot.items
      BY <1>0, <2>3 DEF RestoreReported, Restored, BootType
    <3>3. board'[k] = board[k]
      BY <1>0, <2>3, <3>1 DEF RestoreReported, BestEffort, CardType
    <3> QED
      BY <1>2, <3>1, <3>2, <3>3
  <2>4. CASE BootEnds
    <3>1. boot'.pc = "ready" /\ boot'.items = {} /\ UNCHANGED board
      BY <2>4 DEF BootEnds, NoBoot, project
    <3>2. k \notin boot.items /\ phase[k] = "idle"
      BY <2>1 DEF KeptAway
    <3>3. phase'[k] = phase[k]
      BY <1>0, <2>4, <3>2, EnqueueEffect DEF BootEnds
    <3> QED
      BY <3>1, <3>2, <3>3
  <2>5. ASSUME NEW i \in Issues, RestoreInProgress(i)
        PROVE  /\ phase'[k] = "idle" /\ k \notin boot'.items
               /\ boot'.pc = "rework" => boot'.at # k
               /\ board'[k] = board[k]
    <3>1. UNCHANGED <<phase, board>> /\ boot'.items = boot.items
      BY <1>0, <2>5 DEF RestoreInProgress, Restored, BootType, run, project
    <3>2. boot'.pc = "rework" => boot'.at = i /\ ~HasProcess(i)
      BY <1>0, <2>5 DEF RestoreInProgress, Restored, BootType
    <3> QED
      BY <1>2, <2>0, <2>1, <3>1, <3>2 DEF KeptAway
  <2>6. ASSUME NEW i \in Issues, RestoreGate(i)
        PROVE  /\ phase'[k] = "idle" /\ k \notin boot'.items
               /\ boot'.pc = "rework" => boot'.at # k
               /\ board'[k] = board[k]
    <3>1. UNCHANGED <<phase, board>>
      BY <2>6 DEF RestoreGate, run, project
    <3>2. PICK g : g = Restored(i)
      OBVIOUS
    <3>3. g.pc = "scan" /\ g.items = boot.items
          /\ g \in [pc : BootPc, metas : [Issues -> State], todo : SUBSET Issues,
                    at : Issues, items : SUBSET Issues]
      BY <1>0, <3>2 DEF Restored, BootType, BootPc
    <3>4. \/ boot' = g
          \/ boot' = [g EXCEPT !.items = g.items]
          \/ boot' = [g EXCEPT !.items = g.items \union {i}] /\ board[i] \in DispatchStates
      BY <2>6, <3>2 DEF RestoreGate, GateOpen
    <3>5. boot'.pc = "scan"
      BY <3>3, <3>4
    <3>6. k \notin boot'.items
      BY <2>1, <3>3, <3>4 DEF KeptAway, DispatchStates
    <3> QED
      BY <1>2, <3>1, <3>5, <3>6
  <2> QED
    BY <2>2, <2>3, <2>4, <2>5, <2>6 DEF BootStep
<1> QED
  BY <1>4, <1>5 DEF Tracked

\* What a crash leaves behind was at work, on a card that says so.
LEMMA TrackedByCrash ==
  ASSUME IInv, Tracked, Crash
  PROVE  Tracked'
<1>0. ProcessType /\ RunsExact
  BY DEF IInv, TypeInv
<1>1. /\ \A k \in Issues : phase'[k] = "idle" /\ step'[k] = "none" /\ abort'[k] = "none"
      /\ UNCHANGED board
  BY DEF Crash, project
<1>2. tick'.pc = "off" /\ boot'.pc = "off" /\ boot'.items = {}
  BY DEF Crash, NoTick, NoBoot
<1>3. PICK survivors \in [Issues -> 0..Candidates] :
        /\ \A k \in Issues : survivors[k] <= agents[k]
        /\ strays' = [k \in Issues |-> strays[k] + survivors[k]]
  BY DEF Crash
<1>4. ASSUME NEW k \in Issues, strays'[k] > 0
      PROVE  board[k] = "In Progress"
  <2>1. /\ strays[k] \in Nat /\ survivors[k] \in Nat /\ agents[k] \in Nat
        /\ survivors[k] <= agents[k] /\ strays[k] + survivors[k] > 0
    BY <1>0, <1>3, <1>4, IssueRuntimeAssumption DEF ProcessType
  <2>2. strays[k] > 0 \/ agents[k] > 0
    BY <2>1
  <2> QED
    BY <1>0, <2>2 DEF RunsExact, Tracked, TrackedAt
<1> QED
  BY <1>1, <1>2, <1>4 DEF Tracked, TrackedAt, KeptAway, Merges

-----------------------------------------------------------------------------
\* The initial states have no stray process.
LEMMA InitStray == Init => StrayInv
<1> SUFFICES ASSUME Init PROVE StrayInv
  OBVIOUS
<1>0. IInv
  BY InitIInv
<1>1. \A i \in Issues : /\ detached[i] = 0 /\ strays[i] = 0 /\ abort[i] = "none"
                        /\ step[i] = "none"
  BY DEF Init
<1>2. ~(0 > 0)
  OBVIOUS
<1> QED
  BY <1>0, <1>1, <1>2 DEF StrayInv, IInv, Tracked, TrackedAt

\* Every step keeps what holds of stray processes.
LEMMA NextStray ==
  ASSUME OneCandidate, CrashAlone
  PROVE  StrayInv /\ [Next]_vars => StrayInv'
<1> SUFFICES ASSUME StrayInv, [Next]_vars PROVE StrayInv'
  OBVIOUS
<1>0. TypeInv /\ TypeInv'
  BY NextTypes DEF StrayInv
<1>1. CASE UNCHANGED vars
  <2>1. UNCHANGED <<phase, step, strays, detached, board, tick, boot, abort, left>>
    BY <1>1 DEF vars, run, processes, project
  <2>2. CASE Harmless
    BY <1>0, <2>1, <2>2 DEF StrayInv, Harmless
  <2>3. CASE IInv /\ Tracked
    <3>1. IInv'
      BY <1>1, <2>3, UnchangedIInv
    <3>2. Tracked'
      BY <2>1, <2>3 DEF Tracked, TrackedAt, KeptAway
    <3> QED
      BY <1>0, <2>1, <3>1, <3>2 DEF StrayInv
  <2> QED
    BY <2>2, <2>3 DEF StrayInv
<1>2. CASE Next
  <2>0. ProcessType /\ ProcessType' /\ LeftType /\ LeftType' /\ TypeInv
    BY <1>0 DEF TypeInv
  <2>a. /\ MaxInterruptions \in Nat /\ left.interruptions \in 0..MaxInterruptions
        /\ left'.interruptions \in 0..MaxInterruptions
    BY <2>0, IssueRuntimeAssumption DEF LeftType
  <2>b. left'.interruptions <= left.interruptions
    BY <1>2, <2>0, LeftFalls
  <2>1. \A k \in Issues : detached'[k] = 0
    BY <1>2, <2>0, OneCandidate, StraysFall DEF StrayInv
  <2>2. CASE Crash
    <3>1. "crash" \in Interruptions /\ left.interruptions > 0
          /\ left' = [left EXCEPT !["interruptions"] = left.interruptions - 1]
      BY <2>2 DEF Crash, Interrupt, Spend
    <3>2. left'.interruptions = left.interruptions - 1
      BY <2>0, <3>1 DEF LeftType
    <3>3. left'.interruptions < MaxInterruptions /\ left.interruptions # 0
      BY <2>a, <3>1, <3>2
    <3>4. IInv /\ Tracked /\ ~Reconnects
      <4>1. ~Reconnects
        BY <2>2 DEF Reconnects, BootBegins, Crash, NoBoot
      <4> QED
        BY <3>1, <3>3, <4>1 DEF StrayInv, Harmless
    <3>5. IInv' /\ Tracked'
      BY <1>2, <2>2, <3>4, NextIInv, TrackedByCrash
    <3> QED
      BY <1>0, <2>1, <3>1, <3>3, <3>5 DEF StrayInv
  <2>3. ASSUME ~Crash
        PROVE  StrayInv'
    <3>1. \A k \in Issues : strays'[k] > 0 => strays[k] > 0
      BY <1>2, <2>0, <2>3, OneCandidate, StraysFall DEF StrayInv
    <3>2. left.interruptions < MaxInterruptions => left'.interruptions < MaxInterruptions
      BY <2>a, <2>b
    <3>3. \A k \in Issues :
            strays'[k] > 0 => "crash" \in Interruptions /\ left'.interruptions < MaxInterruptions
      BY <3>1, <3>2 DEF StrayInv
    <3>4. CASE Harmless
      <4>1. left.interruptions = 0 => left'.interruptions = 0
        BY <2>a, <2>b
      <4>2. ASSUME NEW k \in Issues PROVE strays'[k] = 0
        <5>1. strays[k] = 0 /\ strays'[k] \in Nat
          BY <2>0, <3>4 DEF Harmless, ProcessType
        <5>2. ~(strays[k] > 0)
          BY <5>1
        <5> QED
          BY <3>1, <5>1, <5>2
      <4>3. Harmless'
        BY <3>4, <4>1, <4>2 DEF Harmless
      <4> QED
        BY <1>0, <2>1, <3>3, <4>3 DEF StrayInv
    <3>5. CASE Reconnects \/ \E i \in Issues : AbortKills(i)
      <4>1. Interruptions # {"crash"} /\ left.interruptions > 0
            /\ left' = [left EXCEPT !["interruptions"] = left.interruptions - 1]
        BY <3>5 DEF Reconnects, BootBegins, AbortKills, Interrupt, Spend
      <4>2. left'.interruptions = left.interruptions - 1
        BY <2>0, <4>1 DEF LeftType
      <4>3. "crash" \in Interruptions => MaxInterruptions <= 1
        BY <4>1, CrashAlone DEF CrashAlone
      <4>4. "crash" \in Interruptions => left'.interruptions = 0
                                         /\ ~(left.interruptions < MaxInterruptions)
        BY <2>a, <4>1, <4>2, <4>3
      <4>5. ASSUME NEW k \in Issues PROVE strays'[k] = 0
        <5>1. ~(strays[k] > 0)
          BY <4>4 DEF StrayInv
        <5>2. strays'[k] \in Nat /\ ~(strays'[k] > 0)
          BY <2>0, <3>1, <5>1 DEF ProcessType
        <5> QED
          BY <5>2
      <4>6. Harmless'
        BY <4>4, <4>5 DEF Harmless
      <4> QED
        BY <1>0, <2>1, <3>3, <4>6 DEF StrayInv
    <3>6. CASE IInv /\ Tracked /\ ~Reconnects /\ ~\E i \in Issues : AbortKills(i)
      <4>1. Tracked'
        BY <1>2, <2>3, <3>1, <3>6, TrackedByOthers, TrackedByTick, TrackedByBoot DEF Next
      <4>2. IInv'
        BY <1>2, <3>6, NextIInv
      <4> QED
        BY <1>0, <2>1, <3>3, <4>1, <4>2 DEF StrayInv
    <3> QED
      BY <3>4, <3>5, <3>6 DEF StrayInv
  <2> QED
    BY <2>2, <2>3
<1> QED
  BY <1>1, <1>2

\* With one candidate, and unless an /abort or a second on_ready comes on top
\* of a crash: no process that a death of the bot has left behind lives beside
\* one of a later run, however often the bot dies and restarts.
THEOREM OneAgentHolds ==
  ASSUME OneCandidate, CrashAlone
  PROVE  Spec => []OneAgent
<1>1. StrayInv => OneAgent
  <2> SUFFICES ASSUME StrayInv, NEW i \in Issues, agents[i] > 0 PROVE strays[i] = 0
    BY DEF OneAgent
  <2>1. CASE Harmless
    BY <2>1 DEF Harmless
  <2>2. CASE IInv /\ Tracked
    <3>1. phase[i] # "idle" /\ strays[i] \in Nat
      BY <2>2 DEF IInv, TypeInv, ProcessType, RunsExact
    <3>2. ~(strays[i] > 0)
      BY <2>2, <3>1 DEF Tracked, TrackedAt, KeptAway
    <3> QED
      BY <3>1, <3>2
  <2> QED
    BY <2>1, <2>2 DEF StrayInv
<1>2. StrayInv /\ [Next]_vars => StrayInv'
  BY OneCandidate, CrashAlone, NextStray
<1> QED
  BY InitStray, <1>1, <1>2, PTL DEF Spec
=============================================================================
