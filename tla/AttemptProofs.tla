---------------------------- MODULE AttemptProofs ----------------------------
(***************************************************************************)
(* Safety of the attempts at an issue, for every number of attempts,       *)
(* faults, replans and semaphore slots, every choice of candidates and     *)
(* every WORKFLOW.md.  TLC checks the same properties for two attempts.    *)
(***************************************************************************)
EXTENDS Attempt, FiniteSetTheorems, TLAPS

-----------------------------------------------------------------------------
(* The inductive invariant *)

Outcome == {"", "success"} \union IssueState

Types ==
  /\ attempt \in 0..MaxAttempts
  /\ pc \in [Task -> TaskPc]
  /\ sessions \in [Task -> Nat]
  /\ seen \in [Task -> SUBSET Change]
  /\ result \in [Task -> Outcome]
  /\ dirty \in [Copy -> SUBSET Change]
  /\ commits \in [Copy -> SUBSET Change]
  /\ remote \in [Copy -> SUBSET Change]
  /\ winners \in [Attempts -> Task \union {NoTask}]
  /\ replans \in Nat
  /\ held \in [Task -> SUBSET Change]
  /\ disturbed \subseteq Copy

\* The tasks of an attempt do not exist before its candidates start.
FutureIsEmpty ==
  \A t \in Task :
    t[1] > attempt \/ (t[1] = attempt /\ stage \in {"prepare", "prepared"})
      => pc[t] = "off" /\ sessions[t] = 0

\* What a task has done is in its program counter.
SessionsCounted ==
  \A t \in Task :
    /\ pc[t] \in {"queued", "risky"} => sessions[t] = 0
    /\ pc[t] = "session" => sessions[t] <= 1
    /\ sessions[t] <= 2

Current(t) == t[1] = attempt /\ stage = "candidates"

Succeeded(t) == pc[t] = "done" /\ result[t] = "success"
Checked(t) == pc[t] \in Working \ {"session"} \/ Succeeded(t)

\* A change that was listed for the review of t, or that its commands made.
Listed(t, c) == c \in seen[t] \/ (c.how = "command" /\ c.by = t)

CopyIsListed(t) ==
  /\ Checked(t) => \A c \in dirty[CopyOf(t)] : Listed(t, c)
  /\ Succeeded(t) => held[t] = dirty[CopyOf(t)]

\* While a candidate of the run under way is checked, its copy holds what its
\* last session has left and what the commands have added, and so it does once
\* the candidate has succeeded; from then on it is as it was for the review.
CheckedIsListed ==
  \A t \in Task : Current(t) /\ CopyOf(t) \notin disturbed => CopyIsListed(t)

\* A success has been reviewed as it was listed.
SuccessIsReviewed ==
  \A t \in Task : Current(t) /\ Succeeded(t) => seen[t] \subseteq approved

IInv == /\ Types
        /\ FutureIsEmpty
        /\ SessionsCounted
        /\ CheckedIsListed
        /\ SuccessIsReviewed
        /\ ReplansBounded

-----------------------------------------------------------------------------
(* Tasks and their copies *)

\* What the assumption says of the bounds.
LEMMA ConstantFacts == MaxAttempts \in Nat \ {0} /\ MaxReplans \in Nat
BY AttemptAssumption

\* A task belongs to an attempt and has a copy.
LEMMA TaskFacts ==
  \A t \in Task : /\ t[1] \in Attempts
                 /\ t[2] \in {"primary", "alt1"}
                 /\ t = <<t[1], t[2]>>
                 /\ CopyOf(t) \in Copy
BY DEF Task, Copy, CopyOf

\* Two candidates of one attempt do not share a copy.
LEMMA CopiesApart ==
  ASSUME NEW t \in Task, NEW u \in Task, t[1] = u[1], CopyOf(t) = CopyOf(u)
  PROVE  t = u
<1>1. CASE t[2] = "primary"
  <2>1. CASE u[2] = "primary"
    BY <1>1, <2>1, TaskFacts
  <2>2. CASE u[2] # "primary"
    <3>1. CopyOf(t) = <<0, "primary">> /\ CopyOf(u) = u
      BY <1>1, <2>2 DEF CopyOf
    <3>2. u = <<0, "primary">>
      BY <3>1
    <3>3. u[2] = "primary"
      BY <3>2
    <3> QED BY <3>3, <2>2
  <2> QED BY <2>1, <2>2
<1>2. CASE t[2] # "primary"
  <2>1. CASE u[2] = "primary"
    <3>1. CopyOf(u) = <<0, "primary">> /\ CopyOf(t) = t
      BY <1>2, <2>1 DEF CopyOf
    <3>2. t = <<0, "primary">>
      BY <3>1
    <3>3. t[2] = "primary"
      BY <3>2
    <3> QED BY <3>3, <1>2
  <2>2. CASE u[2] # "primary"
    BY <1>2, <2>2 DEF CopyOf
  <2> QED BY <2>1, <2>2
<1> QED BY <1>1, <1>2

-----------------------------------------------------------------------------
(* The parts of the invariant, one after the other *)

\* The invariant holds before the first attempt.
THEOREM InitIInv == Init => IInv
<1> SUFFICES ASSUME Init PROVE IInv
  OBVIOUS
<1>0. attempt = 0 /\ replans = 0 /\ disturbed = {}
  BY DEF Init
<1>1. Types
  <2>1. attempt \in 0..MaxAttempts /\ replans \in Nat /\ disturbed \subseteq Copy
    BY <1>0, ConstantFacts
  <2>2. "off" \in TaskPc /\ "" \in Outcome
    BY DEF TaskPc, Outcome
  <2>3. pc \in [Task -> TaskPc] /\ result \in [Task -> Outcome]
    BY <2>2 DEF Init
  <2>4. /\ sessions \in [Task -> Nat]
        /\ seen \in [Task -> SUBSET Change]
        /\ held \in [Task -> SUBSET Change]
    BY DEF Init
  <2>5. dirty \in [Copy -> SUBSET Change] /\ commits \in [Copy -> SUBSET Change]
    BY DEF Init
  <2>6. remote \in [Copy -> SUBSET Change] /\ winners \in [Attempts -> Task \union {NoTask}]
    BY DEF Init
  <2> QED BY <2>1, <2>3, <2>4, <2>5, <2>6 DEF Types
<1>2. FutureIsEmpty
  BY DEF Init, FutureIsEmpty
<1>3. SessionsCounted
  <2>1. \A t \in Task : pc[t] = "off" /\ sessions[t] = 0
    BY DEF Init
  <2> QED BY <2>1 DEF SessionsCounted
<1>4. CheckedIsListed /\ SuccessIsReviewed
  BY DEF Init, CheckedIsListed, SuccessIsReviewed, Current
<1>5. ReplansBounded
  BY <1>0, ConstantFacts DEF ReplansBounded
<1> QED BY <1>1, <1>2, <1>3, <1>4, <1>5 DEF IInv

\* The values that actions write.
LEMMA Values ==
  /\ {"off", "queued", "risky", "done", "raised"} \union Working \subseteq TaskPc
  /\ {"", "success", "Human Review", "Rework", "Blocked"} \subseteq Outcome
BY DEF TaskPc, Outcome, IssueState

\* What a call can leave in a copy: what was there, and one change of its own.
LEMMA EditsAreChanges ==
  ASSUME Types, NEW t \in Task, NEW how \in {"agent", "command", "left"},
         NEW tree \in Edits(t, how)
  PROVE  /\ tree \subseteq Change
         /\ \A c \in tree : c \in dirty[CopyOf(t)] \/ (c.how = how /\ c.by = t)
<1> DEFINE was == dirty[CopyOf(t)]
           new == [by |-> t, session |-> IF how = "agent" THEN sessions[t] + 1 ELSE 0,
                   how |-> how]
<1>1. was \subseteq Change
  BY TaskFacts DEF Types
<1>2. new \in Change
  BY DEF Change, Types
<1>3. tree \in {was, {}, was \union {new}}
  BY DEF Edits
<1>4. new.how = how /\ new.by = t
  OBVIOUS
<1> HIDE DEF new
<1> QED BY <1>1, <1>2, <1>3, <1>4

\* A call leaves sets of changes in copies.
LEMMA LeavesTypes ==
  ASSUME Types, NEW t \in Task, NEW how \in {"agent", "command", "left"},
         NEW tree \in Edits(t, how), Leaves(t, tree)
  PROVE  dirty' \in [Copy -> SUBSET Change] /\ disturbed' \subseteq Copy
<1>1. tree \subseteq Change /\ CopyOf(t) \in Copy
  BY EditsAreChanges, TaskFacts
<1>2. dirty \in [Copy -> SUBSET Change] /\ disturbed \subseteq Copy
  BY DEF Types
<1> QED BY <1>1, <1>2 DEF Leaves

\* The session, the commands and the repair checks write in the copy.
LEMMA CopyWritten ==
  ASSUME NEW t \in Task, CandidateStep(t) \/ CandidateRaises(t)
  PROVE  \/ UNCHANGED <<dirty, disturbed>>
         \/ \E how \in {"agent", "command", "left"} : \E tree \in Edits(t, how) : Leaves(t, tree)
<1>1. CASE CandidateBegins(t) \/ VerifyEnds(t) \/ ReviewEnds(t)
  BY <1>1 DEF CandidateBegins, VerifyEnds, ReviewEnds, history
<1>2. CASE SessionEnds(t)
  <2>1. \E tree \in Edits(t, "agent") : Leaves(t, tree)
    BY <1>2 DEF SessionEnds
  <2> QED BY <2>1
<1>3. CASE CommandsEnd(t) \/ RepairEnds(t)
  <2>1. \E tree \in Edits(t, "command") : Leaves(t, tree)
    BY <1>3 DEF CommandsEnd, RepairEnds
  <2> QED BY <2>1
<1>4. CASE CandidateRaises(t)
  <2>1. \/ UNCHANGED <<dirty, disturbed>>
        \/ \E tree \in Edits(t, "agent") : Leaves(t, tree)
        \/ \E tree \in Edits(t, "command") : Leaves(t, tree)
    BY <1>4 DEF CandidateRaises
  <2> QED BY <2>1
<1> QED BY <1>1, <1>2, <1>3, <1>4 DEF CandidateStep

\* A step of a candidate keeps every variable in its type.
LEMMA CandidateTypes ==
  ASSUME Types, NEW t \in Task, CandidateStep(t) \/ CandidateRaises(t)
  PROVE  Types'
<1>1. pc' \in [Task -> TaskPc]
  <2>1. \E p \in TaskPc : Goes(t, p)
    BY Values DEF CandidateStep, CandidateBegins, SessionEnds, CommandsEnd, RepairEnds,
                  VerifyEnds, ReviewEnds, CandidateRaises, Returns, Working
  <2>2. pc \in [Task -> TaskPc]
    BY DEF Types
  <2> QED BY <2>1, <2>2 DEF Goes
<1>2. result' \in [Task -> Outcome]
  <2>1. UNCHANGED result \/ \E r \in Outcome : Returns(t, r)
    BY Values DEF CandidateStep, CandidateBegins, SessionEnds, CommandsEnd, RepairEnds,
                  VerifyEnds, ReviewEnds, CandidateRaises, candidate
  <2>2. result \in [Task -> Outcome]
    BY DEF Types
  <2> QED BY <2>1, <2>2 DEF Returns
<1>3. sessions' \in [Task -> Nat]
  <2>1. UNCHANGED sessions \/ sessions' = [sessions EXCEPT ![t] = @ + 1]
    BY DEF CandidateStep, CandidateBegins, SessionEnds, CommandsEnd, RepairEnds,
           VerifyEnds, ReviewEnds, CandidateRaises, candidate
  <2>2. sessions \in [Task -> Nat]
    BY DEF Types
  <2> QED BY <2>1, <2>2
<1>4. seen' \in [Task -> SUBSET Change]
  <2>1. UNCHANGED seen \/ \E tree \in Edits(t, "agent") : seen' = [seen EXCEPT ![t] = tree]
    BY DEF CandidateStep, CandidateBegins, SessionEnds, CommandsEnd, RepairEnds,
           VerifyEnds, ReviewEnds, CandidateRaises, candidate
  <2>2. seen \in [Task -> SUBSET Change]
    BY DEF Types
  <2> QED BY <2>1, <2>2, EditsAreChanges
<1>5. dirty' \in [Copy -> SUBSET Change] /\ disturbed' \subseteq Copy
  <2>1. dirty \in [Copy -> SUBSET Change] /\ disturbed \subseteq Copy
    BY DEF Types
  <2> QED BY <2>1, CopyWritten, LeavesTypes
<1>6. replans' \in Nat
  <2>1. UNCHANGED replans \/ CountsReplan
    BY DEF CandidateStep, CandidateBegins, SessionEnds, CommandsEnd, RepairEnds,
           VerifyEnds, ReviewEnds, CandidateRaises
  <2> QED BY <2>1 DEF CountsReplan, Types
<1>7. UNCHANGED <<attempt, commits, remote, winners>>
  BY DEF CandidateStep, CandidateBegins, SessionEnds, CommandsEnd, RepairEnds, VerifyEnds,
         ReviewEnds, CandidateRaises, TaskUnchanged, artifacts
<1>8. held' \in [Task -> SUBSET Change]
  <2>1. UNCHANGED held \/ held' = [held EXCEPT ![t] = dirty[CopyOf(t)]]
    BY DEF CandidateStep, CandidateBegins, SessionEnds, CommandsEnd, RepairEnds,
           VerifyEnds, ReviewEnds, CandidateRaises, history
  <2>2. held \in [Task -> SUBSET Change] /\ dirty[CopyOf(t)] \subseteq Change
    BY TaskFacts DEF Types
  <2> QED BY <2>1, <2>2
<1> QED BY <1>1, <1>2, <1>3, <1>4, <1>5, <1>6, <1>7, <1>8 DEF Types

\* What is left behind by a task changes its copy, and nothing else that the run
\* and its candidates know of.
LEMMA LeftBehindFrame ==
  ASSUME Types, NEW u \in Task, LeftBehindWrites(u)
  PROVE  /\ UNCHANGED <<attempt, stage, pc, slots, sessions, seen, result, commits, remote>>
         /\ UNCHANGED <<manifest, winners, views, summary, status, replans, approved, held>>
         /\ disturbed' = disturbed \union {CopyOf(u)}
         /\ \A w \in Copy : w # CopyOf(u) => dirty'[w] = dirty[w]
         /\ Types'
<1>1. /\ UNCHANGED <<attempt, stage, pc, slots, sessions, seen, result, commits, remote>>
      /\ UNCHANGED <<manifest, winners, views, summary, status, replans, approved, held>>
      /\ disturbed' = disturbed \union {CopyOf(u)}
  BY DEF LeftBehindWrites, control, candidate, artifacts
<1>2. PICK tree \in Edits(u, "left") : dirty' = [dirty EXCEPT ![CopyOf(u)] = tree]
  BY DEF LeftBehindWrites
<1>3. tree \subseteq Change /\ CopyOf(u) \in Copy /\ dirty \in [Copy -> SUBSET Change]
  BY EditsAreChanges, TaskFacts DEF Types
<1>4. dirty' \in [Copy -> SUBSET Change] /\ \A w \in Copy : w # CopyOf(u) => dirty'[w] = dirty[w]
  BY <1>2, <1>3
<1>5. disturbed' \subseteq Copy
  BY <1>1, <1>3 DEF Types
<1>6. Types'
  BY <1>1, <1>4, <1>5 DEF Types
<1> QED BY <1>1, <1>4, <1>6

\* A call does not return, and nothing else happens.
Hangs == RunHangs \/ \E t \in Task : TaskHangs(t)

\* The steps of the run, of people and of other issues.
RunAction ==
  AttemptStarts \/ RunStep \/ RunRaises \/ PullRequestCloses \/ OtherIssuePrepares \/ Hangs

\* All but the faults that are left and the calls that hang is as it was.
LEMMA HangFrame ==
  ASSUME Hangs
  PROVE  /\ UNCHANGED <<control, sessions, seen, result, git, openPrs, artifacts, status, replans,
                         history>>
         /\ faults > 0 /\ faults' = faults - 1
         /\ \E t \in Task \union {NoTask} : hung' = hung \union {t}
BY DEF Hangs, RunHangs, TaskHangs, SpendFault

\* The attempt only moves on, and a task appears or is forgotten only when
\* an attempt or its candidates start.
LEMMA RunFrame ==
  ASSUME RunAction
  PROVE  /\ AttemptStarts \/ UNCHANGED attempt
         /\ AttemptStarts \/ CandidatesStart \/ UNCHANGED pc
         /\ AttemptStarts \/ UNCHANGED <<sessions, seen, result, held>>
         /\ WinnerPromoted \/ CommitMade \/ UNCHANGED dirty
         /\ CommitMade \/ UNCHANGED commits
         /\ Pushed \/ UNCHANGED remote
         /\ UNCHANGED <<replans, approved, disturbed>>
<1>1. CASE AttemptStarts
  BY <1>1 DEF AttemptStarts, git, history
<1>2. CASE PrimaryPrepared \/ CandidatesStart
  BY <1>2 DEF PrimaryPrepared, CandidatesStart, candidate, history
<1>3. CASE AllFail \/ SelectionRaises \/ WinnerPromoted
  BY <1>3 DEF AllFail, SelectionRaises, WinnerPromoted, candidate, git, history
<1>4. CASE ProofDecides \/ CommitMade \/ Pushed
  BY <1>4 DEF ProofDecides, CommitMade, Pushed, candidate, git, history
<1>5. CASE Proposed \/ Completed \/ Reported
  BY <1>5 DEF Proposed, Completed, Reported, candidate, git, history
<1>6. CASE RunRaises \/ PullRequestCloses \/ OtherIssuePrepares
  BY <1>6 DEF RunRaises, PullRequestCloses, OtherIssuePrepares, candidate, control, git, history
<1>7. CASE Hangs
  BY <1>7, HangFrame DEF control, git, history
<1> QED BY <1>1, <1>2, <1>3, <1>4, <1>5, <1>6, <1>7 DEF RunAction, RunStep

\* The winner of an attempt is one of its candidates, or there is none.
LEMMA RunWinners ==
  ASSUME Types, RunAction
  PROVE  winners' \in [Attempts -> Task \union {NoTask}]
<1> DEFINE Put(w) == winners' = [winners EXCEPT ![attempt] = w]
<1>1. UNCHANGED winners \/ Put(Winner) \/ \E w \in Task \union {NoTask} : Put(w)
  <2>1. CASE AttemptStarts \/ PrimaryPrepared \/ CandidatesStart
    BY <2>1 DEF AttemptStarts, PrimaryPrepared, CandidatesStart, artifacts
  <2>2. CASE AllFail \/ SelectionRaises
    BY <2>2 DEF AllFail, SelectionRaises, artifacts, Closes
  <2>3. CASE WinnerPromoted
    BY <2>3 DEF WinnerPromoted, Closes, Selectable, Successful, Candidates
  <2>4. CASE ProofDecides \/ CommitMade \/ Completed
    BY <2>4 DEF ProofDecides, CommitMade, Completed, Closes
  <2>5. CASE Pushed \/ Proposed \/ Reported
    BY <2>5 DEF Pushed, Proposed, Reported, artifacts
  <2>6. CASE RunRaises \/ PullRequestCloses \/ OtherIssuePrepares
    BY <2>6 DEF RunRaises, PullRequestCloses, OtherIssuePrepares, artifacts
  <2>7. CASE Hangs
    BY <2>7, HangFrame DEF artifacts
  <2> QED BY <2>1, <2>2, <2>3, <2>4, <2>5, <2>6, <2>7 DEF RunAction, RunStep
<1>2. winners \in [Attempts -> Task \union {NoTask}]
  BY DEF Types
<1>3. CASE UNCHANGED winners
  BY <1>2, <1>3
<1>4. CASE Put(Winner)
  BY <1>2, <1>4 DEF Winner
<1>5. ASSUME NEW w \in Task \union {NoTask}, Put(w)
      PROVE  winners' \in [Attempts -> Task \union {NoTask}]
  BY <1>2, <1>5
<1> QED BY <1>1, <1>3, <1>4, <1>5

\* So does a step of the run.
LEMMA RunTypes ==
  ASSUME Types, RunAction
  PROVE  Types'
<1>1. attempt' \in 0..MaxAttempts
  <2>1. CASE AttemptStarts
    <3>1. attempt' = attempt + 1 /\ attempt < MaxAttempts
      BY <2>1 DEF AttemptStarts
    <3>2. attempt \in 0..MaxAttempts
      BY DEF Types
    <3> QED BY <3>1, <3>2, ConstantFacts
  <2>2. CASE UNCHANGED attempt
    BY <2>2 DEF Types
  <2> QED BY <2>1, <2>2, RunFrame
<1>2. pc' \in [Task -> TaskPc]
  <2>0. pc \in [Task -> TaskPc]
    BY DEF Types
  <2>1. CASE AttemptStarts
    <3>1. pc' = [t \in Task |-> IF Ended(t) THEN "off" ELSE pc[t]]
      BY <2>1 DEF AttemptStarts
    <3> QED BY <2>0, <3>1, Values
  <2>2. CASE CandidatesStart
    <3>1. PICK lane \in Lanes[attempt], first \in {"queued", "risky"} :
            pc' = [t \in Task |-> IF t[1] = attempt /\ t[2] \in lane THEN first ELSE pc[t]]
      BY <2>2 DEF CandidatesStart
    <3>2. first \in TaskPc
      BY Values
    <3> QED BY <2>0, <3>1, <3>2
  <2>3. CASE UNCHANGED pc
    BY <2>0, <2>3
  <2> QED BY <2>1, <2>2, <2>3, RunFrame
<1>3. /\ sessions' \in [Task -> Nat]
      /\ seen' \in [Task -> SUBSET Change]
      /\ held' \in [Task -> SUBSET Change]
      /\ result' \in [Task -> Outcome]
  <2>0. /\ sessions \in [Task -> Nat]
        /\ seen \in [Task -> SUBSET Change]
        /\ held \in [Task -> SUBSET Change]
        /\ result \in [Task -> Outcome]
    BY DEF Types
  <2>1. CASE AttemptStarts
    <3>1. /\ seen' = [t \in Task |-> IF Ended(t) THEN {} ELSE seen[t]]
          /\ held' = [t \in Task |-> IF Ended(t) THEN {} ELSE held[t]]
          /\ result' = [t \in Task |-> ""]
          /\ sessions' = [t \in Task |-> IF Ended(t) /\ t # views.of THEN 0 ELSE sessions[t]]
      BY <2>1 DEF AttemptStarts
    <3>2. sessions' \in [Task -> Nat]
      BY <2>0, <3>1
    <3>3. seen' \in [Task -> SUBSET Change]
      BY <2>0, <3>1
    <3>4. held' \in [Task -> SUBSET Change]
      BY <2>0, <3>1
    <3>5. result' \in [Task -> Outcome]
      BY <3>1, Values
    <3> QED BY <3>2, <3>3, <3>4, <3>5
  <2>2. CASE UNCHANGED <<sessions, seen, result, held>>
    BY <2>0, <2>2
  <2> QED BY <2>1, <2>2, RunFrame
<1>4. dirty' \in [Copy -> SUBSET Change]
  <2>0. dirty \in [Copy -> SUBSET Change]
    BY DEF Types
  <2>1. CASE WinnerPromoted
    <3>1. PICK w : dirty' = [c \in Copy |-> IF c \in Removed(w) THEN {} ELSE dirty[c]]
      BY <2>1 DEF WinnerPromoted
    <3> QED BY <2>0, <3>1
  <2>2. CASE CommitMade
    <3>1. UNCHANGED dirty \/ dirty' = [dirty EXCEPT ![WinnerCopy] = {}]
      BY <2>2 DEF CommitMade
    <3> QED BY <2>0, <3>1
  <2>3. CASE UNCHANGED dirty
    BY <2>0, <2>3
  <2> QED BY <2>1, <2>2, <2>3, RunFrame
<1>5. commits' \in [Copy -> SUBSET Change]
  <2>0. commits \in [Copy -> SUBSET Change] /\ dirty \in [Copy -> SUBSET Change]
    BY DEF Types
  <2>1. CASE CommitMade
    <3>1. \/ UNCHANGED commits
          \/ commits' = [commits EXCEPT ![WinnerCopy] = @ \union dirty[WinnerCopy]]
      BY <2>1 DEF CommitMade
    <3> QED BY <2>0, <3>1
  <2>2. CASE UNCHANGED commits
    BY <2>0, <2>2
  <2> QED BY <2>1, <2>2, RunFrame
<1>6. remote' \in [Copy -> SUBSET Change]
  <2>0. commits \in [Copy -> SUBSET Change] /\ remote \in [Copy -> SUBSET Change]
    BY DEF Types
  <2>1. CASE Pushed
    <3>1. UNCHANGED remote \/ remote' = [remote EXCEPT ![WinnerCopy] = commits[WinnerCopy]]
      BY <2>1 DEF Pushed
    <3> QED BY <2>0, <3>1
  <2>2. CASE UNCHANGED remote
    BY <2>0, <2>2
  <2> QED BY <2>1, <2>2, RunFrame
<1>7. winners' \in [Attempts -> Task \union {NoTask}]
  BY RunWinners
<1>8. replans' \in Nat /\ disturbed' \subseteq Copy
  BY RunFrame DEF Types
<1> QED BY <1>1, <1>2, <1>3, <1>4, <1>5, <1>6, <1>7, <1>8 DEF Types

-----------------------------------------------------------------------------
(* What a step of one candidate leaves alone *)

\* A step of a candidate does not touch what the run keeps of the others.
LEMMA TaskFrame ==
  ASSUME Types, NEW u \in Task, CandidateStep(u) \/ CandidateRaises(u)
  PROVE  \A t \in Task : t # u => /\ pc'[t] = pc[t]
                                  /\ result'[t] = result[t]
                                  /\ seen'[t] = seen[t]
                                  /\ held'[t] = held[t]
                                  /\ sessions'[t] = sessions[t]
<1>1. \A t \in Task : t # u => pc'[t] = pc[t]
  <2>1. \E p \in TaskPc : Goes(u, p)
    BY Values DEF CandidateStep, CandidateBegins, SessionEnds, CommandsEnd, RepairEnds,
                  VerifyEnds, ReviewEnds, CandidateRaises, Returns, Working
  <2> QED BY <2>1 DEF Goes, Types
<1>2. \A t \in Task : t # u => result'[t] = result[t]
  <2>1. UNCHANGED result \/ \E r \in Outcome : Returns(u, r)
    BY Values DEF CandidateStep, CandidateBegins, SessionEnds, CommandsEnd, RepairEnds,
                  VerifyEnds, ReviewEnds, CandidateRaises, candidate
  <2> QED BY <2>1 DEF Returns, Types
<1>3. \A t \in Task : t # u => seen'[t] = seen[t]
  <2>1. UNCHANGED seen \/ \E tree \in Edits(u, "agent") : seen' = [seen EXCEPT ![u] = tree]
    BY DEF CandidateStep, CandidateBegins, SessionEnds, CommandsEnd, RepairEnds,
           VerifyEnds, ReviewEnds, CandidateRaises, candidate
  <2> QED BY <2>1 DEF Types
<1>4. \A t \in Task : t # u => sessions'[t] = sessions[t]
  <2>1. UNCHANGED sessions \/ sessions' = [sessions EXCEPT ![u] = @ + 1]
    BY DEF CandidateStep, CandidateBegins, SessionEnds, CommandsEnd, RepairEnds,
           VerifyEnds, ReviewEnds, CandidateRaises, candidate
  <2> QED BY <2>1 DEF Types
<1>5. \A t \in Task : t # u => held'[t] = held[t]
  <2>1. UNCHANGED held \/ held' = [held EXCEPT ![u] = dirty[CopyOf(u)]]
    BY DEF CandidateStep, CandidateBegins, SessionEnds, CommandsEnd, RepairEnds,
           VerifyEnds, ReviewEnds, CandidateRaises, history
  <2> QED BY <2>1 DEF Types
<1> QED BY <1>1, <1>2, <1>3, <1>4, <1>5

\* The same of the run itself, which only the failure of a candidate ends.
LEMMA RunUntouched ==
  ASSUME NEW u \in Task, CandidateStep(u) \/ CandidateRaises(u)
  PROVE  /\ UNCHANGED <<attempt, winners, commits, remote>>
         /\ stage' = stage \/ stage' = "idle"
         /\ CandidateRaises(u) => RunIsOver(u) \/ stage' = "idle"
         /\ CandidateStep(u) => stage' = stage
         /\ pc[u] # "off"
<1>1. UNCHANGED <<attempt, winners, commits, remote>>
  BY DEF CandidateStep, CandidateBegins, SessionEnds, CommandsEnd, RepairEnds, VerifyEnds,
         ReviewEnds, CandidateRaises, TaskUnchanged, artifacts
<1>2. CandidateStep(u) => stage' = stage
  BY DEF CandidateStep, CandidateBegins, SessionEnds, CommandsEnd, RepairEnds, VerifyEnds,
         ReviewEnds, TaskUnchanged
<1>3. CandidateRaises(u) => stage' = stage \/ stage' = "idle"
  BY DEF CandidateRaises, RunStops
<1>4. CandidateRaises(u) => RunIsOver(u) \/ stage' = "idle"
  BY DEF CandidateRaises, RunStops
<1>5. pc[u] # "off"
  BY DEF CandidateStep, CandidateBegins, SessionEnds, CommandsEnd, RepairEnds, VerifyEnds,
         ReviewEnds, CandidateRaises, Working
<1> QED BY <1>1, <1>2, <1>3, <1>4, <1>5

\* A candidate changes its own copy only; when its run is over the copy is
\* disturbed.
LEMMA CopyFrame ==
  ASSUME Types, NEW u \in Task, CandidateStep(u) \/ CandidateRaises(u)
  PROVE  /\ \A w \in Copy : w # CopyOf(u) => dirty'[w] = dirty[w]
         /\ RunIsOver(u) => UNCHANGED dirty \/ CopyOf(u) \in disturbed'
         /\ disturbed \subseteq disturbed'
<1>1. UNCHANGED <<dirty, disturbed>> \/ \E tree : Leaves(u, tree)
  BY CopyWritten
<1>2. dirty \in [Copy -> SUBSET Change] /\ CopyOf(u) \in Copy
  BY TaskFacts DEF Types
<1>3. \A w \in Copy : w # CopyOf(u) => dirty'[w] = dirty[w]
  BY <1>1, <1>2 DEF Leaves
<1>4. RunIsOver(u) => UNCHANGED dirty \/ CopyOf(u) \in disturbed'
  BY <1>1, <1>2 DEF Leaves
<1>5. disturbed \subseteq disturbed'
  BY <1>1 DEF Leaves
<1> QED BY <1>3, <1>4, <1>5

\* What is approved stays so.
LEMMA ApprovedGrows ==
  ASSUME NEW u \in Task, CandidateStep(u) \/ CandidateRaises(u)
  PROVE  approved \subseteq approved'
BY DEF CandidateStep, CandidateBegins, SessionEnds, CommandsEnd, RepairEnds, VerifyEnds,
       ReviewEnds, CandidateRaises, history

\* Where the run stands after a step of its own.
LEMMA RunStages ==
  ASSUME RunAction
  PROVE  /\ stage' \in {"prepare", "prepared"} =>
              \/ AttemptStarts
              \/ /\ stage \in {"prepare", "prepared"}
                 /\ UNCHANGED <<attempt, pc, sessions>>
         /\ stage' = "candidates" =>
              \/ CandidatesStart
              \/ /\ stage = "candidates"
                 /\ UNCHANGED <<attempt, pc, sessions, seen, result, held, dirty>>
         /\ stage' \in {"gate", "commit"} =>
              \/ WinnerPromoted
              \/ /\ stage \in {"gate", "commit"}
                 /\ UNCHANGED <<attempt, winners, dirty>>
<1>1. CASE AttemptStarts
  BY <1>1 DEF AttemptStarts
<1>2. CASE PrimaryPrepared
  BY <1>2 DEF PrimaryPrepared, candidate, RunStops
<1>3. CASE CandidatesStart
  BY <1>3 DEF CandidatesStart
<1>4. CASE AllFail \/ SelectionRaises
  BY <1>4 DEF AllFail, SelectionRaises, Finalizes, RunStops
<1>5. CASE WinnerPromoted
  BY <1>5 DEF WinnerPromoted
<1>6. CASE ProofDecides
  <2>1. \/ stage' = "report"
        \/ stage' = "commit" /\ stage = "gate" /\ UNCHANGED <<attempt, winners, dirty>>
    BY <1>6 DEF ProofDecides, Finalizes, git
  <2> QED BY <2>1
<1>7. CASE CommitMade
  <2>1. stage' \in {"report", "push"}
    BY <1>7 DEF CommitMade, Finalizes
  <2> QED BY <2>1
<1>8. CASE Pushed \/ Proposed
  <2>1. stage' \in {"propose", "publish", "idle"}
    BY <1>8 DEF Pushed, Proposed, RunStops
  <2> QED BY <2>1
<1>9. CASE Completed \/ Reported \/ RunRaises
  <2>1. stage' \in {"report", "idle"}
    BY <1>9 DEF Completed, Reported, RunRaises, RunStops
  <2> QED BY <2>1
<1>10. CASE PullRequestCloses \/ OtherIssuePrepares
  BY <1>10 DEF PullRequestCloses, OtherIssuePrepares, candidate, control, git, artifacts, history
<1>11. CASE Hangs
  BY <1>11, HangFrame DEF control, git, artifacts, history
<1> QED BY <1>1, <1>2, <1>3, <1>4, <1>5, <1>6, <1>7, <1>8, <1>9, <1>10, <1>11
        DEF RunAction, RunStep

-----------------------------------------------------------------------------
(* Every part of the invariant is kept by every step *)

\* The steps of the system, sorted.
LEMMA NextSplits ==
  ASSUME Next
  PROVE  \/ RunAction
         \/ \E u \in Task : CandidateStep(u) \/ CandidateRaises(u)
         \/ \E u \in Task : LeftBehindWrites(u)
BY DEF Next, RunAction, Hangs

\* No step but the start of its candidates gives a task of an attempt to come
\* a place or a session.
LEMMA KeepsFutureEmpty ==
  ASSUME IInv, Next
  PROVE  FutureIsEmpty'
<1> SUFFICES ASSUME NEW t \in Task,
                    \/ t[1] > attempt'
                    \/ t[1] = attempt' /\ stage' \in {"prepare", "prepared"}
             PROVE  pc'[t] = "off" /\ sessions'[t] = 0
  BY DEF FutureIsEmpty
<1>0. Types /\ FutureIsEmpty /\ t[1] \in Nat /\ attempt \in Nat
  <2>1. Types /\ FutureIsEmpty
    BY DEF IInv
  <2>2. t[1] \in 1..MaxAttempts
    BY TaskFacts DEF Attempts
  <2> QED BY <2>1, <2>2, ConstantFacts DEF Types
<1>1. CASE AttemptStarts
  <2>1. /\ attempt' = attempt + 1
        /\ pc'[t] = IF Ended(t) THEN "off" ELSE pc[t]
        /\ sessions'[t] = IF Ended(t) /\ t # views.of THEN 0 ELSE sessions[t]
    BY <1>1 DEF AttemptStarts
  <2>2. t[1] > attempt
    BY <1>0, <2>1
  <2>3. pc[t] = "off" /\ sessions[t] = 0
    BY <1>0, <2>2 DEF FutureIsEmpty
  <2> QED BY <2>1, <2>3
<1>2. CASE CandidatesStart
  <2>1. PICK lane \in Lanes[attempt], first \in {"queued", "risky"} :
          pc' = [v \in Task |-> IF v[1] = attempt /\ v[2] \in lane THEN first ELSE pc[v]]
    BY <1>2 DEF CandidatesStart
  <2>2. attempt' = attempt /\ sessions' = sessions /\ stage' = "candidates"
    BY <1>2 DEF CandidatesStart, candidate
  <2>3. t[1] > attempt
    BY <2>2
  <2>4. pc'[t] = pc[t]
    BY <1>0, <2>1, <2>3
  <2> QED BY <1>0, <2>2, <2>3, <2>4 DEF FutureIsEmpty
<1>3. ASSUME RunAction, ~AttemptStarts, ~CandidatesStart
      PROVE  pc'[t] = "off" /\ sessions'[t] = 0
  <2>1. UNCHANGED <<attempt, pc, sessions>>
    BY <1>3, RunFrame
  <2>2. stage' \in {"prepare", "prepared"} => stage \in {"prepare", "prepared"}
    BY <1>3, RunStages
  <2> QED BY <1>0, <2>1, <2>2 DEF FutureIsEmpty
<1>4. ASSUME NEW u \in Task, CandidateStep(u) \/ CandidateRaises(u)
      PROVE  pc'[t] = "off" /\ sessions'[t] = 0
  <2>1. attempt' = attempt /\ (stage' = stage \/ stage' = "idle") /\ pc[u] # "off"
    BY <1>4, RunUntouched
  <2>2. pc[t] = "off" /\ sessions[t] = 0
    BY <1>0, <2>1 DEF FutureIsEmpty
  <2> QED BY <1>0, <1>4, <2>1, <2>2, TaskFrame
<1>5. ASSUME NEW u \in Task, LeftBehindWrites(u)
      PROVE  pc'[t] = "off" /\ sessions'[t] = 0
  BY <1>0, <1>5, LeftBehindFrame DEF FutureIsEmpty
<1> QED BY <1>1, <1>2, <1>3, <1>4, <1>5, NextSplits

\* A candidate gets its second session from the fast repair of its first, and
\* none from that of its second.
LEMMA KeepsSessionsCounted ==
  ASSUME IInv, Next
  PROVE  SessionsCounted'
<1> SUFFICES ASSUME NEW t \in Task
             PROVE  /\ pc'[t] \in {"queued", "risky"} => sessions'[t] = 0
                    /\ pc'[t] = "session" => sessions'[t] <= 1
                    /\ sessions'[t] <= 2
  BY DEF SessionsCounted
<1>0. /\ pc[t] \in {"queued", "risky"} => sessions[t] = 0
      /\ pc[t] = "session" => sessions[t] <= 1
      /\ sessions[t] <= 2
      /\ sessions[t] \in Nat
  BY DEF IInv, SessionsCounted, Types
<1>1. CASE AttemptStarts
  <2>1. /\ pc'[t] = IF Ended(t) THEN "off" ELSE pc[t]
        /\ sessions'[t] = IF Ended(t) /\ t # views.of THEN 0 ELSE sessions[t]
    BY <1>1 DEF AttemptStarts
  <2> QED BY <1>0, <2>1
<1>2. CASE CandidatesStart
  <2>1. PICK lane \in Lanes[attempt], first \in {"queued", "risky"} :
          pc' = [v \in Task |-> IF v[1] = attempt /\ v[2] \in lane THEN first ELSE pc[v]]
    BY <1>2 DEF CandidatesStart
  <2>2. sessions' = sessions /\ stage = "prepared"
    BY <1>2 DEF CandidatesStart, candidate
  <2>3. t[1] = attempt => sessions[t] = 0
    BY <2>2 DEF IInv, FutureIsEmpty
  <2>4. pc'[t] = pc[t] \/ (t[1] = attempt /\ pc'[t] \in {"queued", "risky"})
    BY <2>1
  <2> QED BY <1>0, <2>2, <2>3, <2>4
<1>3. ASSUME RunAction, ~AttemptStarts, ~CandidatesStart
      PROVE  pc'[t] = pc[t] /\ sessions'[t] = sessions[t]
  BY <1>3, RunFrame
<1>4. ASSUME NEW u \in Task, CandidateStep(u) \/ CandidateRaises(u), u # t
      PROVE  pc'[t] = pc[t] /\ sessions'[t] = sessions[t]
  BY <1>4, TaskFrame DEF IInv
<1>5. ASSUME CandidateStep(t) \/ CandidateRaises(t)
      PROVE  /\ pc'[t] \in {"queued", "risky"} => sessions'[t] = 0
             /\ pc'[t] = "session" => sessions'[t] <= 1
             /\ sessions'[t] <= 2
  <2>0. pc \in [Task -> TaskPc] /\ sessions \in [Task -> Nat]
    BY DEF IInv, Types
  <2>1. CASE CandidateBegins(t)
    <3>1. sessions' = sessions /\ pc[t] \in {"queued", "risky"} /\ pc'[t] \in {"done", "session"}
      BY <2>0, <2>1 DEF CandidateBegins, Returns, Goes
    <3> QED BY <1>0, <3>1
  <2>2. CASE SessionEnds(t)
    <3>1. /\ pc[t] = "session"
          /\ sessions'[t] = sessions[t] + 1
          /\ pc'[t] \in {"commands", "done"}
      BY <2>0, <2>2 DEF SessionEnds, Returns, Goes
    <3> QED BY <1>0, <3>1
  <2>3. CASE RepairEnds(t)
    <3>1. /\ sessions' = sessions
          /\ pc'[t] \in {"done", "verify"} \/ (pc'[t] = "session" /\ sessions[t] = 1)
      BY <2>0, <2>3 DEF RepairEnds, Returns, Goes
    <3> QED BY <1>0, <3>1
  <2>4. CASE CommandsEnd(t) \/ VerifyEnds(t) \/ ReviewEnds(t)
    <3>1. sessions' = sessions /\ pc'[t] \in {"done", "repair", "review"}
      BY <2>0, <2>4 DEF CommandsEnd, VerifyEnds, ReviewEnds, Returns, Goes
    <3> QED BY <1>0, <3>1
  <2>5. CASE CandidateRaises(t)
    <3>1. sessions' = sessions /\ pc'[t] = "raised"
      BY <2>0, <2>5 DEF CandidateRaises, Goes, candidate
    <3> QED BY <1>0, <3>1
  <2> QED BY <1>5, <2>1, <2>2, <2>3, <2>4, <2>5 DEF CandidateStep
<1>6. ASSUME NEW u \in Task, LeftBehindWrites(u)
      PROVE  pc'[t] = pc[t] /\ sessions'[t] = sessions[t]
  BY <1>6, LeftBehindFrame DEF IInv
<1> QED BY <1>0, <1>1, <1>2, <1>3, <1>4, <1>5, <1>6, NextSplits

\* A replan is counted below the limit only.
LEMMA KeepsReplansBounded ==
  ASSUME IInv, Next
  PROVE  ReplansBounded'
<1>0. replans <= MaxReplans /\ replans \in Nat
  BY DEF IInv, ReplansBounded, Types
<1>1. UNCHANGED replans \/ CountsReplan
  <2>1. ASSUME NEW u \in Task, CandidateStep(u) \/ CandidateRaises(u)
        PROVE  UNCHANGED replans \/ CountsReplan
    BY <2>1 DEF CandidateStep, CandidateBegins, SessionEnds, CommandsEnd, RepairEnds,
                VerifyEnds, ReviewEnds, CandidateRaises
  <2>2. ASSUME RunAction PROVE UNCHANGED replans
    BY <2>2, RunFrame
  <2>3. ASSUME NEW u \in Task, LeftBehindWrites(u) PROVE UNCHANGED replans
    BY <2>3, LeftBehindFrame DEF IInv
  <2> QED BY <2>1, <2>2, <2>3, NextSplits
<1> QED BY <1>0, <1>1, ConstantFacts DEF CountsReplan, ReplansBounded

\* A step of a candidate leaves in its copy what is listed, or what its commands
\* have made; and a review that approves takes the copy as it is.
LEMMA OwnStepIsListed ==
  ASSUME IInv, NEW t \in Task, CandidateStep(t), Current(t), CopyOf(t) \notin disturbed
  PROVE  CopyIsListed(t)'
<1>0. /\ pc \in [Task -> TaskPc]
      /\ result \in [Task -> Outcome]
      /\ seen \in [Task -> SUBSET Change]
      /\ held \in [Task -> SUBSET Change]
      /\ dirty \in [Copy -> SUBSET Change]
      /\ CopyOf(t) \in Copy
      /\ Types
  BY TaskFacts DEF IInv, Types
<1>1. pc[t] \in Working \ {"session"} => \A c \in dirty[CopyOf(t)] : Listed(t, c)
  BY DEF IInv, CheckedIsListed, CopyIsListed, Checked
<1>2. CASE CandidateBegins(t)
  <2>1. pc'[t] = "session" \/ (pc'[t] = "done" /\ result'[t] = "Human Review")
    BY <1>0, <1>2 DEF CandidateBegins, Returns, Goes
  <2> QED BY <2>1 DEF CopyIsListed, Checked, Succeeded, Working
<1>3. CASE SessionEnds(t)
  <2>1. PICK tree : Leaves(t, tree) /\ seen' = [seen EXCEPT ![t] = tree]
    BY <1>3 DEF SessionEnds
  <2>2. dirty'[CopyOf(t)] = seen'[t]
    BY <1>0, <2>1 DEF Leaves
  <2>3. pc'[t] = "commands" \/ result'[t] = "Rework"
    BY <1>0, <1>3 DEF SessionEnds, Returns, Goes
  <2> QED BY <2>2, <2>3 DEF CopyIsListed, Succeeded, Listed, CopyOf
<1>4. CASE CommandsEnd(t) \/ RepairEnds(t)
  <2>1. PICK tree \in Edits(t, "command") : Leaves(t, tree)
    BY <1>4 DEF CommandsEnd, RepairEnds
  <2>2. UNCHANGED seen /\ pc[t] \in Working \ {"session"}
    BY <1>4 DEF CommandsEnd, RepairEnds, Working
  <2>3. \/ pc'[t] \in {"repair", "session", "verify"}
        \/ result'[t] \in {"Human Review", "Blocked"}
    BY <1>0, <1>4 DEF CommandsEnd, RepairEnds, Returns, Goes
  <2>4. dirty'[CopyOf(t)] = tree
    BY <1>0, <2>1 DEF Leaves
  <2>5. \A c \in tree : c \in dirty[CopyOf(t)] \/ (c.how = "command" /\ c.by = t)
    BY <1>0, <2>1, EditsAreChanges
  <2>6. \A c \in dirty'[CopyOf(t)] : Listed(t, c)'
    BY <1>1, <2>2, <2>4, <2>5 DEF Listed
  <2> QED BY <2>3, <2>6 DEF CopyIsListed, Succeeded, CopyOf
<1>5. CASE VerifyEnds(t) \/ ReviewEnds(t)
  <2>1. UNCHANGED <<dirty, seen>> /\ pc[t] \in Working \ {"session"}
    BY <1>5 DEF VerifyEnds, ReviewEnds, Working
  <2>2. \/ pc'[t] = "review"
        \/ result'[t] = "Rework"
        \/ held'[t] = dirty[CopyOf(t)]
    BY <1>0, <1>5 DEF VerifyEnds, ReviewEnds, Returns, Goes
  <2> QED BY <1>1, <2>1, <2>2 DEF CopyIsListed, Succeeded, Listed, CopyOf
<1> QED BY <1>2, <1>3, <1>4, <1>5 DEF CandidateStep

\* What the checks of a candidate look at is what its last session and its
\* commands have left: only a task of another attempt shares the copy, and it
\* disturbs it.
LEMMA KeepsCheckedListed ==
  ASSUME IInv, Next
  PROVE  CheckedIsListed'
<1> SUFFICES ASSUME NEW t \in Task,
                    t[1] = attempt', stage' = "candidates",
                    CopyOf(t) \notin disturbed'
             PROVE  CopyIsListed(t)'
  BY DEF CheckedIsListed, Current, CopyOf
<1>0. Types /\ CopyOf(t) \in Copy
  BY TaskFacts DEF IInv
<1>1. CASE CandidatesStart
  <2>1. PICK lane \in Lanes[attempt], first \in {"queued", "risky"} :
          pc' = [v \in Task |-> IF v[1] = attempt /\ v[2] \in lane THEN first ELSE pc[v]]
    BY <1>1 DEF CandidatesStart
  <2>2. attempt' = attempt /\ stage = "prepared"
    BY <1>1 DEF CandidatesStart
  <2>3. pc[t] = "off"
    BY <2>2 DEF IInv, FutureIsEmpty
  <2>4. pc'[t] \in {"off", "queued", "risky"}
    BY <2>1, <2>3
  <2> QED BY <2>4 DEF CopyIsListed, Checked, Succeeded, Working
<1>2. ASSUME RunAction, ~CandidatesStart
      PROVE  CopyIsListed(t)'
  <2>1. stage = "candidates" /\ UNCHANGED <<attempt, pc, seen, result, held, dirty, disturbed>>
    BY <1>2, RunStages, RunFrame
  <2>2. CopyIsListed(t)
    BY <2>1 DEF IInv, CheckedIsListed, Current
  <2> QED BY <2>1, <2>2 DEF CopyIsListed, Checked, Succeeded, Listed, CopyOf
<1>3. ASSUME NEW u \in Task, CandidateStep(u) \/ CandidateRaises(u)
      PROVE  CopyIsListed(t)'
  <2>1. attempt' = attempt /\ stage = "candidates"
    BY <1>3, RunUntouched
  <2>2. Current(t) /\ CopyOf(t) \notin disturbed
    BY <1>0, <1>3, <2>1, CopyFrame DEF Current
  <2>3. CASE u # t
    <3>1. /\ pc'[t] = pc[t] /\ result'[t] = result[t]
          /\ seen'[t] = seen[t] /\ held'[t] = held[t]
      BY <1>0, <1>3, <2>3, TaskFrame
    <3>2. CopyIsListed(t)
      BY <2>2 DEF IInv, CheckedIsListed
    <3>3. dirty'[CopyOf(t)] = dirty[CopyOf(t)]
      <4>1. CASE CopyOf(u) # CopyOf(t)
        BY <1>0, <1>3, <4>1, CopyFrame
      <4>2. CASE CopyOf(u) = CopyOf(t)
        <5>1. u[1] # t[1]
          BY <2>3, <4>2, CopiesApart
        <5>2. RunIsOver(u)
          BY <2>1, <5>1 DEF RunIsOver
        <5> QED BY <1>0, <1>3, <4>2, <5>2, CopyFrame
      <4> QED BY <4>1, <4>2
    <3> QED BY <3>1, <3>2, <3>3 DEF CopyIsListed, Checked, Succeeded, Listed, CopyOf
  <2>4. CASE u = t
    <3>1. ~CandidateRaises(t)
      <4>1. ~RunIsOver(t)
        BY <2>2 DEF Current, RunIsOver
      <4> QED BY <4>1, <2>4, RunUntouched
    <3>2. CandidateStep(t)
      BY <1>3, <2>4, <3>1
    <3> QED BY <2>2, <3>2, OwnStepIsListed
  <2> QED BY <2>3, <2>4
<1>4. ASSUME NEW u \in Task, LeftBehindWrites(u)
      PROVE  CopyIsListed(t)'
  <2>1. UNCHANGED <<attempt, stage, pc, seen, result, held>>
    BY <1>0, <1>4, LeftBehindFrame
  <2>2. CopyOf(t) \notin disturbed /\ CopyOf(u) # CopyOf(t)
    BY <1>0, <1>4, LeftBehindFrame
  <2>3. dirty'[CopyOf(t)] = dirty[CopyOf(t)]
    BY <1>0, <1>4, <2>2, LeftBehindFrame
  <2>4. CopyIsListed(t)
    BY <2>1, <2>2 DEF IInv, CheckedIsListed, Current
  <2> QED BY <2>1, <2>3, <2>4 DEF CopyIsListed, Checked, Succeeded, Listed, CopyOf
<1> QED BY <1>1, <1>2, <1>3, <1>4, NextSplits

\* A success comes from the review, which has looked at the listed changes.
LEMMA KeepsSuccessReviewed ==
  ASSUME IInv, Next
  PROVE  SuccessIsReviewed'
<1> SUFFICES ASSUME NEW t \in Task,
                    t[1] = attempt', stage' = "candidates",
                    pc'[t] = "done", result'[t] = "success"
             PROVE  seen'[t] \subseteq approved'
  BY DEF SuccessIsReviewed, Current, Succeeded
<1>0. Types
  BY DEF IInv
<1>1. CASE CandidatesStart
  <2>1. PICK lane \in Lanes[attempt], first \in {"queued", "risky"} :
          pc' = [v \in Task |-> IF v[1] = attempt /\ v[2] \in lane THEN first ELSE pc[v]]
    BY <1>1 DEF CandidatesStart
  <2>2. attempt' = attempt /\ stage = "prepared"
    BY <1>1 DEF CandidatesStart
  <2>3. pc[t] = "off"
    BY <2>2 DEF IInv, FutureIsEmpty
  <2>4. pc'[t] \in {"off", "queued", "risky"}
    BY <2>1, <2>3
  <2> QED BY <2>4
<1>2. ASSUME RunAction, ~CandidatesStart
      PROVE  seen'[t] \subseteq approved'
  <2>1. stage = "candidates" /\ UNCHANGED <<attempt, pc, seen, result, approved>>
    BY <1>2, RunStages, RunFrame
  <2> QED BY <2>1 DEF IInv, SuccessIsReviewed, Current, Succeeded
<1>3. ASSUME NEW u \in Task, CandidateStep(u) \/ CandidateRaises(u)
      PROVE  seen'[t] \subseteq approved'
  <2>1. attempt' = attempt /\ stage = "candidates" /\ approved \subseteq approved'
    BY <1>3, RunUntouched, ApprovedGrows
  <2>2. ASSUME pc[t] = "done", result[t] = "success"
        PROVE  seen[t] \subseteq approved'
    BY <2>1, <2>2 DEF IInv, SuccessIsReviewed, Current, Succeeded
  <2>3. CASE u # t
    <3>1. pc'[t] = pc[t] /\ result'[t] = result[t] /\ seen'[t] = seen[t]
      BY <1>0, <1>3, <2>3, TaskFrame
    <3> QED BY <2>2, <3>1
  <2>4. CASE u = t
    <3>0. pc \in [Task -> TaskPc] /\ result \in [Task -> Outcome]
      BY <1>0 DEF Types
    <3>1. CASE ReviewEnds(t)
      <4>1. seen' = seen /\ (result'[t] = "Rework" \/ approved' = approved \union seen[t])
        BY <3>0, <3>1 DEF ReviewEnds, Returns
      <4> QED BY <4>1
    <3>2. CASE CandidateBegins(t) \/ SessionEnds(t)
      <4>1. pc'[t] = "session" \/ pc'[t] = "commands" \/ result'[t] \in {"Human Review", "Rework"}
        BY <3>0, <3>2 DEF CandidateBegins, SessionEnds, Returns, Goes
      <4> QED BY <4>1
    <3>3. CASE CommandsEnd(t) \/ RepairEnds(t) \/ VerifyEnds(t)
      <4>1. \/ pc'[t] \in {"repair", "session", "verify", "review"}
            \/ result'[t] \in {"Human Review", "Blocked", "Rework"}
        BY <3>0, <3>3 DEF CommandsEnd, RepairEnds, VerifyEnds, Returns, Goes
      <4> QED BY <4>1
    <3>4. CASE CandidateRaises(t)
      <4>1. pc'[t] = "raised"
        BY <3>0, <3>4 DEF CandidateRaises, Goes
      <4> QED BY <4>1
    <3> QED BY <1>3, <2>4, <3>1, <3>2, <3>3, <3>4 DEF CandidateStep
  <2> QED BY <2>3, <2>4
<1>4. ASSUME NEW u \in Task, LeftBehindWrites(u)
      PROVE  seen'[t] \subseteq approved'
  BY <1>0, <1>4, LeftBehindFrame DEF IInv, SuccessIsReviewed, Current, Succeeded
<1> QED BY <1>1, <1>2, <1>3, <1>4, NextSplits

-----------------------------------------------------------------------------
(* The theorems *)

\* Every step keeps the invariant.
THEOREM NextIInv == IInv /\ [Next]_vars => IInv'
<1> SUFFICES ASSUME IInv, [Next]_vars PROVE IInv'
  OBVIOUS
<1>1. CASE Next
  <2>1. Types'
    BY <1>1, NextSplits, RunTypes, CandidateTypes, LeftBehindFrame DEF IInv
  <2>2. FutureIsEmpty' /\ SessionsCounted' /\ ReplansBounded'
    BY <1>1, KeepsFutureEmpty, KeepsSessionsCounted, KeepsReplansBounded
  <2>3. CheckedIsListed' /\ SuccessIsReviewed'
    BY <1>1, KeepsCheckedListed, KeepsSuccessReviewed
  <2> QED BY <2>1, <2>2, <2>3 DEF IInv
<1>2. CASE UNCHANGED vars
  <2>1. UNCHANGED <<attempt, stage, pc, sessions, seen, result, dirty, commits, remote>>
    BY <1>2 DEF vars, control, candidate, git
  <2>2. UNCHANGED <<winners, replans, approved, held, disturbed>>
    BY <1>2 DEF vars, artifacts, history
  <2>3. Types'
    BY <2>1, <2>2 DEF IInv, Types
  <2>4. FutureIsEmpty' /\ SessionsCounted' /\ ReplansBounded'
    BY <2>1, <2>2 DEF IInv, FutureIsEmpty, SessionsCounted, ReplansBounded
  <2>5. CheckedIsListed' /\ SuccessIsReviewed'
    BY <2>1, <2>2 DEF IInv, CheckedIsListed, SuccessIsReviewed, Current, CopyIsListed, Checked,
                      Succeeded, Listed, CopyOf
  <2> QED BY <2>3, <2>4, <2>5 DEF IInv
<1> QED BY <1>1, <1>2

\* The invariant holds in every behaviour.
THEOREM Invariance == Spec => []IInv
<1>1. Init => IInv
  BY InitIInv
<1>2. IInv /\ [Next]_vars => IInv'
  BY NextIInv
<1> QED BY <1>1, <1>2, PTL DEF Spec

\* A candidate is handed over once in an attempt (_execute_candidate).
THEOREM OneHandoffHolds == Spec => []OneHandoff
<1>1. IInv => OneHandoff
  BY DEF IInv, SessionsCounted, OneHandoff
<1> QED BY <1>1, Invariance, PTL

\* The replans of an issue stay within the limit (_maybe_write_replan_reason).
THEOREM ReplansBoundedHolds == Spec => []ReplansBounded
<1>1. IInv => ReplansBounded
  BY DEF IInv
<1> QED BY <1>1, Invariance, PTL

-----------------------------------------------------------------------------
(* The settled manifest *)

InDelivery == {"gate", "commit", "push", "propose", "publish"}

\* Success is written ahead while the manifest is not settled, and a candidate
\* does not report the state in which it works.
SInv == /\ SettledAgrees
        /\ stage \in InDelivery => manifest = "winner_selected"
        /\ stage # "idle" => attempt \in Attempts
        /\ \A t \in Task : result[t] # "In Progress"

\* A step of a candidate writes no summary, and no manifest.
LEMMA CandidateSettled ==
  ASSUME Types, SInv, NEW u \in Task, CandidateStep(u) \/ CandidateRaises(u)
  PROVE  SInv'
<1>1. UNCHANGED <<manifest, summary>>
  BY DEF CandidateStep, CandidateBegins, SessionEnds, CommandsEnd, RepairEnds, VerifyEnds,
         ReviewEnds, CandidateRaises, TaskUnchanged, artifacts
<1>2. status' = status \/ status' = "Rework"
  BY DEF CandidateStep, CandidateBegins, SessionEnds, CommandsEnd, RepairEnds, VerifyEnds,
         ReviewEnds, CandidateRaises, TaskUnchanged, RunStops
<1>3. stage' = stage \/ stage' = "idle"
  BY RunUntouched
<1>4. \A t \in Task : result'[t] # "In Progress"
  <2>1. \/ UNCHANGED result
        \/ \E r \in {"success", "Human Review", "Rework", "Blocked"} : Returns(u, r)
    BY DEF CandidateStep, CandidateBegins, SessionEnds, CommandsEnd, RepairEnds,
           VerifyEnds, ReviewEnds, CandidateRaises, candidate
  <2> QED BY <2>1 DEF SInv, Types, Returns
<1>5. stage' # "idle" => attempt' \in Attempts'
  BY <1>3, RunUntouched DEF SInv, Attempts
<1> QED BY <1>1, <1>2, <1>3, <1>4, <1>5 DEF SInv, SettledAgrees, InDelivery

\* Nor does what is left behind.
LEMMA LeftBehindSettled ==
  ASSUME Types, SInv, NEW u \in Task, LeftBehindWrites(u)
  PROVE  SInv'
<1>1. UNCHANGED <<attempt, stage, result, manifest, summary, status>>
  BY LeftBehindFrame
<1> QED BY <1>1 DEF SInv, SettledAgrees, InDelivery, Attempts

\* Where the run settles the manifest it writes the summary and the status too.
LEMMA RunSettled ==
  ASSUME Types, SInv, RunAction
  PROVE  SInv'
<1>0. stage' # "idle" => attempt' \in Attempts'
  <2>1. CASE AttemptStarts
    <3>1. attempt' = attempt + 1 /\ attempt < MaxAttempts /\ attempt \in 0..MaxAttempts
      BY <2>1 DEF AttemptStarts, Types
    <3>2. attempt' \in 1..MaxAttempts
      BY <3>1, ConstantFacts
    <3> QED BY <3>2 DEF Attempts
  <2>2. CASE PullRequestCloses \/ OtherIssuePrepares \/ Hangs
    BY <2>2, HangFrame DEF PullRequestCloses, OtherIssuePrepares, control, SInv, Attempts
  <2>3. CASE RunStep \/ RunRaises
    <3>1. stage # "idle" /\ attempt' = attempt
      BY <2>3 DEF RunStep, RunRaises, PrimaryPrepared, CandidatesStart, AllFail, SelectionRaises,
                  AllReturned, WinnerPromoted, ProofDecides, CommitMade, Pushed, Proposed,
                  Completed, Reported
    <3> QED BY <3>1 DEF SInv, Attempts
  <2> QED BY <2>1, <2>2, <2>3 DEF RunAction
<1>1. \A t \in Task : result'[t] # "In Progress"
  <2>1. CASE AttemptStarts
    BY <2>1 DEF AttemptStarts
  <2>2. CASE ~AttemptStarts
    BY <2>2, RunFrame DEF SInv
  <2> QED BY <2>1, <2>2
<1>2. CASE AttemptStarts
  <2>1. stage' = "prepare" /\ manifest' = ""
    BY <1>2 DEF AttemptStarts
  <2> QED BY <1>0, <1>1, <2>1 DEF SInv, SettledAgrees, InDelivery
<1>3. CASE PrimaryPrepared
  <2>1. \/ stage' = "idle" /\ status' = "Rework" /\ UNCHANGED <<manifest, summary>>
        \/ stage' = "prepared" /\ manifest' = "running"
    BY <1>3 DEF PrimaryPrepared, RunStops
  <2> QED BY <1>0, <1>1, <2>1 DEF SInv, SettledAgrees, InDelivery
<1>4. CASE AllFail
  <2>1. /\ stage' = "report" /\ manifest' = "failed" /\ summary' = "failure"
        /\ status' = result[<<attempt, "primary">>]
    BY <1>4 DEF AllFail, Closes, Finalizes
  <2>2. status' # "In Progress"
    <3>1. <<attempt, "primary">> \in Task
      <4>1. attempt \in Attempts
        BY <1>4 DEF AllFail, AllReturned, SInv
      <4> QED BY <4>1 DEF Task
    <3> QED BY <2>1, <3>1 DEF SInv
  <2> QED BY <1>0, <1>1, <2>1, <2>2 DEF SInv, SettledAgrees, InDelivery
<1>5. CASE WinnerPromoted
  <2>1. stage' = "gate" /\ manifest' = "winner_selected"
    BY <1>5 DEF WinnerPromoted, Closes
  <2> QED BY <1>0, <1>1, <2>1 DEF SInv, SettledAgrees, InDelivery
<1>6. CASE ProofDecides
  <2>1. \/ stage = "gate" /\ stage' = "commit" /\ manifest' = manifest
        \/ /\ stage' = "report" /\ manifest' = "failed" /\ summary' = "failure"
           /\ status' = "Rework"
    BY <1>6 DEF ProofDecides, Closes, Finalizes
  <2> QED BY <1>0, <1>1, <2>1 DEF SInv, SettledAgrees, InDelivery
<1>7. CASE CommitMade
  <2>1. \/ stage = "commit" /\ stage' = "push" /\ manifest' = manifest
        \/ /\ stage' = "report" /\ manifest' = "failed" /\ summary' = "failure"
           /\ status' = "Rework"
    BY <1>7 DEF CommitMade, Closes, Finalizes
  <2> QED BY <1>0, <1>1, <2>1 DEF SInv, SettledAgrees, InDelivery
<1>8. CASE Pushed \/ Proposed
  <2>1. /\ stage \in InDelivery
        /\ stage' \in {"propose", "publish", "idle"}
        /\ manifest' = manifest
    BY <1>8 DEF Pushed, Proposed, RunStops, artifacts, InDelivery
  <2> QED BY <1>0, <1>1, <2>1 DEF SInv, SettledAgrees, InDelivery
<1>9. CASE Completed
  <2>1. /\ stage' = "report" /\ manifest' = "completed" /\ summary' = "success"
        /\ status' = "Human Review"
    BY <1>9 DEF Completed, Closes
  <2> QED BY <1>0, <1>1, <2>1 DEF SInv, SettledAgrees, InDelivery
<1>10. CASE SelectionRaises \/ RunRaises
  <2>1. stage' = "idle" /\ status' = "Rework" /\ UNCHANGED <<manifest, summary>>
    BY <1>10 DEF SelectionRaises, RunRaises, RunStops, artifacts
  <2> QED BY <1>0, <1>1, <2>1 DEF SInv, SettledAgrees, InDelivery
<1>11. CASE CandidatesStart \/ Reported
  <2>1. stage' \in {"candidates", "idle"} /\ UNCHANGED <<manifest, summary, status>>
    BY <1>11 DEF CandidatesStart, Reported, artifacts
  <2> QED BY <1>0, <1>1, <2>1 DEF SInv, SettledAgrees, InDelivery
<1>12. CASE PullRequestCloses \/ OtherIssuePrepares \/ Hangs
  <2>1. UNCHANGED <<stage, manifest, summary, status>>
    BY <1>12, HangFrame DEF PullRequestCloses, OtherIssuePrepares, control, artifacts
  <2> QED BY <1>0, <1>1, <2>1 DEF SInv, SettledAgrees, InDelivery
<1> QED BY <1>2, <1>3, <1>4, <1>5, <1>6, <1>7, <1>8, <1>9, <1>10, <1>11, <1>12
        DEF RunAction, RunStep

\* What a settled manifest rests on, in every reachable state.
THEOREM SettledInvariance == Spec => []SInv
<1>1. Init => SInv
  BY DEF Init, SInv, SettledAgrees, InDelivery
<1>2. IInv /\ SInv /\ [Next]_vars => SInv'
  <2> SUFFICES ASSUME IInv, SInv, [Next]_vars PROVE SInv'
    OBVIOUS
  <2>1. CASE Next
    BY <2>1, NextSplits, RunSettled, CandidateSettled, LeftBehindSettled DEF IInv
  <2>2. CASE UNCHANGED vars
    BY <2>2 DEF SInv, SettledAgrees, vars, control, candidate, artifacts
  <2> QED
    BY <2>1, <2>2
<1> QED
  BY <1>1, <1>2, Invariance, PTL DEF Spec

\* A settled manifest, final_summary.json and meta.json agree (_finalize_failure
\* and the end of execute_run).
THEOREM SettledAgreesHolds == Spec => []SettledAgrees
<1>1. SInv => SettledAgrees
  BY DEF SInv
<1> QED BY <1>1, SettledInvariance, PTL

-----------------------------------------------------------------------------
(* The types of all variables                                              *)

\* The domains that the argument so far had no need of.
Rest ==
  /\ stage \in Stage
  /\ slots \in [Attempts -> Nat]
  /\ populated \in BOOLEAN
  /\ branch \in [Copy -> {"none", "own", "mirror", "pruned"}]
  /\ openPrs \subseteq Copy
  /\ manifest \in {"", "running", "winner_selected", "completed", "failed"}
  /\ views.of \in Task \union {NoTask}
  /\ summary \in {"", "success", "failure"}
  /\ status \in IssueState
  /\ faults \in 0..MaxFaults
  /\ hung \subseteq Task \union {NoTask}
  /\ approved \subseteq Change

\* A task that has returned has a result, and the first candidate always runs:
\* the state of a run in which all fail is one of the issue.
DoneHasResult ==
  /\ \A t \in Task : pc[t] = "done" => result[t] # ""
  /\ stage = "candidates" => pc[<<attempt, "primary">>] # "off"

TInv == Rest /\ DoneHasResult

\* The run has taken one of its slots for each candidate at most.
LEMMA LaneIsFinite == \A lane \in SUBSET {"primary", "alt1"} : Cardinality(lane) \in Nat
<1> SUFFICES ASSUME NEW lane \in SUBSET {"primary", "alt1"} PROVE Cardinality(lane) \in Nat
  OBVIOUS
<1>1. IsFiniteSet({"primary"}) /\ IsFiniteSet({"alt1"})
  BY FS_Singleton
<1>2. IsFiniteSet({"primary"} \union {"alt1"})
  BY <1>1, FS_Union
<1>3. lane \subseteq {"primary"} \union {"alt1"}
  OBVIOUS
<1>4. IsFiniteSet(lane)
  BY <1>2, <1>3, FS_Subset
<1> QED
  BY <1>4, FS_CardinalityType

\* A fetch prunes branches, and a preparation makes one.
LEMMA BranchTypes ==
  ASSUME branch \in [Copy -> {"none", "own", "mirror", "pruned"}], NEW w \in Copy
  PROVE  /\ Fetched \in [Copy -> {"none", "own", "mirror", "pruned"}]
         /\ Prepared(w) \in [Copy -> {"none", "own", "mirror", "pruned"}]
<1>1. Fetched \in [Copy -> {"none", "own", "mirror", "pruned"}]
  BY DEF Fetched
<1> QED
  BY <1>1 DEF Prepared

\* A step of a candidate keeps the rest in its type.
LEMMA CandidateRest ==
  ASSUME Types, TInv, NEW t \in Task, CandidateStep(t) \/ CandidateRaises(t)
  PROVE  TInv'
<1>1. UNCHANGED <<attempt, slots, hung, openPrs, populated, branch, manifest, views, summary>>
  BY DEF CandidateStep, CandidateBegins, SessionEnds, CommandsEnd, RepairEnds, VerifyEnds,
         ReviewEnds, CandidateRaises, TaskUnchanged, artifacts, candidate
<1>2. /\ stage' \in {stage, "idle"} /\ status' \in {status, "Rework"}
      /\ faults' = faults \/ (faults > 0 /\ faults' = faults - 1)
  BY DEF CandidateStep, CandidateBegins, SessionEnds, CommandsEnd, RepairEnds, VerifyEnds,
         ReviewEnds, CandidateRaises, TaskUnchanged, RunStops, SpendFault
<1>3. approved' = approved \/ approved' = approved \union seen[t]
  BY DEF CandidateStep, CandidateBegins, SessionEnds, CommandsEnd, RepairEnds, VerifyEnds,
         ReviewEnds, CandidateRaises, history
<1>4. faults' \in 0..MaxFaults
  <2>1. faults \in 0..MaxFaults /\ MaxFaults \in Nat
    BY AttemptAssumption DEF TInv, Rest
  <2> QED
    BY <1>2, <2>1
<1>5. approved' \subseteq Change
  BY <1>3 DEF TInv, Rest, Types
<1>6. stage' \in Stage /\ status' \in IssueState
  BY <1>2 DEF TInv, Rest, Stage, IssueState
<1>7. Rest'
  <2>1. Attempts' = Attempts /\ Copy' = Copy /\ Task' = Task /\ Stage' = Stage
    BY DEF Attempts, Copy, Task, Stage
  <2> QED
    BY <1>1, <1>4, <1>5, <1>6 DEF TInv, Rest
<1>8. \A u \in Task : pc'[u] = "done" => result'[u] # ""
  <2>1. \/ \E p \in TaskPc \ {"done"} : Goes(t, p) /\ UNCHANGED result
        \/ \E r \in {"success", "Human Review", "Rework", "Blocked"} : Returns(t, r)
    BY DEF CandidateStep, CandidateBegins, SessionEnds, CommandsEnd, RepairEnds, VerifyEnds,
           ReviewEnds, CandidateRaises, candidate, TaskPc, Working
  <2> QED
    BY <2>1 DEF TInv, DoneHasResult, Types, Goes, Returns
<1>9. stage' = "candidates" => pc'[<<attempt, "primary">>] # "off"
  <2>1. \E p \in TaskPc \ {"off"} : Goes(t, p)
    BY DEF CandidateStep, CandidateBegins, SessionEnds, CommandsEnd, RepairEnds, VerifyEnds,
           ReviewEnds, CandidateRaises, Returns, TaskPc, Working
  <2>2. stage' = "candidates" => stage = "candidates"
    BY <1>2
  <2>3. <<attempt, "primary">> \in DOMAIN pc => 
           \/ pc'[<<attempt, "primary">>] = pc[<<attempt, "primary">>]
           \/ pc'[<<attempt, "primary">>] # "off"
    BY <2>1 DEF Goes
  <2>4. <<attempt, "primary">> \notin DOMAIN pc => 
           pc'[<<attempt, "primary">>] = pc[<<attempt, "primary">>]
    BY <2>1 DEF Goes
  <2> QED
    BY <1>1, <2>2, <2>3, <2>4 DEF TInv, DoneHasResult
<1> QED
  BY <1>1, <1>7, <1>8, <1>9 DEF TInv, DoneHasResult

\* So does what is left behind.
LEMMA LeftBehindRest ==
  ASSUME Types, TInv, NEW t \in Task, LeftBehindWrites(t)
  PROVE  TInv'
<1>1. /\ UNCHANGED <<attempt, stage, pc, slots, result, manifest, views, summary, status>>
      /\ UNCHANGED approved
  BY LeftBehindFrame
<1>2. UNCHANGED <<hung, populated, branch, openPrs>> /\ faults > 0 /\ faults' = faults - 1
  BY DEF LeftBehindWrites, candidate, SpendFault
<1>3. faults' \in 0..MaxFaults
  <2>1. faults \in 0..MaxFaults /\ MaxFaults \in Nat
    BY AttemptAssumption DEF TInv, Rest
  <2> QED
    BY <1>2, <2>1
<1> QED
  BY <1>1, <1>2, <1>3 DEF TInv, Rest, DoneHasResult, Stage, Copy, Task, Attempts

\* The steps of the run write constants, or the result of the first candidate.
LEMMA RunRest ==
  ASSUME Types, SInv, TInv, RunAction
  PROVE  Rest'
<1>0. Rest /\ Types
  BY DEF TInv
<1>13. CASE Hangs
  <2>1. faults \in 0..MaxFaults /\ MaxFaults \in Nat
    BY <1>0, AttemptAssumption DEF Rest
  <2>2. faults' \in 0..MaxFaults
    BY <1>13, <2>1, HangFrame
  <2>3. hung' \subseteq Task \union {NoTask}
    <3>1. PICK t \in Task \union {NoTask} : hung' = hung \union {t}
      BY <1>13, HangFrame
    <3> QED BY <1>0, <3>1 DEF Rest
  <2>4. /\ UNCHANGED <<stage, slots, populated, branch, openPrs, manifest, views, summary>>
        /\ UNCHANGED <<status, approved>>
    BY <1>13, HangFrame DEF control, git, artifacts, history
  <2> QED BY <1>0, <2>2, <2>3, <2>4 DEF Rest, Stage, Copy, Task, Attempts
<1> SUFFICES ASSUME ~Hangs PROVE Rest'
  BY <1>13
<1>1. stage' \in Stage
  BY <1>0 DEF Rest, Stage, RunAction, RunStep, AttemptStarts, PrimaryPrepared, CandidatesStart,
     AllFail,
     SelectionRaises, WinnerPromoted, ProofDecides, CommitMade, Pushed, Proposed, Completed,
     Reported, RunRaises, RunStops, Finalizes, PullRequestCloses, OtherIssuePrepares, control
<1>2. manifest' \in {"", "running", "winner_selected", "completed", "failed"}
      /\ summary' \in {"", "success", "failure"}
  BY <1>0 DEF Rest, RunAction, RunStep, AttemptStarts, PrimaryPrepared, CandidatesStart, AllFail,
     SelectionRaises, WinnerPromoted, ProofDecides, CommitMade, Pushed, Proposed, Completed,
     Reported, RunRaises, Closes, Finalizes, PullRequestCloses, OtherIssuePrepares, artifacts
<1>3. status' \in IssueState
  <2>1. CASE AllFail
    <3>1. <<attempt, "primary">> \in Candidates
      <4>1. attempt \in Attempts /\ stage = "candidates"
        BY <2>1 DEF AllFail, AllReturned, SInv
      <4>2. <<attempt, "primary">> \in Task
        BY <4>1 DEF Task
      <4> QED
        BY <4>1, <4>2 DEF TInv, DoneHasResult, Candidates
    <3>2. /\ pc[<<attempt, "primary">>] = "done"
          /\ result[<<attempt, "primary">>] # "success"
          /\ <<attempt, "primary">> \in Task
      BY <2>1, <3>1 DEF AllFail, AllReturned, Successful, Candidates
    <3>3. result[<<attempt, "primary">>] \in IssueState
      BY <3>2, <1>0 DEF TInv, DoneHasResult, Types, Outcome
    <3> QED
      BY <2>1, <3>3 DEF AllFail, Finalizes
  <2>2. CASE ~AllFail
    <3>1. status' \in {status, "In Progress", "Rework", "Human Review"}
      BY <2>2 DEF RunAction, RunStep, AttemptStarts, PrimaryPrepared, CandidatesStart,
         SelectionRaises, WinnerPromoted, ProofDecides, CommitMade, Pushed, Proposed, Completed,
         Reported, RunRaises, RunStops, Finalizes, PullRequestCloses, OtherIssuePrepares
    <3> QED
      BY <1>0, <3>1 DEF Rest, IssueState
  <2> QED
    BY <2>1, <2>2
<1>4. slots' \in [Attempts -> Nat]
  <2>1. CASE AttemptStarts
    BY <1>0, <2>1 DEF Rest, AttemptStarts
  <2>2. CASE CandidatesStart
    <3>1. attempt \in Attempts
      BY <2>2 DEF CandidatesStart, SInv
    <3>2. PICK lane \in Lanes[attempt], n \in Parallel :
            slots' = [slots EXCEPT ![attempt] = IF n < Cardinality(lane) THEN n
                                              ELSE Cardinality(lane)]
      BY <2>2 DEF CandidatesStart
    <3>3. lane \in SUBSET {"primary", "alt1"} /\ n \in Nat
      BY <3>1, AttemptAssumption DEF Attempts
    <3>4. Cardinality(lane) \in Nat
      BY <3>3, LaneIsFinite
    <3> QED
      BY <1>0, <3>1, <3>2, <3>3, <3>4 DEF Rest
  <2>3. CASE ~AttemptStarts /\ ~CandidatesStart
    <3>1. slots' = slots
      BY <2>3 DEF RunAction, RunStep, PrimaryPrepared, AllFail, SelectionRaises, WinnerPromoted,
         ProofDecides, CommitMade, Pushed, Proposed, Completed, Reported, RunRaises,
         PullRequestCloses, OtherIssuePrepares, control
    <3> QED
      BY <1>0, <3>1 DEF Rest
  <2> QED
    BY <2>1, <2>2, <2>3
<1>5. branch' \in [Copy -> {"none", "own", "mirror", "pruned"}]
  <2>1. \/ branch' = branch
        \/ branch' = Fetched
        \/ PrimaryPrepared /\ branch' = Prepared(CopyOf(<<attempt, "primary">>))
        \/ CandidatesStart /\ branch' = Prepared(<<attempt, "alt1">>)
    BY DEF RunAction, RunStep, AttemptStarts, PrimaryPrepared, CandidatesStart, AllFail,
       SelectionRaises, WinnerPromoted, ProofDecides, CommitMade, Pushed, Proposed, Completed,
       Reported, RunRaises, PullRequestCloses, OtherIssuePrepares, git
  <2>2. PrimaryPrepared \/ CandidatesStart => attempt \in Attempts
    BY DEF PrimaryPrepared, CandidatesStart, SInv
  <2>3. attempt \in Attempts =>
          CopyOf(<<attempt, "primary">>) \in Copy /\ <<attempt, "alt1">> \in Copy
    BY DEF CopyOf, Copy
  <2>4. <<0, "primary">> \in Copy
    BY DEF Copy
  <2> QED
    BY <1>0, <2>1, <2>2, <2>3, <2>4, BranchTypes DEF Rest
<1>6. populated' \in BOOLEAN
  <2>1. populated' \in {populated, TRUE}
    BY DEF RunAction, RunStep, AttemptStarts, PrimaryPrepared, CandidatesStart, AllFail,
       SelectionRaises, WinnerPromoted, ProofDecides, CommitMade, Pushed, Proposed, Completed,
       Reported, RunRaises, PullRequestCloses, OtherIssuePrepares, git
  <2> QED
    BY <1>0, <2>1 DEF Rest
<1>7. openPrs' \subseteq Copy
  <2>1. CASE Proposed
    <3>1. WinnerCopy \in Copy
      <4>1. attempt \in Attempts
        BY <2>1 DEF Proposed, SInv
      <4>2. Winner \in Task \union {NoTask}
        BY <1>0, <4>1 DEF Types, Winner
      <4>3. CASE Winner = NoTask
        BY <4>3 DEF WinnerCopy, CopyOf, NoTask, Copy
      <4> QED
        BY <4>2, <4>3, TaskFacts DEF WinnerCopy
    <3> QED
      BY <1>0, <2>1, <3>1 DEF Rest, Proposed
  <2>2. CASE ~Proposed
    <3>1. openPrs' \subseteq openPrs
      BY <2>2 DEF RunAction, RunStep, AttemptStarts, PrimaryPrepared, CandidatesStart, AllFail,
         SelectionRaises, WinnerPromoted, ProofDecides, CommitMade, Pushed, Completed, Reported,
         RunRaises, PullRequestCloses, OtherIssuePrepares
    <3> QED
      BY <1>0, <3>1 DEF Rest
  <2> QED
    BY <2>1, <2>2
<1>8. views'.of \in Task \union {NoTask}
  <2>1. CASE WinnerPromoted
    <3>1. PICK w \in Selectable(Successful) :
            views' = [of |-> Promoted(w), session |-> sessions[Promoted(w)]]
      BY <2>1 DEF WinnerPromoted
    <3>2. w \in Task
      BY DEF Selectable, Successful, Candidates
    <3> QED
      BY <3>1, <3>2 DEF Promoted
  <2>2. CASE ~WinnerPromoted
    <3>1. views' = views
      BY <2>2 DEF RunAction, RunStep, AttemptStarts, PrimaryPrepared, CandidatesStart, AllFail,
         SelectionRaises, ProofDecides, CommitMade, Pushed, Proposed, Completed, Reported,
         RunRaises, PullRequestCloses, OtherIssuePrepares, artifacts
    <3> QED
      BY <1>0, <3>1 DEF Rest
  <2> QED
    BY <2>1, <2>2
<1>9. faults' \in 0..MaxFaults
  <2>1. faults \in 0..MaxFaults /\ MaxFaults \in Nat
    BY <1>0, AttemptAssumption DEF Rest
  <2>2. faults' = faults \/ (faults > 0 /\ faults' = faults - 1)
    BY DEF RunAction, RunStep, AttemptStarts, PrimaryPrepared, CandidatesStart, AllFail,
       SelectionRaises, WinnerPromoted, ProofDecides, CommitMade, Pushed, Proposed, Completed,
       Reported, RunRaises, PullRequestCloses, OtherIssuePrepares, SpendFault
  <2> QED
    BY <2>1, <2>2
<1>10. approved' \subseteq Change
  BY <1>0, RunFrame DEF Rest
<1>11. hung' = hung
  BY DEF RunAction, RunStep, AttemptStarts, PrimaryPrepared, CandidatesStart, AllFail,
     SelectionRaises, WinnerPromoted, ProofDecides, CommitMade, Pushed, Proposed, Completed,
     Reported, RunRaises, PullRequestCloses, OtherIssuePrepares, candidate
<1> QED
  BY <1>0, <1>1, <1>2, <1>3, <1>4, <1>5, <1>6, <1>7, <1>8, <1>9, <1>10, <1>11
     DEF Rest, Attempts, Task, Copy, Stage

\* A run forgets the results of the tasks that have ended, and starts its first
\* candidate in every attempt.
LEMMA RunResults ==
  ASSUME Types, SInv, TInv, RunAction
  PROVE  DoneHasResult'
<1>1. \A t \in Task : pc'[t] = "done" => result'[t] # ""
  <2>1. CASE AttemptStarts
    BY <2>1 DEF AttemptStarts, Ended
  <2>2. CASE CandidatesStart
    BY <2>2 DEF CandidatesStart, candidate, TInv, DoneHasResult
  <2>3. CASE ~AttemptStarts /\ ~CandidatesStart
    BY <2>3, RunFrame DEF TInv, DoneHasResult
  <2> QED
    BY <2>1, <2>2, <2>3
<1>2. stage' = "candidates" => pc'[<<attempt', "primary">>] # "off"
  <2>1. CASE CandidatesStart
    <3>1. attempt \in Attempts /\ attempt' = attempt
      BY <2>1 DEF CandidatesStart, SInv
    <3>2. PICK lane \in Lanes[attempt], first \in {"queued", "risky"} :
            pc' = [t \in Task |-> IF t[1] = attempt /\ t[2] \in lane THEN first ELSE pc[t]]
      BY <2>1 DEF CandidatesStart
    <3>3. "primary" \in lane
      BY <3>1, AttemptAssumption DEF Attempts
    <3>4. <<attempt, "primary">> \in Task
      BY <3>1 DEF Task
    <3>5. pc'[<<attempt, "primary">>] = first
      BY <3>2, <3>3, <3>4
    <3> QED
      BY <3>1, <3>5
  <2>2. CASE ~CandidatesStart
    <3>1. stage' = "candidates" =>
            /\ stage = "candidates" /\ UNCHANGED <<attempt, pc>>
      BY <2>2 DEF RunAction, RunStep, AttemptStarts, PrimaryPrepared, AllFail, SelectionRaises,
         WinnerPromoted, ProofDecides, CommitMade, Pushed, Proposed, Completed, Reported,
         RunRaises, RunStops, Finalizes, PullRequestCloses, OtherIssuePrepares, Hangs, RunHangs,
         TaskHangs, control
    <3> QED
      BY <3>1 DEF TInv, DoneHasResult
  <2> QED
    BY <2>1, <2>2
<1> QED
  BY <1>1, <1>2 DEF DoneHasResult, Task, Attempts

\* Every variable stays in its type, over all attempts.
THEOREM TypeCorrect == Spec => []TypeOK
<1>1. Init => TInv
  <2> SUFFICES ASSUME Init PROVE TInv
    OBVIOUS
  <2>1. DoneHasResult
    BY DEF Init, DoneHasResult
  <2>2. faults \in 0..MaxFaults
    <3>1. MaxFaults \in Nat
      BY AttemptAssumption
    <3>2. faults = MaxFaults
      BY DEF Init
    <3> QED
      BY <3>1, <3>2
  <2>3. populated \in BOOLEAN
    BY AttemptAssumption DEF Init
  <2>4. slots \in [Attempts -> Nat] /\ branch \in [Copy -> {"none", "own", "mirror", "pruned"}]
    BY DEF Init
  <2>5. Rest
    BY <2>2, <2>3, <2>4 DEF Init, Rest, Stage, IssueState
  <2> QED
    BY <2>1, <2>5 DEF TInv
<1>2. IInv /\ SInv /\ TInv /\ [Next]_vars => TInv'
  <2> SUFFICES ASSUME IInv, SInv, TInv, [Next]_vars PROVE TInv'
    OBVIOUS
  <2>1. CASE Next
    BY <2>1, NextSplits, RunRest, RunResults, CandidateRest, LeftBehindRest DEF IInv, TInv
  <2>2. CASE UNCHANGED vars
    BY <2>2 DEF TInv, Rest, DoneHasResult, vars, control, candidate, git, artifacts, history
  <2> QED
    BY <2>1, <2>2
<1>3. IInv /\ TInv => TypeOK
  <2> SUFFICES ASSUME IInv, TInv PROVE TypeOK
    OBVIOUS
  <2>1. Types /\ Rest
    BY DEF IInv, TInv
  <2>2. {dirty, commits, remote} \subseteq [Copy -> SUBSET Change]
    BY <2>1 DEF Types
  <2> QED
    BY <2>1, <2>2 DEF TypeOK, Types, Rest, Outcome
<1> QED
  BY <1>1, <1>2, <1>3, Invariance, SettledInvariance, PTL DEF Spec

-----------------------------------------------------------------------------
(* The views                                                               *)

\* No attempt has a winner before its candidates have returned.  The views are
\* those of the last winner, a task that is over and has not had a session since.
VInv ==
  /\ \A a \in Attempts : a > attempt => winners[a] = NoTask
  /\ stage \in {"prepare", "prepared", "candidates"} => winners[attempt] = NoTask
  /\ \A a \in Attempts : winners[a] # NoTask => winners[a] \in Task /\ winners[a][1] = a
  /\ \/ \A a \in Attempts : winners[a] = NoTask
     \/ /\ views.of \in Task /\ pc[views.of] \in {"off", "done"}
        /\ winners[views.of[1]] = views.of
        /\ views = [of |-> views.of, session |-> sessions[views.of]]
        /\ \A a \in Attempts : winners[a] # NoTask => a <= views.of[1]

\* A task that has no part in a step of candidate u keeps its views.
LEMMA CandidateViews ==
  ASSUME Types, VInv, NEW u \in Task, CandidateStep(u) \/ CandidateRaises(u)
  PROVE  VInv'
<1>1. UNCHANGED <<attempt, winners, views>> /\ stage' \in {stage, "idle"}
  BY DEF CandidateStep, CandidateBegins, SessionEnds, CommandsEnd, RepairEnds, VerifyEnds,
         ReviewEnds, CandidateRaises, TaskUnchanged, artifacts, RunStops
<1>2. pc[u] \notin {"off", "done"}
  BY DEF CandidateStep, CandidateBegins, SessionEnds, CommandsEnd, RepairEnds, VerifyEnds,
         ReviewEnds, CandidateRaises, Working
<1>3. views.of \in Task /\ pc[views.of] \in {"off", "done"} =>
        pc'[views.of] = pc[views.of] /\ sessions'[views.of] = sessions[views.of]
  BY <1>2, TaskFrame
<1> QED
  BY <1>1, <1>3 DEF VInv, Attempts, Task

\* What is left behind touches no view and no winner.
LEMMA LeftBehindViews ==
  ASSUME Types, VInv, NEW u \in Task, LeftBehindWrites(u)
  PROVE  VInv'
<1>1. UNCHANGED <<attempt, stage, pc, sessions, winners, views>>
  BY LeftBehindFrame
<1> QED
  BY <1>1 DEF VInv, Attempts, Task

\* A winner is chosen once, by the attempt that is under way.
LEMMA RunViews ==
  ASSUME Types, SInv, VInv, RunAction
  PROVE  VInv'
<1>0. /\ stage # "idle" => attempt \in Attempts
      /\ attempt \in 0..MaxAttempts /\ MaxAttempts \in Nat
      /\ winners \in [Attempts -> Task \union {NoTask}]
  BY ConstantFacts DEF SInv, Types
<1>1. CASE AttemptStarts
  <2>0. attempt' = attempt + 1 /\ attempt < MaxAttempts /\ UNCHANGED <<winners, views>>
    BY <1>1 DEF AttemptStarts
  <2>1. /\ attempt' = attempt + 1 /\ attempt + 1 \in Attempts /\ stage' = "prepare"
        /\ UNCHANGED <<winners, views>>
    <3>1. attempt + 1 \in 1..MaxAttempts
      BY <1>0, <2>0
    <3> QED
      BY <1>1, <2>0, <3>1 DEF AttemptStarts, Attempts
  <2>2. winners[attempt + 1] = NoTask
    BY <1>0, <2>1 DEF VInv
  <2>3. \A a \in Attempts : a > attempt + 1 => winners[a] = NoTask
    BY <1>0 DEF VInv, Attempts
  <2>4. views.of \in Task =>
          /\ pc[views.of] \in {"off", "done"} => pc'[views.of] \in {"off", "done"}
          /\ sessions'[views.of] = sessions[views.of]
    BY <1>1 DEF AttemptStarts
  <2> QED
    BY <2>1, <2>2, <2>3, <2>4 DEF VInv, Attempts, Task
<1>2. CASE CandidatesStart
  <2>1. /\ stage = "prepared" /\ stage' = "candidates"
        /\ UNCHANGED <<attempt, winners, views, sessions>>
    BY <1>2 DEF CandidatesStart, artifacts, candidate
  <2>2. NoTask \notin Task
    BY TaskFacts DEF NoTask, Attempts
  <2>3. views.of \in Task /\ winners[views.of[1]] = views.of => views.of[1] # attempt
    BY <2>1, <2>2 DEF VInv
  <2>4. views.of \in Task /\ views.of[1] # attempt => pc'[views.of] = pc[views.of]
    BY <1>2 DEF CandidatesStart
  <2> QED
    BY <2>1, <2>3, <2>4 DEF VInv, Attempts, Task
<1>3. CASE WinnerPromoted
  <2>1. PICK w \in Selectable(Successful) :
          /\ Closes("winner_selected", w)
          /\ views' = [of |-> Promoted(w), session |-> sessions[Promoted(w)]]
    BY <1>3 DEF WinnerPromoted
  <2>2. w \in Task /\ w[1] = attempt /\ w \in Candidates
    BY DEF Selectable, Successful, Candidates
  <2>3. pc[w] = "done" /\ attempt \in Attempts
    BY <1>0, <1>3, <2>2 DEF WinnerPromoted, AllReturned
  <2>4. /\ UNCHANGED <<attempt, pc, sessions>> /\ stage' = "gate"
        /\ views'.of = w /\ views' = [of |-> w, session |-> sessions[w]]
    BY <1>3, <2>1 DEF WinnerPromoted, candidate, Promoted
  <2>5. /\ winners'[attempt] = w
        /\ \A a \in Attempts \ {attempt} : winners'[a] = winners[a]
    BY <1>0, <2>1, <2>3 DEF Closes
  <2>6. \A a \in Attempts : a > attempt => winners'[a] = NoTask
    BY <1>0, <2>3, <2>5 DEF VInv, Attempts
  <2>7. \A a \in Attempts : winners'[a] # NoTask => winners'[a] \in Task /\ winners'[a][1] = a
    BY <2>2, <2>5 DEF VInv
  <2>8. \A a \in Attempts : winners'[a] # NoTask => a <= attempt
    BY <1>0, <2>6 DEF Attempts
  <2> QED
    BY <2>2, <2>3, <2>4, <2>5, <2>6, <2>7, <2>8 DEF VInv, Attempts, Task
<1>4. CASE RunAction /\ ~AttemptStarts /\ ~CandidatesStart /\ ~WinnerPromoted
  <2>1. /\ UNCHANGED <<attempt, pc, sessions, views>>
    <3>1. UNCHANGED <<attempt, pc, sessions>>
      BY <1>4, RunFrame
    <3>2. UNCHANGED views
      BY <1>4 DEF RunAction, RunStep, PrimaryPrepared, AllFail, SelectionRaises,
         ProofDecides, CommitMade, Pushed, Proposed, Completed, Reported, RunRaises,
         PullRequestCloses, OtherIssuePrepares, Hangs, RunHangs, TaskHangs, artifacts
    <3> QED
      BY <3>1, <3>2
  <2>2. UNCHANGED winners
    <3>1. CASE AllFail
      <4>1. stage = "candidates" /\ winners' = [winners EXCEPT ![attempt] = NoTask]
        BY <3>1 DEF AllFail, AllReturned, Closes
      <4>2. winners[attempt] = NoTask
        BY <4>1 DEF VInv
      <4> QED
        BY <1>0, <4>1, <4>2
    <3>2. CASE winners' = [winners EXCEPT ![attempt] = Winner] /\ stage # "idle"
      BY <1>0, <3>2 DEF Winner
    <3>3. CASE UNCHANGED winners
      BY <3>3
    <3> QED
      BY <1>4, <3>1, <3>2, <3>3 DEF RunAction, RunStep, PrimaryPrepared, SelectionRaises,
         ProofDecides, CommitMade, Pushed, Proposed, Completed, Reported, RunRaises, Closes,
         PullRequestCloses, OtherIssuePrepares, Hangs, RunHangs, TaskHangs, artifacts
  <2>3. stage' \in {"prepare", "prepared", "candidates"} =>
          stage \in {"prepare", "prepared", "candidates"}
    BY <1>4 DEF RunAction, RunStep, PrimaryPrepared, AllFail, SelectionRaises,
         ProofDecides, CommitMade, Pushed, Proposed, Completed, Reported, RunRaises, RunStops,
         Finalizes, PullRequestCloses, OtherIssuePrepares, Hangs, RunHangs, TaskHangs, control
  <2> QED
    BY <2>1, <2>2, <2>3 DEF VInv, Attempts, Task
<1> QED
  BY <1>1, <1>2, <1>3, <1>4

\* What the views rest on, in every reachable state.
THEOREM ViewsInvariance == Spec => []VInv
<1>1. Init => VInv
  BY DEF Init, VInv
<1>2. IInv /\ SInv /\ VInv /\ [Next]_vars => VInv'
  <2> SUFFICES ASSUME IInv, SInv, VInv, [Next]_vars PROVE VInv'
    OBVIOUS
  <2>1. CASE Next
    BY <2>1, NextSplits, RunViews, CandidateViews, LeftBehindViews DEF IInv
  <2>2. CASE UNCHANGED vars
    BY <2>2 DEF VInv, vars, control, candidate, artifacts, Attempts, Task
  <2> QED
    BY <2>1, <2>2
<1> QED
  BY <1>1, <1>2, Invariance, SettledInvariance, PTL DEF Spec

\* What a channel and the artifacts of the latest run show is the last session of the
\* candidate that won, and no later work of anybody.
THEOREM ViewsFollowWinnerHolds == Spec => []ViewsFollowWinner
<1>1. VInv => ViewsFollowWinner
  <2> SUFFICES ASSUME VInv PROVE ViewsFollowWinner
    OBVIOUS
  <2> DEFINE won == {a \in Attempts : winners[a] # NoTask}
             last == CHOOSE a \in won : \A b \in won : b <= a
  <2> SUFFICES ASSUME won # {}
               PROVE  views = [of |-> winners[last], session |-> sessions[winners[last]]]
    BY DEF ViewsFollowWinner
  <2>1. /\ views.of \in Task /\ winners[views.of[1]] = views.of
        /\ views = [of |-> views.of, session |-> sessions[views.of]]
        /\ \A a \in won : a <= views.of[1]
    BY DEF VInv
  <2>2. views.of[1] \in won
    <3>1. NoTask \notin Task
      BY TaskFacts DEF NoTask, Attempts
    <3> QED
      BY <2>1, <3>1, TaskFacts
  <2>3. last \in won /\ \A b \in won : b <= last
    BY <2>1, <2>2
  <2>4. won \subseteq Nat
    BY DEF Attempts
  <2> HIDE DEF won, last
  <2>5. last = views.of[1]
    BY <2>1, <2>2, <2>3, <2>4
  <2> QED
    BY <2>1, <2>5
<1> QED
  BY <1>1, ViewsInvariance, PTL

-----------------------------------------------------------------------------
(* What is pushed                                                          *)

\* A change that was listed for a review that has approved, or that a command of
\* a winner made.
Vouched(c) == c \in approved \/ (c.how = "command" /\ c.by = winners[c.by[1]])

\* What is about to be committed, and what has been.
WinnerIsListed ==
  stage \in {"gate", "commit"} =>
    /\ attempt \in Attempts /\ Winner \in Task
    /\ WinnerCopy \notin disturbed => \A c \in dirty[WinnerCopy] : Vouched(c)

HistoryIsListed ==
  \A w \in Copy \ disturbed : \A c \in commits[w] \union remote[w] : Vouched(c)

HInv == WinnerIsListed /\ HistoryIsListed

\* No winner is chosen a second time, and none is taken back.
LEMMA WinnersStay ==
  ASSUME Types, SInv, VInv, Next, NEW a \in Attempts, winners[a] # NoTask
  PROVE  winners'[a] = winners[a]
<1>0. winners \in [Attempts -> Task \union {NoTask}]
  BY DEF Types
<1>1. ASSUME NEW u \in Task, CandidateStep(u) \/ CandidateRaises(u)
      PROVE  winners' = winners
  BY <1>1, RunUntouched
<1>2. ASSUME NEW u \in Task, LeftBehindWrites(u)
      PROVE  winners' = winners
  BY <1>2, LeftBehindFrame
<1>3. CASE AllFail \/ WinnerPromoted
  <2>1. stage = "candidates" /\ \E w : winners' = [winners EXCEPT ![attempt] = w]
    BY <1>3 DEF AllFail, WinnerPromoted, AllReturned, Closes
  <2>2. a # attempt
    BY <2>1 DEF VInv
  <2> QED BY <1>0, <2>1, <2>2
<1>4. CASE RunAction /\ ~AllFail /\ ~WinnerPromoted
  <2>1. UNCHANGED winners \/ winners' = [winners EXCEPT ![attempt] = Winner]
    BY <1>4 DEF RunAction, RunStep, AttemptStarts, PrimaryPrepared, CandidatesStart,
       SelectionRaises, ProofDecides, CommitMade, Pushed, Proposed, Completed, Reported,
       RunRaises, Closes, PullRequestCloses, OtherIssuePrepares, Hangs, RunHangs, TaskHangs,
       artifacts
  <2> QED BY <1>0, <2>1 DEF Winner
<1> QED BY <1>1, <1>2, <1>3, <1>4, NextSplits

\* What is vouched for stays so.
LEMMA VouchedStays ==
  ASSUME IInv, SInv, VInv, Next, NEW c \in Change, Vouched(c)
  PROVE  Vouched(c)'
<1>0. Types
  BY DEF IInv
<1>1. CASE c \in approved
  <2>1. approved \subseteq approved'
    BY <1>0, NextSplits, RunFrame, ApprovedGrows, LeftBehindFrame
  <2> QED BY <1>1, <2>1 DEF Vouched
<1>2. CASE c.how = "command" /\ c.by = winners[c.by[1]]
  <2>1. c.by \in Task /\ c.by[1] \in Attempts
    BY TaskFacts DEF Change
  <2>2. NoTask \notin Task
    BY TaskFacts DEF NoTask, Attempts
  <2>3. winners'[c.by[1]] = winners[c.by[1]]
    BY <1>0, <1>2, <2>1, <2>2, WinnersStay
  <2> QED BY <1>2, <2>3 DEF Vouched
<1> QED BY <1>1, <1>2 DEF Vouched

\* A winner is chosen among the candidates that have succeeded: its copy holds what
\* was listed for its review, and what its own commands have made.
LEMMA PromotedIsListed ==
  ASSUME IInv, WinnerPromoted
  PROVE  WinnerIsListed'
<1>0. Types /\ CheckedIsListed /\ SuccessIsReviewed
  BY DEF IInv
<1>1. PICK w \in Selectable(Successful) :
        /\ winners' = [winners EXCEPT ![attempt] = w]
        /\ dirty' = [c \in Copy |-> IF c \in Removed(w) THEN {} ELSE dirty[c]]
  BY DEF WinnerPromoted, Closes
<1>2. attempt' = attempt /\ disturbed' = disturbed /\ approved' = approved
  BY DEF WinnerPromoted, history
<1>3. stage = "candidates" /\ \A t \in Candidates : pc[t] = "done"
  BY DEF WinnerPromoted, AllReturned
<1>4. w \in Candidates /\ result[w] = "success"
  BY <1>1 DEF Selectable, Successful
<1>5. w \in Task /\ w[1] = attempt /\ Succeeded(w) /\ Current(w)
  BY <1>3, <1>4 DEF Candidates, Succeeded, Current
<1>6. attempt \in Attempts /\ CopyOf(w) \in Copy
  BY <1>5, TaskFacts
<1>7. Winner' = w /\ winners'[attempt] = w
  BY <1>0, <1>1, <1>2, <1>6 DEF Winner, Types
<1>8. CopyOf(w) \notin disturbed => \A c \in dirty[CopyOf(w)] : Listed(w, c)
  BY <1>0, <1>5 DEF CheckedIsListed, CopyIsListed, Checked
<1>9. seen[w] \subseteq approved
  BY <1>0, <1>5 DEF SuccessIsReviewed
<1>10. dirty'[CopyOf(w)] \subseteq dirty[CopyOf(w)]
  BY <1>1, <1>6
<1>11. WinnerCopy' = CopyOf(w)
  BY <1>7 DEF WinnerCopy, CopyOf
<1>12. ASSUME NEW c \in dirty'[CopyOf(w)], CopyOf(w) \notin disturbed
       PROVE  Vouched(c)'
  <2>1. c \in seen[w] \/ (c.how = "command" /\ c.by = w)
    BY <1>8, <1>10, <1>12 DEF Listed
  <2>2. CASE c \in seen[w]
    BY <1>2, <1>9, <2>2 DEF Vouched
  <2>3. CASE c.how = "command" /\ c.by = w
    BY <1>5, <1>7, <2>3 DEF Vouched
  <2> QED BY <2>1, <2>2, <2>3
<1>13. attempt' \in Attempts' /\ Winner' \in Task'
  BY <1>2, <1>5, <1>6, <1>7 DEF Task, Attempts
<1> QED BY <1>2, <1>11, <1>12, <1>13 DEF WinnerIsListed

\* The winner's copy is not touched while the gate decides, but by something
\* which disturbs it.
LEMMA KeepsWinnerListed ==
  ASSUME IInv, SInv, VInv, WinnerIsListed, Next
  PROVE  WinnerIsListed'
<1> SUFFICES ASSUME stage' \in {"gate", "commit"}, ~WinnerPromoted
             PROVE  WinnerIsListed'
  BY PromotedIsListed DEF WinnerIsListed
<1>0. Types
  BY DEF IInv
<1>1. /\ stage \in {"gate", "commit"}
      /\ UNCHANGED <<attempt, winners>>
      /\ disturbed \subseteq disturbed'
      /\ \A w \in Copy \ disturbed' : w = WinnerCopy => dirty'[w] = dirty[w]
  <2>1. ASSUME RunAction
        PROVE  /\ stage \in {"gate", "commit"}
               /\ UNCHANGED <<attempt, winners, dirty, disturbed>>
    BY <2>1, RunStages, RunFrame
  <2>2. ASSUME NEW u \in Task, CandidateStep(u) \/ CandidateRaises(u)
        PROVE  /\ stage \in {"gate", "commit"}
               /\ UNCHANGED <<attempt, winners>>
               /\ disturbed \subseteq disturbed'
               /\ \A w \in Copy \ disturbed' : dirty'[w] = dirty[w]
    <3>1. stage \in {"gate", "commit"} /\ UNCHANGED <<attempt, winners>>
      BY <2>2, RunUntouched
    <3>2. RunIsOver(u)
      BY <3>1 DEF RunIsOver
    <3> QED BY <1>0, <2>2, <3>1, <3>2, CopyFrame
  <2>3. ASSUME NEW u \in Task, LeftBehindWrites(u)
        PROVE  /\ UNCHANGED <<stage, attempt, winners>>
               /\ disturbed \subseteq disturbed'
               /\ \A w \in Copy \ disturbed' : dirty'[w] = dirty[w]
    BY <1>0, <2>3, LeftBehindFrame
  <2> QED BY <2>1, <2>2, <2>3, NextSplits
<1>2. attempt \in Attempts /\ Winner \in Task /\ WinnerCopy \in Copy
  BY <1>1, TaskFacts DEF WinnerIsListed, WinnerCopy
<1>3. Winner' = Winner /\ WinnerCopy' = WinnerCopy
  BY <1>1 DEF Winner, WinnerCopy, CopyOf
<1>4. ASSUME WinnerCopy \notin disturbed', NEW c \in dirty'[WinnerCopy]
      PROVE  Vouched(c)'
  <2>1. c \in dirty[WinnerCopy] /\ WinnerCopy \notin disturbed
    BY <1>1, <1>2, <1>4
  <2>2. c \in Change
    BY <1>0, <1>2, <2>1 DEF Types
  <2>3. Vouched(c)
    BY <1>1, <2>1 DEF WinnerIsListed
  <2> QED BY <2>2, <2>3, VouchedStays
<1>5. attempt' \in Attempts' /\ Winner' \in Task'
  BY <1>1, <1>2, <1>3 DEF Task, Attempts
<1> QED BY <1>3, <1>4, <1>5 DEF WinnerIsListed

\* A commit takes what is in the winner's copy, a push what is committed.
LEMMA KeepsHistoryListed ==
  ASSUME IInv, SInv, VInv, HInv, Next
  PROVE  HistoryIsListed'
<1>0. Types /\ HistoryIsListed /\ WinnerIsListed
  BY DEF IInv, HInv
<1>1. disturbed \subseteq disturbed'
  BY <1>0, NextSplits, RunFrame, CopyFrame, LeftBehindFrame
<1>2. \A w \in Copy : /\ commits'[w] \subseteq commits[w]
                                    \union (IF CommitMade /\ w = WinnerCopy
                                            THEN dirty[w] ELSE {})
                      /\ remote'[w] \subseteq remote[w] \union commits[w]
  <2>0. commits \in [Copy -> SUBSET Change] /\ remote \in [Copy -> SUBSET Change]
    BY <1>0 DEF Types
  <2>1. CASE CommitMade
    <3>1. remote' = remote
      BY <2>1 DEF CommitMade
    <3>2. \/ commits' = commits
          \/ commits' = [commits EXCEPT ![WinnerCopy] = @ \union dirty[WinnerCopy]]
      BY <2>1 DEF CommitMade
    <3> QED BY <2>0, <2>1, <3>1, <3>2
  <2>2. CASE Pushed
    <3>1. commits' = commits
      BY <2>2 DEF Pushed
    <3>2. remote' = remote \/ remote' = [remote EXCEPT ![WinnerCopy] = commits[WinnerCopy]]
      BY <2>2 DEF Pushed
    <3> QED BY <2>0, <3>1, <3>2
  <2>3. CASE ~CommitMade /\ ~Pushed
    <3>1. UNCHANGED <<commits, remote>>
      BY <1>0, <2>3, NextSplits, RunFrame, RunUntouched, LeftBehindFrame
    <3> QED BY <3>1
  <2> QED BY <2>1, <2>2, <2>3
<1>3. CommitMade => stage = "commit"
  BY DEF CommitMade
<1>4. ASSUME NEW w \in Copy \ disturbed', NEW c \in commits'[w] \union remote'[w]
      PROVE  Vouched(c)'
  <2>1. w \in Copy \ disturbed
    BY <1>1
  <2>2. /\ c \in Change
        /\ \/ c \in commits[w] \union remote[w]
           \/ stage = "commit" /\ w = WinnerCopy /\ c \in dirty[w]
    BY <1>0, <1>2, <1>3, <2>1 DEF Types
  <2>3. Vouched(c)
    BY <1>0, <2>1, <2>2 DEF HistoryIsListed, WinnerIsListed
  <2> QED BY <2>2, <2>3, VouchedStays
<1>5. Copy' = Copy
  BY DEF Copy, Attempts
<1> QED BY <1>4, <1>5 DEF HistoryIsListed

\* Every step keeps what is pushed vouched for.
THEOREM NextHInv == IInv /\ SInv /\ VInv /\ HInv /\ [Next]_vars => HInv'
<1> SUFFICES ASSUME IInv, SInv, VInv, HInv, [Next]_vars PROVE HInv'
  OBVIOUS
<1>1. CASE Next
  BY <1>1, KeepsWinnerListed, KeepsHistoryListed DEF HInv
<1>2. CASE UNCHANGED vars
  <2>1. UNCHANGED <<attempt, stage, dirty, commits, remote, winners, approved, disturbed>>
    BY <1>2 DEF vars, control, git, artifacts, history
  <2>2. UNCHANGED <<Winner, WinnerCopy>> /\ Copy' = Copy /\ Task' = Task /\ Attempts' = Attempts
    BY <2>1 DEF Winner, WinnerCopy, CopyOf, Copy, Task, Attempts
  <2> QED BY <2>1, <2>2 DEF HInv, WinnerIsListed, HistoryIsListed, Vouched
<1> QED BY <1>1, <1>2

\* What is pushed was listed for a review that has approved, or made by a command of
\* a winner (execute_run, from changed_files to _commit_and_push).
THEOREM ShippedWasListedHolds == Spec => []ShippedWasListed
<1>1. Init => HInv
  <2> SUFFICES ASSUME Init PROVE HInv
    OBVIOUS
  <2>1. stage = "idle" /\ \A w \in Copy : commits[w] = {} /\ remote[w] = {}
    BY DEF Init
  <2> QED BY <2>1 DEF HInv, WinnerIsListed, HistoryIsListed
<1>2. IInv /\ SInv /\ VInv /\ HInv /\ [Next]_vars => HInv'
  BY NextHInv
<1>3. HInv => ShippedWasListed
  BY DEF HInv, HistoryIsListed, Vouched, ShippedWasListed
<1> QED
  BY <1>1, <1>2, <1>3, Invariance, SettledInvariance, ViewsInvariance, PTL DEF Spec

-----------------------------------------------------------------------------
(* Delivery: the way of the winner's changes to GitHub *)

Delivering ==
  \/ stage \in {"gate", "commit", "push", "propose", "publish"}
  \/ manifest = "completed"

\* How far what the winner's copy held when the review approved has come.
Carried ==
  /\ stage \in {"gate", "commit"} => dirty[WinnerCopy] = held[Winner]
  /\ stage \notin {"gate", "commit"} => dirty[WinnerCopy] = {}
  /\ stage = "push" => held[Winner] \subseteq commits[WinnerCopy]
  /\ stage \notin {"gate", "commit", "push"} => held[Winner] \subseteq remote[WinnerCopy]

DInv == /\ manifest = "completed" => stage \in {"report", "idle"}
        /\ Delivering => /\ attempt \in Attempts
                         /\ Winner \in Task
                         /\ pc[Winner] = "done"
                         /\ WinnerCopy \notin disturbed => Carried

\* A winner starts with a copy that holds what it held for its review.
LEMMA PromotedIsCarried ==
  ASSUME IInv, WinnerPromoted
  PROVE  DInv'
<1>0. Types /\ CheckedIsListed
  BY DEF IInv
<1>1. PICK w \in Selectable(Successful) :
        /\ winners' = [winners EXCEPT ![attempt] = w]
        /\ dirty' = [c \in Copy |-> IF c \in Removed(w) THEN {} ELSE dirty[c]]
  BY DEF WinnerPromoted, Closes
<1>2. UNCHANGED <<attempt, pc, held, disturbed>>
  BY DEF WinnerPromoted, history, candidate
<1>3. stage = "candidates" /\ \A t \in Candidates : pc[t] = "done"
  BY DEF WinnerPromoted, AllReturned
<1>4. w \in Candidates /\ result[w] = "success"
  BY <1>1 DEF Selectable, Successful
<1>5. w \in Task /\ w[1] = attempt /\ pc[w] = "done"
  BY <1>3, <1>4 DEF Candidates
<1>6. attempt \in Attempts /\ CopyOf(w) \in Copy
  BY <1>5, TaskFacts
<1>7. Winner' = w /\ WinnerCopy' = CopyOf(w)
  <2>1. Winner' = w
    BY <1>0, <1>1, <1>2, <1>6 DEF Winner, Types
  <2> QED BY <2>1 DEF WinnerCopy, CopyOf
<1>8. CopyOf(w) \notin Removed(w)
  <2> SUFFICES ASSUME NEW u \in Candidates, u # w, u[2] # "primary", CopyOf(u) = CopyOf(w)
               PROVE  FALSE
    BY DEF Removed
  <2>1. u \in Task /\ u[1] = w[1]
    BY <1>5 DEF Candidates
  <2> QED BY <1>5, <2>1, CopiesApart
<1>9. CopyOf(w) \notin disturbed => dirty'[CopyOf(w)] = held'[w]
  <2>1. Succeeded(w) /\ Current(w)
    BY <1>3, <1>4, <1>5 DEF Succeeded, Current
  <2>2. CopyOf(w) \notin disturbed => held[w] = dirty[CopyOf(w)]
    BY <1>0, <1>5, <2>1 DEF CheckedIsListed, CopyIsListed
  <2> QED BY <1>1, <1>2, <1>6, <1>8, <2>2
<1>10. stage' = "gate" /\ manifest' = "winner_selected"
  BY DEF WinnerPromoted, Closes
<1>11. attempt' \in Attempts' /\ Winner' \in Task'
  BY <1>2, <1>5, <1>6, <1>7 DEF Task, Attempts
<1> QED BY <1>2, <1>5, <1>7, <1>9, <1>10, <1>11 DEF DInv, Delivering, Carried

\* The commit and the push carry all that the copy holds.
LEMMA DeliveryGoesOn ==
  ASSUME IInv, DInv, CommitMade \/ Pushed \/ Proposed \/ Completed
  PROVE  DInv'
<1>0. /\ dirty \in [Copy -> SUBSET Change]
      /\ commits \in [Copy -> SUBSET Change]
      /\ remote \in [Copy -> SUBSET Change]
      /\ winners \in [Attempts -> Task \union {NoTask}]
  BY DEF IInv, Types
<1>1. /\ stage \in {"commit", "push", "propose", "publish"}
      /\ manifest # "completed"
  BY DEF CommitMade, Pushed, Proposed, Completed, DInv
<1>2. /\ attempt \in Attempts
      /\ Winner \in Task
      /\ pc[Winner] = "done"
      /\ WinnerCopy \in Copy
      /\ WinnerCopy \notin disturbed => Carried
  <2>1. Delivering
    BY <1>1 DEF Delivering
  <2> QED BY <2>1, TaskFacts DEF DInv, WinnerCopy
<1>3. UNCHANGED <<attempt, pc, held, disturbed>>
  BY DEF CommitMade, Pushed, Proposed, Completed, candidate, history
<1>4. Winner' = Winner /\ WinnerCopy' = WinnerCopy
  <2>0. UNCHANGED winners \/ winners' = [winners EXCEPT ![attempt] = Winner]
    BY DEF CommitMade, Pushed, Proposed, Completed, artifacts, Closes
  <2>1. Winner' = Winner
    BY <1>0, <1>2, <1>3, <2>0 DEF Winner
  <2> QED BY <2>1 DEF WinnerCopy, CopyOf
<1>5. /\ attempt' \in Attempts'
      /\ Winner' \in Task'
      /\ pc'[Winner'] = "done"
  BY <1>2, <1>3, <1>4 DEF Task, Attempts
<1>6. CASE CommitMade
  <2>1. CASE UNCHANGED <<dirty, commits>> /\ manifest' = "failed" /\ stage' = "report"
    BY <2>1 DEF DInv, Delivering
  <2>2. CASE /\ commits' = [commits EXCEPT ![WinnerCopy] = @ \union dirty[WinnerCopy]]
             /\ dirty' = [dirty EXCEPT ![WinnerCopy] = {}]
             /\ stage' = "push" /\ manifest' = manifest
    <3>1. stage = "commit"
      BY <1>6 DEF CommitMade
    <3>2. WinnerCopy \notin disturbed => held[Winner] \subseteq commits'[WinnerCopy]
      BY <1>0, <1>2, <2>2, <3>1 DEF Carried
    <3>3. dirty'[WinnerCopy] = {}
      BY <1>0, <1>2, <2>2
    <3>4. WinnerCopy \notin disturbed => Carried'
      BY <1>3, <1>4, <2>2, <3>2, <3>3 DEF Carried
    <3> QED BY <1>1, <1>3, <1>4, <1>5, <2>2, <3>4 DEF DInv
  <2> QED BY <1>6, <2>1, <2>2 DEF CommitMade, Closes, Finalizes
<1>7. CASE Pushed
  <2>1. CASE stage' = "idle" /\ manifest' = manifest
    BY <1>1, <2>1 DEF DInv, Delivering
  <2>2. CASE /\ remote' = [remote EXCEPT ![WinnerCopy] = commits[WinnerCopy]]
             /\ stage' = "propose" /\ manifest' = manifest /\ dirty' = dirty
    <3>1. stage = "push"
      BY <1>7 DEF Pushed
    <3>2. WinnerCopy \notin disturbed => Carried'
      BY <1>0, <1>2, <1>3, <1>4, <2>2, <3>1 DEF Carried
    <3> QED BY <1>1, <1>3, <1>4, <1>5, <2>2, <3>2 DEF DInv
  <2> QED BY <1>7, <2>1, <2>2 DEF Pushed, RunStops, artifacts
<1>8. CASE Proposed
  <2>1. CASE stage' = "idle" /\ manifest' = manifest
    BY <1>1, <2>1 DEF DInv, Delivering
  <2>2. CASE stage' = "publish" /\ manifest' = manifest /\ UNCHANGED <<dirty, remote>>
    <3>1. stage = "propose"
      BY <1>8 DEF Proposed
    <3>2. WinnerCopy \notin disturbed => Carried'
      BY <1>2, <1>3, <1>4, <2>2, <3>1 DEF Carried
    <3> QED BY <1>1, <1>3, <1>4, <1>5, <2>2, <3>2 DEF DInv
  <2> QED BY <1>8, <2>1, <2>2 DEF Proposed, RunStops, artifacts, git
<1>9. CASE Completed
  <2>1. stage = "publish" /\ stage' = "report" /\ UNCHANGED <<dirty, remote>>
    BY <1>9 DEF Completed, git
  <2>2. WinnerCopy \notin disturbed => Carried'
    BY <1>2, <1>3, <1>4, <2>1 DEF Carried
  <2> QED BY <1>3, <1>4, <1>5, <2>1, <2>2 DEF DInv
<1> QED BY <1>6, <1>7, <1>8, <1>9

\* Delivery is not disturbed by steps of candidates, all of another attempt.
LEMMA DeliveryUndisturbed ==
  ASSUME IInv, DInv, NEW u \in Task, CandidateStep(u) \/ CandidateRaises(u)
  PROVE  DInv'
<1>0. Types
  BY DEF IInv
<1>1. /\ UNCHANGED <<attempt, winners, manifest, commits, remote>>
      /\ stage' = stage \/ stage' = "idle"
      /\ disturbed \subseteq disturbed'
  <2>1. UNCHANGED manifest
    BY DEF CandidateStep, CandidateBegins, SessionEnds, CommandsEnd, RepairEnds, VerifyEnds,
           ReviewEnds, CandidateRaises, TaskUnchanged, artifacts
  <2> QED BY <1>0, <2>1, RunUntouched, CopyFrame
<1>2. manifest' = "completed" => stage' \in {"report", "idle"}
  BY <1>1 DEF DInv
<1>3. CASE ~Delivering'
  BY <1>2, <1>3 DEF DInv
<1>4. CASE Delivering'
  <2>1. Delivering /\ stage # "candidates"
    BY <1>1, <1>4 DEF Delivering, DInv
  <2>2. /\ attempt \in Attempts
        /\ Winner \in Task
        /\ pc[Winner] = "done"
        /\ WinnerCopy \in Copy
        /\ WinnerCopy \notin disturbed => Carried
    BY <2>1, TaskFacts DEF DInv, WinnerCopy
  <2>3. RunIsOver(u)
    BY <2>1 DEF RunIsOver
  <2>4. stage' = stage \/ (stage \in {"report", "idle"} /\ stage' = "idle")
    BY <1>1, <1>4 DEF Delivering, DInv
  <2>5. u # Winner
    BY <2>2 DEF CandidateStep, CandidateBegins, SessionEnds, CommandsEnd, RepairEnds,
                VerifyEnds, ReviewEnds, CandidateRaises, Working
  <2>6. pc'[Winner] = pc[Winner] /\ held'[Winner] = held[Winner]
    BY <1>0, <2>2, <2>5, TaskFrame
  <2>7. WinnerCopy \notin disturbed' => dirty'[WinnerCopy] = dirty[WinnerCopy]
    BY <1>0, <2>2, <2>3, CopyFrame
  <2>8. Winner' = Winner /\ WinnerCopy' = WinnerCopy
    BY <1>1 DEF Winner, WinnerCopy, CopyOf
  <2>9. WinnerCopy \notin disturbed' => Carried'
    BY <1>1, <2>2, <2>4, <2>6, <2>7, <2>8 DEF Carried
  <2>10. attempt' \in Attempts' /\ Winner' \in Task'
    BY <1>1, <2>2, <2>8 DEF Task, Attempts
  <2> QED BY <1>2, <2>2, <2>6, <2>8, <2>9, <2>10 DEF DInv
<1> QED BY <1>3, <1>4

\* What is left behind changes the copy of the winner, which is disturbed then, or
\* another one.
LEMMA DeliveryBeside ==
  ASSUME IInv, DInv, NEW u \in Task, LeftBehindWrites(u)
  PROVE  DInv'
<1>0. Types
  BY DEF IInv
<1>1. /\ UNCHANGED <<attempt, stage, winners, manifest, pc, held, commits, remote>>
      /\ disturbed' = disturbed \union {CopyOf(u)}
  BY <1>0, LeftBehindFrame
<1>2. Winner' = Winner /\ WinnerCopy' = WinnerCopy
  BY <1>1 DEF Winner, WinnerCopy, CopyOf
<1>3. Winner \in Task /\ WinnerCopy \notin disturbed' => dirty'[WinnerCopy] = dirty[WinnerCopy]
  BY <1>0, <1>1, LeftBehindFrame, TaskFacts DEF WinnerCopy
<1>4. Delivering' = Delivering /\ Attempts' = Attempts /\ Task' = Task
  BY <1>1 DEF Delivering, Attempts, Task
<1> QED BY <1>1, <1>2, <1>3, <1>4 DEF DInv, Carried

\* What the delivery rests on stays the same.
LEMMA DeliveryStands ==
  ASSUME DInv, UNCHANGED <<attempt, winners, pc, held, dirty, commits, remote, disturbed>>,
         stage' = stage \/ stage' = "idle",
         manifest' = manifest
  PROVE  DInv'
<1>1. manifest' = "completed" => stage' \in {"report", "idle"}
  BY DEF DInv
<1>2. Winner' = Winner /\ WinnerCopy' = WinnerCopy
  BY DEF Winner, WinnerCopy, CopyOf
<1>3. CASE ~Delivering'
  BY <1>1, <1>3 DEF DInv
<1>4. CASE Delivering'
  <2>1. Delivering
    BY <1>4 DEF Delivering
  <2>2. stage' = stage \/ (stage \in {"report", "idle"} /\ stage' = "idle")
    BY <1>4 DEF Delivering, DInv
  <2>3. WinnerCopy \notin disturbed => Carried'
    BY <1>2, <2>1, <2>2 DEF DInv, Carried
  <2>4. attempt' \in Attempts' /\ Winner' \in Task'
    BY <1>2, <2>1 DEF DInv, Task, Attempts
  <2> QED BY <1>1, <1>2, <2>1, <2>3, <2>4 DEF DInv
<1> QED BY <1>3, <1>4

\* Every step keeps what the delivery rests on.
THEOREM NextDInv == IInv /\ DInv /\ [Next]_vars => DInv'
<1> SUFFICES ASSUME IInv, DInv, [Next]_vars PROVE DInv'
  OBVIOUS
<1>1. CASE AttemptStarts
  BY <1>1 DEF AttemptStarts, DInv, Delivering
<1>2. CASE PrimaryPrepared
  <2>1. stage' \in {"idle", "prepared"} /\ stage = "prepare" /\ manifest' \in {manifest, "running"}
    BY <1>2 DEF PrimaryPrepared, RunStops
  <2> QED BY <2>1 DEF DInv, Delivering
<1>3. CASE CandidatesStart
  <2>1. stage' = "candidates" /\ stage = "prepared" /\ manifest' = manifest
    BY <1>3 DEF CandidatesStart, artifacts
  <2> QED BY <2>1 DEF DInv, Delivering
<1>4. CASE AllFail
  <2>1. stage' = "report" /\ manifest' = "failed"
    BY <1>4 DEF AllFail, Closes, Finalizes
  <2> QED BY <2>1 DEF DInv, Delivering
<1>5. CASE SelectionRaises
  <2>1. stage' = "idle" /\ stage = "candidates" /\ manifest' = manifest
    BY <1>5 DEF SelectionRaises, AllReturned, RunStops, artifacts
  <2> QED BY <2>1 DEF DInv, Delivering
<1>6. CASE WinnerPromoted
  BY <1>6, PromotedIsCarried
<1>7. CASE ProofDecides
  <2>1. CASE manifest' = "failed" /\ stage' = "report"
    BY <2>1 DEF DInv, Delivering
  <2>2. CASE stage' = "commit" /\ UNCHANGED <<manifest, winners>>
    <3>1. /\ stage = "gate"
          /\ UNCHANGED <<attempt, pc, held, dirty, commits, remote, disturbed>>
      BY <1>7 DEF ProofDecides, candidate, git, history
    <3>2. Winner' = Winner /\ WinnerCopy' = WinnerCopy
      BY <2>2, <3>1 DEF Winner, WinnerCopy, CopyOf
    <3>3. WinnerCopy \notin disturbed => Carried'
      BY <2>2, <3>1, <3>2 DEF DInv, Delivering, Carried
    <3>4. attempt' \in Attempts' /\ Winner' \in Task'
      BY <3>1, <3>2 DEF DInv, Delivering, Task, Attempts
    <3> QED BY <2>2, <3>1, <3>2, <3>3, <3>4 DEF DInv, Delivering
  <2> QED BY <1>7, <2>1, <2>2 DEF ProofDecides, Closes, Finalizes
<1>8. CASE CommitMade \/ Pushed \/ Proposed \/ Completed
  BY <1>8, DeliveryGoesOn
<1>9. CASE Reported
  <2>1. /\ stage = "report" /\ stage' = "idle"
        /\ UNCHANGED <<attempt, winners, pc, held, dirty, commits, remote, disturbed, manifest>>
    BY <1>9 DEF Reported, candidate, git, history, artifacts
  <2> QED BY <2>1, DeliveryStands
<1>10. CASE RunRaises
  <2>1. /\ stage' = "idle"
        /\ UNCHANGED <<attempt, winners, pc, held, dirty, commits, remote, disturbed, manifest>>
    BY <1>10 DEF RunRaises, RunStops, candidate, git, history, artifacts
  <2> QED BY <2>1, DeliveryStands
<1>11. CASE PullRequestCloses \/ OtherIssuePrepares \/ Hangs
  <2>1. /\ stage' = stage
        /\ UNCHANGED <<attempt, winners, pc, held, dirty, commits, remote, disturbed, manifest>>
    BY <1>11, HangFrame DEF PullRequestCloses, OtherIssuePrepares, control, candidate, git,
       history, artifacts
  <2> QED BY <2>1, DeliveryStands
<1>12. ASSUME NEW u \in Task, CandidateStep(u) \/ CandidateRaises(u)
       PROVE  DInv'
  BY <1>12, DeliveryUndisturbed
<1>13. CASE UNCHANGED vars
  <2>1. /\ stage' = stage
        /\ UNCHANGED <<attempt, winners, pc, held, dirty, commits, remote, disturbed, manifest>>
    BY <1>13 DEF vars, control, candidate, git, history, artifacts
  <2> QED BY <2>1, DeliveryStands
<1>14. ASSUME NEW u \in Task, LeftBehindWrites(u)
       PROVE  DInv'
  BY <1>14, DeliveryBeside
<1> QED BY <1>1, <1>2, <1>3, <1>4, <1>5, <1>6, <1>7, <1>8, <1>9, <1>10, <1>11, <1>12, <1>13,
           <1>14, NextSplits DEF RunAction, RunStep

\* A completed attempt has delivered what the copy of its winner held when the review
\* approved (execute_run, from _promote_candidate_result to the last manifest).
THEOREM CompletedIsDeliveredHolds == Spec => []CompletedIsDelivered
<1>1. Init => DInv
  BY DEF Init, DInv, Delivering
<1>2. IInv /\ DInv /\ [Next]_vars => DInv'
  BY NextDInv
<1>3. DInv => CompletedIsDelivered
  <2> SUFFICES ASSUME DInv, manifest = "completed", WinnerCopy \notin disturbed
               PROVE  dirty[WinnerCopy] = {} /\ held[Winner] \subseteq remote[WinnerCopy]
    BY DEF CompletedIsDelivered
  <2>1. Carried /\ stage \in {"report", "idle"}
    BY DEF DInv, Delivering
  <2> QED BY <2>1 DEF Carried
<1> QED BY <1>1, <1>2, <1>3, Invariance, PTL DEF Spec
=============================================================================
