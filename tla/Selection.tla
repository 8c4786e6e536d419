----------------------------- MODULE Selection ------------------------------
(***************************************************************************)
(* The choice of a winner among the candidates of one attempt: the scope   *)
(* of what each of them changed, the findings of its review, the rank and  *)
(* the judge of an exact tie (app/pipeline.py,                             *)
(* app/implementation/candidate_policy.py, app/review/orchestrator.py,     *)
(* app/runners/claude_runner.py).                                          *)
(*                                                                         *)
(* Attempt leaves open which candidates are eligible and how they rank;    *)
(* this module says so, and leaves open what a working copy holds.  A      *)
(* pattern for paths is the set of files it matches.                       *)
(***************************************************************************)
EXTENDS Naturals, FiniteSets

CONSTANTS
  Files,      \* the files of the repository
  Plans,      \* the plans: expected files and files not to be touched
  Grants,     \* the issues: label, allowlist in the body, allowlist artifact
  Policies,   \* protected_paths, as a session may leave them in WORKFLOW.md
  Reports,    \* the lists of findings the ranker may return
  Durations   \* duration_ms of a candidate

Candidate == {"primary", "alt1"}
None == "none"
\* "critical" stands for every string that is none of the other three.
Severity == {"critical", "high", "medium", "low"}
Subject == {"contract", "protected"}
Finding == [n : Nat, severity : Severity, postable : BOOLEAN, about : SUBSET Subject]

ASSUME SelectionAssumption ==
  /\ IsFiniteSet(Files)
  /\ Plans \subseteq [expected : SUBSET Files, forbidden : SUBSET Files]
  /\ Grants \subseteq [label : BOOLEAN, body : SUBSET Files, artifact : SUBSET Files]
  /\ Policies \subseteq SUBSET Files
  /\ \A r \in Reports : IsFiniteSet(r) /\ r \subseteq Finding
  /\ Durations \subseteq Nat

VARIABLES
  plan,       \* plan.json: candidate_files and tasks, must_not_touch
  grant,      \* what the issue allows of the protected configuration
  lane,       \* candidate_ids of the attempt
  phase,      \* where each candidate stands
  handedOver, \* candidates that have had their second session
  changed,    \* changed_files of its last session
  guarded,    \* protected_paths of the workflow that session left
  report,     \* the findings of its review
  duration,   \* duration_ms
  stage,      \* the choice: open, tie, chosen, raised or failed
  winner      \* winner_candidate_id

inputs == <<plan, grant, lane>>
work == <<phase, handedOver, changed, guarded, report, duration>>
vars == <<inputs, work, stage, winner>>

TypeOK ==
  /\ plan \in Plans
  /\ grant \in Grants
  /\ lane \in {{"primary"}, Candidate}
  /\ phase \in [Candidate -> {"session", "checks", "review", "success", "failed"}]
  /\ handedOver \subseteq Candidate
  /\ changed \in [Candidate -> SUBSET Files]
  /\ guarded \in [Candidate -> Policies \union {{}}]
  /\ report \in [Candidate -> Reports \union {{}}]
  /\ duration \in [Candidate -> Durations \union {0}]
  /\ stage \in {"open", "tie", "chosen", "raised", "failed"}
  /\ winner \in Candidate \union {None}

\* decide_candidates and _resolve_candidate_ids: a second candidate is run if
\* candidate mode is on in the workflow and the issue has come back often
\* enough or the planner is not sure, with branches in the design if the
\* triggers ask for them.
CandidateIds(on, reworked, unsure, branched, wantsBranches) ==
  IF on /\ (wantsBranches => branched) /\ (reworked \/ unsure) THEN Candidate ELSE {"primary"}

Init ==
  /\ plan \in Plans
  /\ grant \in Grants
  /\ \E on, reworked, unsure, branched, wantsBranches \in BOOLEAN :
       lane = CandidateIds(on, reworked, unsure, branched, wantsBranches)
  /\ phase = [c \in Candidate |-> "session"]
  /\ handedOver = {}
  /\ changed = [c \in Candidate |-> {}]
  /\ guarded = [c \in Candidate |-> {}]
  /\ report = [c \in Candidate |-> {}]
  /\ duration = [c \in Candidate |-> 0]
  /\ stage = "open"
  /\ winner = None

-----------------------------------------------------------------------------
(* Scope *)

\* _build_scope_analysis: a plan that names no files expects any.
Unexpected(files) == IF plan.expected = {} THEN {} ELSE files \ plan.expected

\* _resolve_protected_config_allowlist: the section of the issue's body, or the
\* artifact if that is empty.
Allowlist == IF grant.body # {} THEN grant.body ELSE grant.artifact

\* _protected_config_violations: nothing is allowed without the label.
ProtectedViolations(files, protected) ==
  (files \intersect protected) \ (IF grant.label THEN Allowlist ELSE {})

InScope(files, protected) ==
  files \intersect plan.forbidden = {} /\ ProtectedViolations(files, protected) = {}

\* A session has ended and the commands have passed; the changed files are
\* compared with the plan and with the protected paths of the workflow, which
\* is read again from the copy.
SessionEnds(c) ==
  /\ phase[c] = "session"
  /\ \E files \in SUBSET Files, protected \in Policies :
       /\ changed' = [changed EXCEPT ![c] = files]
       /\ guarded' = [guarded EXCEPT ![c] = protected]
       /\ phase' = [phase EXCEPT ![c] = IF InScope(files, protected) THEN "checks" ELSE "failed"]
  /\ UNCHANGED <<inputs, handedOver, report, duration, stage, winner>>

\* The repair checks find what a second session is to repair, once.
HandsOver(c) ==
  /\ phase[c] = "checks"
  /\ c \notin handedOver
  /\ handedOver' = handedOver \union {c}
  /\ phase' = [phase EXCEPT ![c] = "session"]
  /\ UNCHANGED <<inputs, changed, guarded, report, duration, stage, winner>>

ChecksPass(c) ==
  /\ phase[c] = "checks"
  /\ phase' = [phase EXCEPT ![c] = "review"]
  /\ UNCHANGED <<inputs, handedOver, changed, guarded, report, duration, stage, winner>>

-----------------------------------------------------------------------------
(* Review *)

\* ReviewOrchestrator.run: the verifier confirms, the confidence is enough.
Postable(findings) == {f \in findings : f.postable}

\* _summarize_review_bundle: a severity is any string, and "high" rejects.  What
\* counts as unnecessary or as a protected path is read off all findings.
Rejects(findings) == \E f \in Postable(findings) : f.severity = "high"
Unnecessary(findings) == {f \in findings : "contract" \in f.about}
ProtectedTouches(findings) == {f \in findings : "protected" \in f.about}

\* The four reviewers find, the verifier and the ranker answer with a list of
\* their own; then the proof of the candidate is complete or not.
ReviewEnds(c) ==
  /\ phase[c] = "review"
  /\ \E findings \in Reports, d \in Durations, complete \in BOOLEAN :
       /\ report' = [report EXCEPT ![c] = findings]
       /\ duration' = [duration EXCEPT ![c] = d]
       /\ phase' = [phase EXCEPT ![c] =
                      IF Rejects(findings) \/ ~complete THEN "failed" ELSE "success"]
  /\ UNCHANGED <<inputs, handedOver, changed, guarded, stage, winner>>

\* The session, a command or the verifier fails; nobody looks again at what it
\* changed.
CandidateFails(c) ==
  /\ phase[c] \in {"session", "checks"}
  /\ phase' = [phase EXCEPT ![c] = "failed"]
  /\ UNCHANGED <<inputs, handedOver, changed, guarded, report, duration, stage, winner>>

-----------------------------------------------------------------------------
(* Rank *)

\* _winner_input counts the postable findings or, if there is none, all of
\* them; it has no count for "critical".
Counted(c) == IF Postable(report[c]) # {} THEN Postable(report[c]) ELSE report[c]
Count(c, s) == Cardinality({f \in Counted(c) : f.severity = s})
Aligned(c) == Unexpected(changed[c]) = {} /\ Unnecessary(report[c]) = {}

\* Variant: the size of the change counts before its scope.
RankBySizeFirst(c) ==
  <<Count(c, "high"), Count(c, "medium"), Count(c, "low"),
    Cardinality(changed[c]),
    IF Aligned(c) THEN 0 ELSE 1,
    Cardinality(Unexpected(changed[c])),
    duration[c]>>

\* candidate_rank_tuple of a successful candidate: no artifact is missing, and
\* there is no type of failure.
Rank(c) ==
  <<Count(c, "high"), Count(c, "medium"), Count(c, "low"),
    IF Aligned(c) THEN 0 ELSE 1,
    Cardinality(Unexpected(changed[c])),
    Cardinality(changed[c]),
    duration[c]>>

\* The order of tuples in Python.
Less(a, b) == \E i \in 1..7 : a[i] < b[i] /\ \A j \in 1..(i - 1) : a[j] = b[j]

Running == {c \in lane : phase[c] \notin {"success", "failed"}}
Successful == {c \in lane : phase[c] = "success"}

\* eligible: a successful candidate passed the hard checks, has its proof and
\* kept its scope, so what remains is what its review says.
Eligible == {c \in Successful : ProtectedTouches(report[c]) = {}}

\* select_winner sorts and keeps the order of equals.
First == {w \in Eligible : \A c \in Eligible :
            /\ ~Less(Rank(c), Rank(w))
            /\ Rank(c) = Rank(w) /\ c # w => w = "primary"}

\* _winner_reason compares the winner with every other success, eligible or not.
Reason(w) ==
  IF \E c \in Successful \ {w} : Rank(c) # Rank(w) THEN "lower rank"
  ELSE IF Successful = {w} THEN "only one" ELSE "judge"

\* _exact_tie_candidate_ids
Tied(w) == {c \in Eligible : Rank(c) = Rank(w)}

\* _select_candidate_result.  One success wins as it is; of several the first
\* does, and there may be none.
Chooses ==
  /\ stage = "open"
  /\ Running = {}
  /\ \/ Successful = {} /\ stage' = "failed" /\ winner' = None
     \/ \E w \in Successful : Successful = {w} /\ stage' = "chosen" /\ winner' = w
     \/ Successful = Candidate /\ Eligible = {} /\ stage' = "raised" /\ winner' = None
     \/ /\ Successful = Candidate
        /\ \E w \in First :
             /\ winner' = w
             /\ stage' = IF Cardinality(Tied(w)) > 1 THEN "tie" ELSE "chosen"
  /\ UNCHANGED <<inputs, work>>

\* _resolve_exact_tie_winner: the judge names one of the tied candidates, or
\* the first remains: the judge failed or named another one.
Judges ==
  /\ stage = "tie"
  /\ stage' = "chosen"
  /\ winner' \in Tied(winner) \union {winner}
  /\ UNCHANGED <<inputs, work>>

-----------------------------------------------------------------------------
(* The system *)

CandidateStep(c) ==
  \/ SessionEnds(c)
  \/ HandsOver(c)
  \/ ChecksPass(c)
  \/ ReviewEnds(c)
  \/ CandidateFails(c)

Next == (\E c \in lane : CandidateStep(c)) \/ Chooses \/ Judges

Spec == Init /\ [][Next]_vars

-----------------------------------------------------------------------------
(* What holds *)

\* Of two tuples of one length, the order of the test's severity vectors.
Lower(a, b) ==
  \E i \in DOMAIN a : a[i] < b[i] /\ \A j \in DOMAIN a : j < i => a[j] = b[j]

\* No better candidate loses.  Of two that succeeded the winner is eligible, and
\* no eligible loser has milder findings; with the same findings none strays less
\* from the plan; and with the same scope too none is smaller, or as small and
\* faster.  The ties that the judge decides, the second sessions and the order
\* in which the candidates end do not matter (tests/test_candidate_policy.py).
NoBetterLoser ==
  LET findings(c) == <<Count(c, "high"), Count(c, "medium"), Count(c, "low")>>
      scope(c) == <<IF Aligned(c) THEN 0 ELSE 1, Cardinality(Unexpected(changed[c]))>>
      cost(c) == <<Cardinality(changed[c]), duration[c]>>
  IN stage = "chosen" /\ Successful = Candidate =>
       /\ winner \in Eligible
       /\ \A c \in Eligible :
            /\ ~Lower(findings(c), findings(winner))
            /\ findings(c) = findings(winner) =>
                 /\ ~Lower(scope(c), scope(winner))
                 /\ scope(c) = scope(winner) => ~Lower(cost(c), cost(winner))

\* A winner is a candidate that was run and succeeded, and what its last session
\* changed is within the plan and the issue's leave: no file of must_not_touch,
\* and no protected file unless the issue is labelled and lists it.
WinnerKeepsScope ==
  stage = "chosen" =>
    /\ winner \in Successful
    /\ changed[winner] \intersect plan.forbidden = {}
    /\ grant.label \/ changed[winner] \intersect guarded[winner] = {}
    /\ changed[winner] \intersect guarded[winner] \subseteq grant.body \union grant.artifact

-----------------------------------------------------------------------------
(* What the names and the reasons in the code suggest.  Spec does not have these *)
(* properties (README.md). *)

\* The winner has no more confirmed findings of the worst kind than an eligible
\* loser.
ConfirmedSeverityDecides ==
  LET worst(c) == \E f \in Postable(report[c]) : f.severity \in {"critical", "high"}
      none(c) == Postable(report[c]) = {}
  IN stage = "chosen" => \A c \in Eligible :
       (none(c) => none(winner)) /\ (worst(winner) => worst(c))

\* pipeline.py:1685: a winner that is said to have won by a lower rank has one.
ReasonIsTrue ==
  stage = "chosen" /\ Reason(winner) = "lower rank" =>
    \A c \in Successful \ {winner} : Less(Rank(winner), Rank(c))
=============================================================================
