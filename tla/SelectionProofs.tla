-------------------------- MODULE SelectionProofs ---------------------------
(***************************************************************************)
(* The winner keeps the scope, and no better candidate loses, for every    *)
(* plan, issue, report and repository.                                     *)
(*                                                                         *)
(* What a candidate has when it succeeds is not touched after the choice:  *)
(* no candidate of the lane can take a step then.  So it is enough that    *)
(* the choice is right when it is made, and that the judge names a         *)
(* candidate of the same rank.                                             *)
(***************************************************************************)
EXTENDS Selection, TLAPS

\* The candidate has passed the scope and has not failed since.
Passed(c) == phase[c] \in {"checks", "review", "success"}
PassedInScope == \A c \in Candidate : Passed(c) => InScope(changed[c], guarded[c])

\* The choice has been made, for good or until the judge answers.
Named == stage \in {"tie", "chosen"}
Lowest(w) == \A c \in Eligible : ~Less(Rank(c), Rank(w))
NamedIsRight ==
  /\ stage # "open" => Running = {}
  /\ Named => winner \in Successful
  /\ Named /\ Successful = Candidate => winner \in Eligible /\ Lowest(winner)
  /\ stage = "tie" => Successful = Candidate

IInv == TypeOK /\ PassedInScope /\ NamedIsRight

-----------------------------------------------------------------------------
(* Helpers *)

LEMMA LaneIsCandidates == TypeOK => lane \subseteq Candidate
BY DEF TypeOK, Candidate

\* Nobody of the lane steps once the choice is made.
LEMMA StepsWhileOpen ==
  ASSUME IInv, NEW c \in lane, CandidateStep(c)
  PROVE  stage = "open"
<1>1. c \in Running
  BY DEF CandidateStep, SessionEnds, HandsOver, ChecksPass, ReviewEnds, CandidateFails, Running
<1>2. QED
  BY <1>1 DEF IInv, NamedIsRight

\* What the choice compares does not change while the candidates stand still.
LEMMA StandStill ==
  ASSUME UNCHANGED <<inputs, work>>
  PROVE  /\ Successful' = Successful
         /\ Eligible' = Eligible
         /\ Running' = Running
         /\ \A c : Rank(c)' = Rank(c)
         /\ PassedInScope' = PassedInScope
<1> USE DEF inputs, work
<1>1. Successful' = Successful /\ Running' = Running
  BY DEF Successful, Running
<1>2. Eligible' = Eligible
  BY <1>1 DEF Eligible, ProtectedTouches
<1>3. \A c : Rank(c)' = Rank(c)
  BY DEF Rank, Count, Counted, Postable, Aligned, Unexpected, Unnecessary
<1>4. PassedInScope' = PassedInScope
  BY DEF PassedInScope, Passed, InScope, ProtectedViolations, Allowlist
<1>5. QED
  BY <1>1, <1>2, <1>3, <1>4

-----------------------------------------------------------------------------
(* The invariant *)

LEMMA InitHolds == Init => IInv
BY DEF Init, IInv, TypeOK, PassedInScope, Passed, NamedIsRight, Named, CandidateIds, Candidate, None

\* A step of a candidate: it enters the checks only with its scope kept.
LEMMA CandidateKeeps ==
  ASSUME IInv, NEW c \in lane, CandidateStep(c)
  PROVE  IInv'
<1>1. stage = "open" /\ UNCHANGED <<inputs, stage, winner>> /\ c \in Candidate
  BY StepsWhileOpen, LaneIsCandidates
     DEF IInv, CandidateStep, SessionEnds, HandsOver, ChecksPass, ReviewEnds, CandidateFails
<1>2. NamedIsRight'
  BY <1>1 DEF NamedIsRight, Named
<1>3. CASE SessionEnds(c)
  <2>1. TypeOK'
    BY <1>1, <1>3 DEF SessionEnds, IInv, TypeOK, inputs
  <2>2. PassedInScope'
    <3> SUFFICES ASSUME NEW d \in Candidate, Passed(d)'
                 PROVE  InScope(changed[d], guarded[d])'
      BY DEF PassedInScope
    <3>1. PICK files \in SUBSET Files, protected \in Policies :
            /\ changed' = [changed EXCEPT ![c] = files]
            /\ guarded' = [guarded EXCEPT ![c] = protected]
            /\ phase' = [phase EXCEPT ![c] = IF InScope(files, protected) THEN "checks"
                                             ELSE "failed"]
      BY <1>3 DEF SessionEnds
    <3>2. CASE d = c
      <4>1. InScope(files, protected) /\ changed'[d] = files /\ guarded'[d] = protected
        BY <3>1, <3>2 DEF Passed, IInv, TypeOK
      <4>2. QED
        BY <4>1, <1>1 DEF InScope, ProtectedViolations, Allowlist, inputs
    <3>3. CASE d # c
      <4>1. Passed(d) /\ changed'[d] = changed[d] /\ guarded'[d] = guarded[d]
        BY <3>1, <3>3 DEF Passed, IInv, TypeOK
      <4>2. QED
        BY <4>1, <1>1 DEF IInv, PassedInScope, InScope, ProtectedViolations, Allowlist, inputs
    <3>4. QED
      BY <3>2, <3>3
  <2>3. QED
    BY <1>2, <2>1, <2>2 DEF IInv
<1>4. CASE HandsOver(c) \/ ChecksPass(c) \/ ReviewEnds(c) \/ CandidateFails(c)
  <2>1. TypeOK'
    <3>1. CASE HandsOver(c)
      BY <1>1, <3>1 DEF HandsOver, IInv, TypeOK, inputs
    <3>2. CASE ChecksPass(c)
      BY <1>1, <3>2 DEF ChecksPass, IInv, TypeOK, inputs
    <3>3. CASE ReviewEnds(c)
      BY <1>1, <3>3 DEF ReviewEnds, IInv, TypeOK, inputs
    <3>4. CASE CandidateFails(c)
      BY <1>1, <3>4 DEF CandidateFails, IInv, TypeOK, inputs
    <3>5. QED
      BY <1>4, <3>1, <3>2, <3>3, <3>4
  <2>2. /\ changed' = changed /\ guarded' = guarded
        /\ \A d \in Candidate : Passed(d)' => Passed(d)
    <3>1. CASE HandsOver(c)
      BY <3>1 DEF HandsOver, Passed, IInv, TypeOK
    <3>2. CASE ChecksPass(c)
      BY <3>2 DEF ChecksPass, Passed, IInv, TypeOK
    <3>3. CASE ReviewEnds(c)
      BY <3>3 DEF ReviewEnds, Passed, IInv, TypeOK
    <3>4. CASE CandidateFails(c)
      BY <3>4 DEF CandidateFails, Passed, IInv, TypeOK
    <3>5. QED
      BY <1>4, <3>1, <3>2, <3>3, <3>4
  <2>3. PassedInScope'
    BY <1>1, <2>2 DEF IInv, PassedInScope, InScope, ProtectedViolations, Allowlist, inputs
  <2>4. QED
    BY <1>2, <2>1, <2>3 DEF IInv
<1>5. QED
  BY <1>3, <1>4 DEF CandidateStep

\* The choice names a success, and of two one that nobody ranks below.
LEMMA ChooseKeeps ==
  ASSUME IInv, Chooses
  PROVE  IInv'
<1>1. UNCHANGED <<inputs, work>> /\ Running = {}
  BY DEF Chooses
<1>2. TypeOK'
  <2>1. Successful \subseteq Candidate /\ First \subseteq Candidate
    BY LaneIsCandidates DEF IInv, Successful, First, Eligible
  <2>2. QED
    BY <1>1, <2>1 DEF Chooses, IInv, TypeOK, inputs, work
<1>3. NamedIsRight'
  <2>1. CASE stage' \notin {"tie", "chosen"}
    BY <1>1, <2>1, StandStill DEF NamedIsRight, Named
  <2>2. CASE \E w \in Successful : Successful = {w} /\ stage' = "chosen" /\ winner' = w
    <3>1. Successful # Candidate
      BY <2>2 DEF Candidate
    <3>2. QED
      BY <1>1, <2>2, <3>1, StandStill DEF NamedIsRight, Named
  <2>3. CASE Successful = Candidate /\ \E w \in First : winner' = w
    <3>1. winner' \in Eligible /\ winner' \in Successful
      BY <2>3 DEF First, Eligible
    <3>2. \A c \in Eligible : ~Less(Rank(c), Rank(winner'))
      BY <2>3 DEF First
    <3>3. Lowest(winner)'
      BY <1>1, <3>2, StandStill DEF Lowest, Less
    <3>4. QED
      BY <1>1, <2>3, <3>1, <3>3, StandStill DEF NamedIsRight
  <2>4. QED
    BY <2>1, <2>2, <2>3 DEF Chooses
<1>4. QED
  BY <1>1, <1>2, <1>3, StandStill DEF IInv

\* The judge names a candidate of the same rank.
LEMMA JudgeKeeps ==
  ASSUME IInv, Judges
  PROVE  IInv'
<1>1. UNCHANGED <<inputs, work>> /\ Running = {} /\ Successful = Candidate
  BY DEF Judges, IInv, NamedIsRight
<1>2. winner \in Eligible /\ Lowest(winner)
  BY <1>1 DEF Judges, IInv, NamedIsRight, Named
<1>3. winner' \in Eligible /\ Rank(winner') = Rank(winner)
  BY <1>2 DEF Judges, Tied
<1>4. TypeOK'
  <2>1. Eligible \subseteq Candidate
    BY LaneIsCandidates DEF IInv, Successful, Eligible
  <2>2. QED
    BY <1>1, <1>3, <2>1 DEF Judges, IInv, TypeOK, inputs, work
<1>5. Lowest(winner)'
  BY <1>1, <1>2, <1>3, StandStill DEF Lowest, Less
<1>6. QED
  BY <1>1, <1>3, <1>4, <1>5, StandStill DEF IInv, NamedIsRight, Judges, Eligible

\* Types, scope and choice, in every reachable state, whatever the plans, the
\* grants, the policies and the answers of the reviewers are.
THEOREM SelectionInvariant == Spec => []IInv
<1>1. Init => IInv
  BY InitHolds
<1>2. IInv /\ [Next]_vars => IInv'
  <2> SUFFICES ASSUME IInv, [Next]_vars
               PROVE  IInv'
    OBVIOUS
  <2>1. ASSUME NEW c \in lane, CandidateStep(c)
        PROVE  IInv'
    BY <2>1, CandidateKeeps
  <2>2. CASE Chooses
    BY <2>2, ChooseKeeps
  <2>3. CASE Judges
    BY <2>3, JudgeKeeps
  <2>4. CASE UNCHANGED vars
    <3>1. UNCHANGED <<inputs, work>> /\ stage' = stage /\ winner' = winner
      BY <2>4 DEF vars
    <3>2. TypeOK'
      BY <3>1 DEF IInv, TypeOK, inputs, work
    <3>3. Lowest(winner)' = Lowest(winner)
      BY <3>1, StandStill DEF Lowest, Less
    <3>4. QED
      BY <3>1, <3>2, <3>3, StandStill DEF IInv, NamedIsRight, Named
  <2>5. QED
    BY <2>1, <2>2, <2>3, <2>4 DEF Next
<1>3. QED
  BY <1>1, <1>2, PTL DEF Spec

-----------------------------------------------------------------------------
(* What the invariant says about the winner *)

\* What is chosen was run, has succeeded and is within the plan and the leave the
\* issue gives, whatever its second session did.
THEOREM WinnerKeepsScopeHolds == Spec => []WinnerKeepsScope
<1>1. IInv => WinnerKeepsScope
  <2> SUFFICES ASSUME IInv, stage = "chosen"
               PROVE  WinnerKeepsScope
    BY DEF WinnerKeepsScope
  <2>1. winner \in Successful /\ winner \in Candidate
    BY LaneIsCandidates DEF IInv, NamedIsRight, Named, Successful
  <2>2. InScope(changed[winner], guarded[winner])
    BY <2>1 DEF IInv, PassedInScope, Passed, Successful
  <2>3. QED
    BY <2>1, <2>2 DEF WinnerKeepsScope, InScope, ProtectedViolations, Allowlist
<1>2. QED
  BY <1>1, SelectionInvariant, PTL

\* Of two successful candidates the better one wins: findings first, then scope,
\* then size and time, with or without a judge.
THEOREM NoBetterLoserHolds == Spec => []NoBetterLoser
<1>1. IInv => NoBetterLoser
  <2> DEFINE findings(c) == <<Count(c, "high"), Count(c, "medium"), Count(c, "low")>>
             scope(c) == <<IF Aligned(c) THEN 0 ELSE 1, Cardinality(Unexpected(changed[c]))>>
             cost(c) == <<Cardinality(changed[c]), duration[c]>>
  <2> SUFFICES ASSUME IInv, stage = "chosen", Successful = Candidate
               PROVE  /\ winner \in Eligible
                      /\ \A c \in Eligible :
                           /\ ~Lower(findings(c), findings(winner))
                           /\ findings(c) = findings(winner) =>
                                /\ ~Lower(scope(c), scope(winner))
                                /\ scope(c) = scope(winner) =>
                                     ~Lower(cost(c), cost(winner))
    BY DEF NoBetterLoser
  <2>1. winner \in Eligible /\ Lowest(winner)
    BY DEF IInv, NamedIsRight, Named
  <2>2. ASSUME NEW c \in Eligible
        PROVE  /\ ~Lower(findings(c), findings(winner))
               /\ findings(c) = findings(winner) =>
                    /\ ~Lower(scope(c), scope(winner))
                    /\ scope(c) = scope(winner) => ~Lower(cost(c), cost(winner))
    <3> DEFINE r == Rank(c)
               s == Rank(winner)
    <3>1. \A i \in 1..7 : r[i] < s[i] => \E j \in 1..(i - 1) : r[j] # s[j]
      BY <2>1, <2>2 DEF Lowest, Less
    <3>2. /\ r[1] = findings(c)[1] /\ r[2] = findings(c)[2] /\ r[3] = findings(c)[3]
          /\ r[4] = scope(c)[1] /\ r[5] = scope(c)[2]
          /\ r[6] = cost(c)[1] /\ r[7] = cost(c)[2]
      BY DEF Rank
    <3>3. /\ s[1] = findings(winner)[1] /\ s[2] = findings(winner)[2]
          /\ s[3] = findings(winner)[3]
          /\ s[4] = scope(winner)[1] /\ s[5] = scope(winner)[2]
          /\ s[6] = cost(winner)[1] /\ s[7] = cost(winner)[2]
      BY DEF Rank
    <3> HIDE DEF r, s
    <3>4. /\ ~(r[1] < s[1])
          /\ r[1] = s[1] => ~(r[2] < s[2])
          /\ r[1] = s[1] /\ r[2] = s[2] => ~(r[3] < s[3])
          /\ r[1] = s[1] /\ r[2] = s[2] /\ r[3] = s[3] => ~(r[4] < s[4])
          /\ r[1] = s[1] /\ r[2] = s[2] /\ r[3] = s[3] /\ r[4] = s[4] => ~(r[5] < s[5])
          /\ r[1] = s[1] /\ r[2] = s[2] /\ r[3] = s[3] /\ r[4] = s[4] /\ r[5] = s[5]
               => ~(r[6] < s[6])
          /\ r[1] = s[1] /\ r[2] = s[2] /\ r[3] = s[3] /\ r[4] = s[4] /\ r[5] = s[5]
               /\ r[6] = s[6] => ~(r[7] < s[7])
      BY <3>1
    <3>5. ~Lower(findings(c), findings(winner))
      BY <3>2, <3>3, <3>4 DEF Lower
    <3>6. ASSUME findings(c) = findings(winner)
          PROVE  ~Lower(scope(c), scope(winner))
      BY <3>2, <3>3, <3>4, <3>6 DEF Lower
    <3>7. ASSUME findings(c) = findings(winner), scope(c) = scope(winner)
          PROVE  ~Lower(cost(c), cost(winner))
      BY <3>2, <3>3, <3>4, <3>7 DEF Lower
    <3>8. QED
      BY <3>5, <3>6, <3>7
  <2>3. QED
    BY <2>1, <2>2
<1>2. QED
  BY <1>1, SelectionInvariant, PTL
=============================================================================
