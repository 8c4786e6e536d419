----------------------------- MODULE MCAttempt ------------------------------
(***************************************************************************)
(* Two attempts, the first alone or both with a second candidate.  One     *)
(* workflow asks for artifacts that the source knows of, the other is the  *)
(* WORKFLOW.md of the repository, which asks for more.                     *)
(***************************************************************************)
EXTENDS Attempt

Alone == <<{{"primary"}}, {{"primary"}}>>
Both == <<{{"primary"}, {"primary", "alt1"}}, {{"primary"}}>>
Plain == {"plan.json", "verification.json"}
OfRepository == Plain \union {"repair_feedback.json", "review_decision.json",
                              "postable_findings.json"}
AnyWorkflow == {Plain, OfRepository}
RepositoryOnly == {OfRepository}
PlainOnly == {Plain}
=============================================================================
