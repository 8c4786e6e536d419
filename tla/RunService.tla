----------------------------- MODULE RunService -----------------------------
(***************************************************************************)
(* What the rest of the program expects of the run queue, with no queue in *)
(* it: docs/ARCHITECTURE.md, "Run lifecycle", asks for at most one active  *)
(* attempt of an issue key, and the constructor of Orchestrator for at     *)
(* most max_concurrency of them together.  A key is idle, accepted (its    *)
(* request was answered True and waits) or active.  An accepted key is     *)
(* started in the end, provided active ones keep ending.                   *)
(***************************************************************************)
EXTENDS Naturals, FiniteSets

CONSTANTS Keys, MaxConcurrency

VARIABLE phase

Active == {k \in Keys : phase[k] = "active"}

Init == phase = [k \in Keys |-> "idle"]

\* The request for a key that is neither waiting nor active is accepted.
Accept(k) ==
  /\ phase[k] = "idle"
  /\ phase' = [phase EXCEPT ![k] = "accepted"]

\* A run begins, in a free place.
Activate(k) ==
  /\ phase[k] = "accepted"
  /\ Cardinality(Active) < MaxConcurrency
  /\ phase' = [phase EXCEPT ![k] = "active"]

\* A run is over, and its key can be requested again.
Release(k) ==
  /\ phase[k] = "active"
  /\ phase' = [phase EXCEPT ![k] = "idle"]

Next == \E k \in Keys : Accept(k) \/ Activate(k) \/ Release(k)

\* No accepted key is passed over forever while places keep becoming free.
Fairness == \A k \in Keys : SF_phase(Activate(k)) /\ WF_phase(Release(k))

Safety == Init /\ [][Next]_phase
Spec == Safety /\ Fairness
=============================================================================
