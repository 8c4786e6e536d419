----------------------------- MODULE MCPlanning -----------------------------
(***************************************************************************)
(* Instances of Planning.  With four criteria and two threads there may    *)
(* be, at a failure, two criteria not yet submitted beside one that runs,  *)
(* has finished unseen or is queued; with one criterion there is no pool.  *)
(* No answer of a model is bounded: the retries end by themselves.         *)
(***************************************************************************)
EXTENDS Planning

OneOrFour == {1, 4}
=============================================================================
