----------------------------- MODULE MCAgentRun -----------------------------
(***************************************************************************)
(* Instances of AgentRun.  Two candidates are enough for every overlap of  *)
(* two threads at the file of records, with the command and the check      *)
(* beside them; they are interchangeable, and the run that uses the        *)
(* symmetry checks no liveness.  The other run follows one candidate to    *)
(* the end of its call, with a rollover and with two faults, so that what  *)
(* the fallback meets can fail as well.                                    *)
(***************************************************************************)
EXTENDS AgentRun, TLC

CONSTANTS primary, alt1

BothWays == BOOLEAN
FirstOnly == {FALSE}
Interchangeable == Permutations(Candidates)
=============================================================================
