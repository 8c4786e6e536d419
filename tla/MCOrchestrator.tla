--------------------------- MODULE MCOrchestrator ---------------------------
(***************************************************************************)
(* Three issues, one of them with no thread, and at most two runs at once: *)
(* the smallest instance where a third request waits behind a full service *)
(* and where two waiting requests can change order.                        *)
(***************************************************************************)
EXTENDS Orchestrator, TLC

CONSTANTS k1, k2, k3, t1, t2

MCThreadOf == (k1 :> t1) @@ (k2 :> t2) @@ (k3 :> NoThread)
=============================================================================
