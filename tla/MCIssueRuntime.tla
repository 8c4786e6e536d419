--------------------------- MODULE MCIssueRuntime ---------------------------
(***************************************************************************)
(* One issue: what one issue does to another is the run queue's affair, in *)
(* MCOrchestrator.  The bounds are in the cfg files.  One move is a card   *)
(* sent to merge, sent back, unblocked, or a plan withdrawn; one fault is  *)
(* a call that raises; one interruption is an /abort or a death of the     *)
(* bot.                                                                    *)
(***************************************************************************)
EXTENDS IssueRuntime

CONSTANT i1
=============================================================================
