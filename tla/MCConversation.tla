--------------------------- MODULE MCConversation ---------------------------
(***************************************************************************)
(* Instances of Conversation.  Two handlers at once show every overlap of  *)
(* two coroutines of a thread; two messages let a reply, a summary or a    *)
(* plan be older than the requirements; four commands are a plan, its      *)
(* approval and both of them again.                                        *)
(***************************************************************************)
EXTENDS Conversation

\* While an approval is under way nothing else is done in the thread.
ApprovalAlone == {{"approve", kind} : kind \in Kinds}
=============================================================================
