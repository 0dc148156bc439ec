-------------------------- MODULE MCApprovalManager --------------------------
(* Instances of ApprovalManager for TLC. *)
EXTENDS ApprovalManager, TLC

CONSTANTS owner, tick  \* the thread of the chat, the thread of the daemon's job

Split == owner :> {"create", "approve", "reissue", "list"}
         @@ tick :> {"confirm", "reject", "expire", "reap"}
=============================================================================
