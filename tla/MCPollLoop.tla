----------------------------- MODULE MCPollLoop -----------------------------
(* Instances of PollLoop: what kind of row each message is.                *)
EXTENDS PollLoop, TLC

CONSTANTS m1, m2, m3, m4

ChatTaskClearChat ==
  (m1 :> "chat") @@ (m2 :> "task") @@ (m3 :> "clear") @@ (m4 :> "chat")
TwoChats == (m1 :> "chat") @@ (m2 :> "chat")
=============================================================================
