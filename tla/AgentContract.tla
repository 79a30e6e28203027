--------------------------- MODULE AgentContract ---------------------------
(***************************************************************************)
(* What runResearchAgent promises its caller (run-manager.ts, run-agent.ts *)
(* of src/app): it returns once, with one of three statuses, and once its  *)
(* signal has aborted it can only return "interrupted".                    *)
(***************************************************************************)
VARIABLES
  status,   \* "running" until the promise resolves
  aborted   \* options.signal.aborted

contractVars == <<status, aborted>>

Init == status = "running" /\ aborted \in BOOLEAN

Abort ==
  /\ status = "running"
  /\ aborted' = TRUE
  /\ UNCHANGED status

Return(s) ==
  /\ status = "running"
  /\ aborted => s = "interrupted"
  /\ status' = s
  /\ UNCHANGED aborted

Next == Abort \/ \E s \in {"completed", "interrupted", "failed"} : Return(s)

Spec == Init /\ [][Next]_contractVars
=============================================================================
