----------------------------- MODULE MCWorkers -----------------------------
(***************************************************************************)
(* What a worker of a run waits for, side by side: the run gate in front   *)
(* of the model (RunGate), an MCP server (McpClient) and the answer to an  *)
(* escalation (Hitl).  `part` says which takes the steps of a behaviour;   *)
(* the others stay in their first state, and only the fairness of the one  *)
(* that runs is assumed.                                                   *)
(***************************************************************************)
EXTENDS RunGate, McpClient, Hitl

VARIABLE part

WorkersInit == part \in {"gate", "mcp", "ask"} /\ Init /\ McpInit /\ HitlInit

WorkersNext ==
  /\ UNCHANGED part
  /\ \/ part = "gate" /\ Next /\ UNCHANGED <<mcpVars, hitlVars>>
     \/ part = "mcp" /\ McpNext /\ UNCHANGED <<vars, hitlVars>>
     \/ part = "ask" /\ HitlNext /\ UNCHANGED <<vars, mcpVars>>

WorkersFairness ==
  \/ part = "gate" /\ GateFairness
  \/ part = "mcp" /\ McpFairness
  \/ part = "ask" /\ HitlFairness

WorkersSpec ==
  WorkersInit /\ [][WorkersNext]_<<part, vars, mcpVars, hitlVars>> /\ WorkersFairness
=============================================================================
