------------------------------ MODULE MCServer ------------------------------
(***************************************************************************)
(* What surrounds a run in a server process: the shell commands it starts, *)
(* the ACP session that prompts it, the pipes of agent-rpc.  The three     *)
(* share no state, so one instance of each is explored on its own: `part`  *)
(* says which, and the others stand still where they begin.                *)
(***************************************************************************)
EXTENDS AcpSession, AgentRpc, ShellTool

VARIABLE part

serverVars == <<acpVars, rpcVars, shellVars, part>>

ServerInit ==
  /\ part \in {"acp", "rpc", "shell"}
  /\ part = "shell" \/ stubborn = {}
  /\ AcpInit /\ RpcInit /\ ShellInit

Converses == part = "acp"   /\ AcpNext   /\ UNCHANGED <<rpcVars, shellVars, part>>
Serves    == part = "rpc"   /\ RpcNext   /\ UNCHANGED <<acpVars, shellVars, part>>
Executes  == part = "shell" /\ ShellNext /\ UNCHANGED <<acpVars, rpcVars, part>>

ServerNext == Converses \/ Serves \/ Executes

\* Each part's own fairness, when it is the one that moves.
ServerFairness ==
  /\ \A p \in Prompts : WF_acpVars(part = "acp" /\ EndsCancelled(p))
  /\ WF_rpcVars(part = "rpc" /\ ClientReceives)
  /\ WF_rpcVars(part = "rpc" /\ ServerReceives)
  /\ \A i \in Ids : WF_rpcVars(part = "rpc" /\ Respond(i))
  /\ WF_shellVars(part = "shell" /\ TimesOut)
  /\ WF_shellVars(part = "shell" /\ Escalates)
  /\ WF_shellVars(part = "shell" /\ Closes)

ServerSpec == ServerInit /\ [][ServerNext]_serverVars /\ ServerFairness

\* Every component's variables have their types.
ServerTypeOK == AcpTypeOK /\ RpcTypeOK /\ ShellTypeOK
=============================================================================
