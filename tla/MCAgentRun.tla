------------------------------ MODULE MCAgentRun ------------------------------
(* AgentRun on small instances. *)
EXTENDS AgentRun

MCPathOrder   == <<"AGENTS.md", "README.md", "package.json", "src/module.ts">>
MCPaths       == ToSet(MCPathOrder)
MCOrientation == <<"AGENTS.md", "README.md", "package.json">>
MCDocuments   == {"AGENTS.md", "README.md"}
MCManifests   == {"package.json"}

\* Proposals that keep the policy and some that miss it by one thing.
MCComplete == [NoProposal EXCEPT
  !.disposition = "propose", !.contract = "read-only", !.files = {"tool", "test"},
  !.steps = {"registration", "typecheck", "npm test"}]
MCProposals ==
  {MCComplete, [MCComplete EXCEPT !.contract = "side-effects"],
   [MCComplete EXCEPT !.files = {"tool", "test", "elsewhere"}],
   [MCComplete EXCEPT !.steps = {"registration", "typecheck"}],
   [NoProposal EXCEPT !.explains = TRUE],
   [NoProposal EXCEPT !.disposition = "needs-clarification", !.asks = TRUE],
   NoProposal}

===============================================================================
