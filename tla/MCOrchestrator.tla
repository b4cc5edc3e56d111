--------------------------- MODULE MCOrchestrator ---------------------------
(* Orchestrator with a template for two categories, one of high risk for     *)
(* the second and a third, both of one VM name, and a category that nobody   *)
(* has; and a catalog with an MCP server, a tool of high risk, one of        *)
(* unknown risk, and one that is not complete.                               *)
EXTENDS Orchestrator

MCTemplates ==
    <<[role |-> "coder", vm_name |-> "vm", categories |-> {"code", "test"}, risk |-> "low"],
      [role |-> "tester", vm_name |-> "vm", categories |-> {"test", "deploy"}, risk |-> "high"]>>

MCTool(id, risk, categories) == [tool_id |-> id, risk |-> risk, categories |-> categories]

MCCatalog ==
    {[own |-> MCTool(3, "medium", {"code"}), tools |-> {}],
     [own |-> NoCapability,
      tools |-> {[tool |-> MCTool(1, "high", {"test"}), complete |-> TRUE],
                 [tool |-> MCTool(5, "medium", {"deploy"}), complete |-> TRUE],
                 [tool |-> MCTool(2, "odd", {"code", "test"}), complete |-> TRUE],
                 [tool |-> MCTool(4, "low", {"test", "deploy"}), complete |-> FALSE]}]}

MCRequests == {<<"test", "code">>, <<"code", "deploy">>, <<"code", "draw">>}
=============================================================================
