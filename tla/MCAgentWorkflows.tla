-------------------------- MODULE MCAgentWorkflows --------------------------
(* TLC instances of AgentWorkflows. *)
EXTENDS AgentWorkflows

Backports == [agent: {"backport"}, modular: BOOLEAN, konflux: BOOLEAN, user: BOOLEAN,
              candidate: BOOLEAN, sibling: {FALSE}]
Rebases   == [agent: {"rebase"}, modular: BOOLEAN, konflux: BOOLEAN, user: BOOLEAN,
              candidate: {FALSE}, sibling: BOOLEAN]
Rebuilds  == [agent: {"rebuild"}, modular: {FALSE}, konflux: {FALSE}, user: BOOLEAN,
              candidate: {FALSE}, sibling: {FALSE}]

AllSetups == Backports \cup Rebases \cup Rebuilds

(* What is true of an issue, in the combinations that matter. *)
Issue(facts) ==
    [user |-> "user" \in facts, flaky |-> "flaky" \in facts, cve |-> "cve" \in facts,
     affected |-> "affected" \in facts, missing |-> "missing" \in facts,
     manual |-> "manual" \in facts, ready |-> "ready" \in facts, trusted |-> "trusted" \in facts]
SomeIssues ==
    {Issue({"cve", "affected", "ready", "trusted"}),
     Issue({"cve", "affected", "missing", "manual"}),
     Issue({"cve", "missing"}),
     Issue({"user", "flaky", "missing", "manual", "trusted"})}
=============================================================================
