--------------------------- MODULE AgentWorkflows ---------------------------
(***************************************************************************)
(* The workflows of the agents that work on an issue.  A behaviour follows *)
(* one triage task with the reproduction it asks for, which share the      *)
(* issue's labels and run at the same time, or one fix task; the queue     *)
(* that carries a fix task from triage to its agent is IssueRouting's.     *)
(***************************************************************************)
EXTENDS FixWorkflows, ReproducerWorkflow

Init ==
    /\ FixInit /\ TriageInit /\ ReproInit
    /\ \/ queue = NewPayload /\ triageQueue = -1 /\ issue = CHOOSE i \in Issues : TRUE
       \/ queue = NoPayload /\ triageQueue = 0 /\ issue \in Issues /\ setup = CHOOSE k \in Setups : TRUE

vars == <<fixVars, triageVars, reproVars>>

FixNext    == Work /\ UNCHANGED <<triageVars, reproVars>>
TriageNext == TriageStep /\ UNCHANGED <<fixVars, reproVars>>
ReproNext  == ReproducerStep /\ UNCHANGED fixVars
Stop ==
    \/ Shutdown /\ UNCHANGED <<triageVars, reproVars>>
    \/ TriageShutdown /\ UNCHANGED <<fixVars, reproVars>>
    \/ ReproducerShutdown /\ UNCHANGED fixVars
Next == FixNext \/ TriageNext \/ ReproNext \/ Stop \/ (OtherStream /\ UNCHANGED fixVars)

(* An agent that has a task works on it. *)
Spec == Init /\ [][Next]_vars /\ WF_vars(FixNext \/ TriageNext) /\ WF_vars(ReproNext)

-----------------------------------------------------------------------------
(* Whatever the model answered, a fix is only asked for when the checks that   *)
(* could be made allow it: a branch to fix, an employee behind a rebase, a     *)
(* package that is affected, a dependency in the buildroot, and no branch that *)
(* a maintainer has to create first.  A check counts as made in this attempt.  *)
DispatchJustified ==
    [][sent'.fix > sent.fix =>
          /\ t.target # "none"
          /\ t.result = "rebase" => issue.trusted
          /\ issue.cve /\ t.checked = "affected" => issue.affected
          /\ issue.cve => t.checked # "no"
          /\ t.target = "zstream" /\ issue.missing /\ issue.manual => t.exists = "unknown"
          /\ t.result = "rebuild" /\ t.root = "asked" => issue.ready]_vars

(* A triage task asks for one fix, and for another one only if a shutdown      *)
(* pushed the task again; a push that failed is not repeated.                  *)
FixSentOnce == sent.fix <= 1 + stops

(* An issue is said to have a test only if a merge request with it is open:    *)
(* the model's flags, the lint loop, the push and the merge request disagree   *)
(* in many ways.                                                               *)
CreatedHasMR ==
    [][labels' \ labels = {"created"} => \E b \in Open : tests[b].ours]_vars

(* No Testing Farm machine outlives the workflow that reserved it, unless its  *)
(* cancellation was tried and failed.                                          *)
MachinesReleased == rstep = "idle" => ~reserved

(* Every workflow comes to an end, for all its retries, repairs, lint loops    *)
(* and the tasks it queues again; a fix task ends well or in the error list.   *)
WorkflowsSettle ==
    <>[](/\ TriageSettled /\ ReproductionSettled /\ Settled
         /\ s = StateOf(NewPayload) \/ lists.errors \/ Succeeded)

(* A fix is asked for with reason, and once.                                  *)
FixJustified == DispatchJustified /\ []FixSentOnce

(* What reproduction claims exists, and what it reserved is given back.       *)
ReproductionSound == CreatedHasMR /\ []MachinesReleased
=============================================================================
