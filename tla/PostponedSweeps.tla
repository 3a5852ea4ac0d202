-------------------------- MODULE PostponedSweeps ---------------------------
(***************************************************************************)
(* The sweeps of postponed issues (ymir/sweep): cron jobs that put an      *)
(* issue back into triage once its blocker is gone.  A strategy is named   *)
(* by the label it looks for; those of dependency, Y-stream and pending    *)
(* merge request act alike.                                                *)
(***************************************************************************)
EXTENDS TriageLabels

VARIABLES
    blocker,    \* blocker[i]: "open", "done" or, for a merge request, "closed"
    sweeps      \* sweeps[k]: [at, issue, todo] of the job of strategy k

Between == [at |-> "idle", issue |-> {}, todo |-> {}]

SweepsInit ==
    /\ blocker = [i \in Issue |-> "open"]
    /\ sweeps = [k \in Postponement |-> Between]

(* The dependency ships, the merge request is merged or closed. *)
BlockerSettles(i) ==
    /\ blocker[i] = "open" /\ "postponed" \in labels[i]
    /\ \E b \in {"done", "closed"} : blocker' = [blocker EXCEPT ![i] = b]
    /\ UNCHANGED <<labels, queue, setup, failures, sweeps>>

(* no_patch leaves issues alone that are in triage. *)
Sweepable(k) ==
    {i \in Issue : k \in labels[i] /\ (k = "no_patch" => "in_progress" \notin labels[i])}

(* get_blocked_issues. *)
SweepStart(k) ==
    /\ sweeps[k] = Between /\ Sweepable(k) # {}
    /\ sweeps' = [sweeps EXCEPT ![k].todo = Sweepable(k)]
    /\ UNCHANGED <<labels, queue, setup, failures, blocker>>

NextIssue(k) == sweeps' = [sweeps EXCEPT ![k] = [sweeps[k] EXCEPT !.at = "idle", !.issue = {}]]
At(k, i, at) == sweeps[k].at = at /\ i \in sweeps[k].issue

(***************************************************************************)
(* is_unblocked, and the first step of on_unblock (the LPUSH) or of        *)
(* on_transition.  no_patch has nothing to check.                          *)
(***************************************************************************)
SweepIssue(k, i) ==
    /\ sweeps[k].at = "idle" /\ i \in sweeps[k].todo
    /\ \/ /\ k = "no_patch" \/ blocker[i] = "done"
          /\ LPush(Fresh(i))
          /\ sweeps' = [sweeps EXCEPT ![k] = [at |-> "pushed", issue |-> {i}, todo |-> @.todo \ {i}]]
          /\ UNCHANGED labels
       \/ /\ k = "postponed" /\ blocker[i] = "closed"
          /\ Edit(i, {"no_patch"}, {})
          /\ sweeps' = [sweeps EXCEPT ![k] = [at |-> "marked", issue |-> {i}, todo |-> @.todo \ {i}]]
          /\ UNCHANGED queue
       \/ /\ k = "postponed" /\ blocker[i] = "open"
          /\ sweeps' = [sweeps EXCEPT ![k].todo = @ \ {i}]
          /\ UNCHANGED <<labels, queue>>
    /\ UNCHANGED <<setup, failures, blocker>>

(* add_issue_label of ymir_triage_in_progress; an error ends the issue. *)
SweepProgress(k, i) ==
    /\ At(k, i, "pushed")
    /\ \/ /\ Edit(i, {"in_progress"}, {})
          /\ sweeps' = [sweeps EXCEPT ![k].at = "marked"]
          /\ UNCHANGED failures
       \/ Failure("sweep") /\ NextIssue(k) /\ UNCHANGED labels
    /\ UNCHANGED <<queue, setup, blocker>>

(* remove_issue_label of the label the strategy looks for. *)
SweepRemove(k, i) ==
    /\ At(k, i, "marked")
    /\ \/ Edit(i, {}, {k}) /\ UNCHANGED failures
       \/ Failure("remove") /\ UNCHANGED labels
    /\ NextIssue(k)
    /\ UNCHANGED <<queue, setup, blocker>>

(* The job is killed. *)
SweepDies(k) ==
    /\ sweeps[k] # Between
    /\ Failure("sweep")
    /\ sweeps' = [sweeps EXCEPT ![k] = Between]
    /\ UNCHANGED <<labels, queue, setup, blocker>>

SweepStep(k) ==
    \/ SweepStart(k)
    \/ \E i \in Issue : SweepIssue(k, i) \/ SweepProgress(k, i) \/ SweepRemove(k, i)
=============================================================================
