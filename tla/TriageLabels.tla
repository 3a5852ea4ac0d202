---------------------------- MODULE TriageLabels ----------------------------
(***************************************************************************)
(* The labels of the issues of one package and fix version, and the queue  *)
(* of triage tasks: what the triage agents, the sweeps of postponed issues *)
(* and the rebase agent share.  Labels the program does not tell apart are *)
(* one: "postponed" is ymir_postponed_dependency, _y_stream or             *)
(* _pr_pending, "decided" any ymir_triaged_* label but the one of a        *)
(* rebase, "failed" ymir_rebase_failed or _errored, "reproduced" any       *)
(* ymir_reproducer_* label.                                                *)
(***************************************************************************)
EXTENDS Integers, Sequences, SequencesExt

CONSTANTS
    Issue,
    MaxRetries,     \* MAX_RETRIES
    Setups          \* what a behaviour starts from, see SetupType

VARIABLES
    labels,     \* labels[i]: the Ymir labels of the issue
    queue,      \* triage_queue, LPUSH at the head
    setup,      \* the member of Setups at work
    failures    \* number of faults so far

Label == {"in_progress", "sibling", "waiting", "triaged_rebase", "decided",
          "postponed", "no_patch", "rebased", "failed", "errored", "reproduced"}
Postponement == {"postponed", "no_patch"}
Task == [issue : Issue, attempts : 0 .. MaxRetries - 1]

Fresh(i) == [issue |-> i, attempts |-> 0]       \* Task.from_issue
LPush(t) == queue' = <<t>> \o queue
Edit(i, add, remove) == labels' = [labels EXCEPT ![i] = (@ \ remove) \cup add]

(* A single failure of the kind, if the setup has it. *)
Failure(kind) == /\ kind \in setup.faults /\ failures < setup.max
                 /\ failures' = failures + 1

(* A write that set_jira_labels does not report when it fails. *)
BestEffort(i, add, remove) ==
    \/ Edit(i, add, remove) /\ UNCHANGED failures
    \/ Failure("label") /\ UNCHANGED labels
=============================================================================
