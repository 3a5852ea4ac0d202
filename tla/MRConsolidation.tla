--------------------------- MODULE MRConsolidation ---------------------------
(* The workflow of the MR consolidation agent for one package and branch: it   *)
(* lists the open merge requests, folds two of them into a new one on a fresh  *)
(* clone, builds it, opens it, labels the two as consolidated and asks for     *)
(* another run while more are left.  People and the fix agents open and merge  *)
(* merge requests meanwhile; a run can fail at any call and be interrupted and *)
(* run again.  The queue of the pair is taken as MergeQueue shows it to be:    *)
(* one job runs at a time, an interrupted one is recovered.                    *)
EXTENDS Integers, Sequences, FiniteSets

CONSTANTS Strategies,        \* release strategies in use
          MaxBuildAttempts,  \* MAX_BUILD_ATTEMPTS
          MaxOriginals,      \* bound: merge requests of the fix agents
          MaxPeople,         \* bound: label-triggered jobs and merges by people
          MaxFaults          \* bound: failing calls and interruptions

ASSUME ConsolidationAssumption ==
    /\ Strategies \subseteq {"per_commit", "merged"}
    /\ MaxBuildAttempts \in Nat \ {0}
    /\ {MaxOriginals, MaxPeople, MaxFaults} \subseteq Nat

VARIABLES
    strategy,   \* release strategy of the package, fixed
    head,       \* HEAD of the target branch
    mrs,        \* the merge requests in the order they were created
    pending,    \* the pair's job that waits, or NoJob
    recovery,   \* the job of an interrupted run, or NoJob
    job,        \* the job that is processed, or NoJob
    step,       \* the next step of the workflow
    s,          \* the workflow's state
    clone,      \* the local clone
    pairs,      \* label-triggered jobs submitted so far
    faults

outside == <<strategy, head, pending, recovery, job, pairs>>
vars == <<outside, mrs, step, s, clone, faults>>

(* A job names the two merge requests its source issues stand for, or none:    *)
(* then the workflow lists and chooses.                                        *)
NoJob == {0}
AnyTwo  == {}

(* A commit stands for the fixes and the tickets it brings and for how often   *)
(* it bumps the release.                                                       *)
NoChange == [fixes |-> {}, tickets |-> {}, bumps |-> 0]
NewState == [listed |-> {}, selected |-> {}, base |-> 0, count |-> 0,
             attempts |-> MaxBuildAttempts, log |-> FALSE, tomark |-> {}]
NewClone == [commits |-> <<>>, tree |-> NoChange, green |-> FALSE]

Init ==
    /\ strategy \in Strategies
    /\ head = 0 /\ mrs = <<>>
    /\ pending = NoJob /\ recovery = NoJob /\ job = NoJob
    /\ step = "idle" /\ s = NewState /\ clone = NewClone
    /\ pairs = 0 /\ faults = 0

-----------------------------------------------------------------------------
(* What a branch brings. *)

Ids        == 1..Len(mrs)
Kind(i)    == mrs[i].kind
Branch(i)  == mrs[i].commits
Fixes(commits)   == UNION {commits[k].fixes : k \in DOMAIN commits}
Tickets(commits) == UNION {commits[k].tickets : k \in DOMAIN commits}
Bumps(commits)   == LET upto[k \in 0..Len(commits)] ==
                            IF k = 0 THEN 0 ELSE upto[k - 1] + commits[k].bumps
                    IN  upto[Len(commits)]

Consolidated(i) == mrs[i].from # {}
Original(i)     == ~Consolidated(i)
Eligible(i)     == mrs[i].open /\ ~mrs[i].label

Rebuilds(ids)  == {i \in ids : Kind(i) = "rebuild"}
Backports(ids) == {i \in ids : Kind(i) = "backport"}

-----------------------------------------------------------------------------
(* Outside the workflow. *)

Submit == pending' = IF pending = NoJob THEN AnyTwo ELSE pending

(* A fix agent opens a merge request on the current HEAD and submits the pair. *)
NewMR(kind) ==
    /\ Cardinality({i \in Ids : Original(i)}) < MaxOriginals
    /\ LET n == Len(mrs) + 1
           change == [fixes |-> IF kind = "backport" THEN {n} ELSE {},
                      tickets |-> {n}, bumps |-> 1]
       IN  mrs' = Append(mrs, [kind |-> kind, base |-> head, commits |-> <<change>>,
                               open |-> TRUE, label |-> FALSE, from |-> {}, green |-> TRUE])
    /\ Submit
    /\ UNCHANGED <<strategy, head, recovery, job, step, s, clone, pairs, faults>>

(* Label-triggered: strict submission, rejected while the pair has any job. *)
SubmitPair(i, j) ==
    /\ pairs + head < MaxPeople /\ pairs' = pairs + 1
    /\ i # j /\ Eligible(i) /\ Eligible(j)
    /\ pending = NoJob /\ job = NoJob /\ recovery = NoJob
    /\ pending' = {i, j}
    /\ UNCHANGED <<strategy, head, mrs, recovery, job, step, s, clone, faults>>

(* People merge a merge request: the others become stale. *)
Merge(i) ==
    /\ pairs + head < MaxPeople /\ mrs[i].open /\ mrs[i].base = head
    /\ head' = head + 1 /\ mrs' = [mrs EXCEPT ![i].open = FALSE]
    /\ UNCHANGED <<strategy, pending, recovery, job, step, s, clone, pairs, faults>>

-----------------------------------------------------------------------------
(* The run of a job: pick_next_job, the workflow, complete_job. *)

PickJob ==
    /\ step = "idle" /\ job = NoJob
    /\ \/ /\ recovery # NoJob /\ job' = recovery /\ recovery' = NoJob /\ UNCHANGED pending
       \/ /\ recovery = NoJob /\ pending # NoJob
          /\ job' = pending /\ pending' = NoJob /\ UNCHANGED recovery
    /\ step' = "list_open_mrs" /\ s' = NewState /\ clone' = NewClone
    /\ UNCHANGED <<strategy, head, mrs, pairs, faults>>

Goto(name, state) == step' = name /\ s' = state
End     == Goto("end", NewState) /\ clone' = NewClone
Quietly == UNCHANGED <<outside, mrs, faults>>
Fault   == faults < MaxFaults /\ faults' = faults + 1
(* A failed result, or an exception: either way the job is complete. *)
Fails   == Fault /\ End /\ UNCHANGED <<outside, mrs>>

CompleteJob ==
    /\ step = "end" /\ job' = NoJob /\ Goto("idle", s)
    /\ UNCHANGED <<strategy, head, mrs, pending, recovery, clone, pairs, faults>>

(* A shutdown, or a crash that the sweep finds: the job runs again. *)
Interrupt ==
    /\ step # "idle" /\ Fault
    /\ recovery' = job /\ job' = NoJob /\ Goto("idle", NewState) /\ clone' = NewClone
    /\ UNCHANGED <<strategy, head, mrs, pending, pairs>>

(* Backports and rebuilds that are open and not labelled.  The merge requests  *)
(* of source issues must all be among them.                                    *)
Listing == {i \in Ids : Eligible(i)}

ListOpenMRs ==
    /\ step = "list_open_mrs"
    /\ LET found == IF job = AnyTwo THEN Backports(Listing) # {} /\ Cardinality(Listing) >= 2
                                  ELSE job \subseteq Listing
       IN  \/ /\ found
              /\ Goto("fork_and_prepare_dist_git",
                      IF job = AnyTwo THEN [s EXCEPT !.listed = Listing]
                                    ELSE [s EXCEPT !.selected = job])
              /\ Quietly /\ UNCHANGED clone
           \/ ~found /\ End /\ Quietly
           \/ Fails

(* With one backport and otherwise rebuilds, the rebuilds are appended.        *)
Strategy == IF strategy = "per_commit" THEN "per_commit_flow" ELSE "run_consolidation_agent"
Flow(ids) == IF Cardinality(Backports(ids)) = 1 THEN "rebuild_append_flow" ELSE Strategy

(* i comes first among ids: backports before rebuilds, the oldest first.       *)
First(i, ids) ==
    /\ Kind(i) = "rebuild" => Backports(ids) = {}
    /\ \A j \in ids : Kind(j) = Kind(i) => i <= j

(* Stale merge requests are left out, and the first two of the rest taken.     *)
ForkAndPrepare ==
    /\ step = "fork_and_prepare_dist_git"
    /\ LET current == {i \in s.listed : mrs[i].base = head}
           enough  == Cardinality(current) >= 2 /\ Backports(current) # {}
       IN  \/ /\ job # AnyTwo /\ Goto(Flow(job), [s EXCEPT !.base = head])
              /\ Quietly /\ UNCHANGED clone
           \/ /\ job = AnyTwo /\ enough
              /\ \E i \in current : \E j \in current \ {i} :
                    /\ First(i, current) /\ First(j, current \ {i})
                    /\ Goto(Flow({i, j}), [s EXCEPT !.base = head, !.selected = {i, j},
                                                    !.listed = {}, !.count = Cardinality(current)])
              /\ Quietly /\ UNCHANGED clone
           \/ job = AnyTwo /\ ~enough /\ End /\ Quietly
           \/ Fails

(* The agent merges both changes into the tree and leaves the release alone.   *)
RunConsolidationAgent ==
    /\ step = "run_consolidation_agent"
    /\ \/ /\ Goto("run_build_agent", s)
          /\ clone' = [clone EXCEPT !.green = FALSE,
                         !.tree = [clone.tree EXCEPT !.fixes = UNION {Fixes(Branch(i)) : i \in s.selected}]]
          /\ Quietly
       \/ Fails

(* Cherry-picking what the clone holds already fails: the change is empty, or  *)
(* conflicts.                                                                  *)
CherryPick == clone.commits = <<>>

(* The commits of one branch as they are, then those of the other adapted, the *)
(* release bumped for each.                                                    *)
Adapted(commits) == [k \in DOMAIN commits |-> [commits[k] EXCEPT !.bumps = 1]]
PerCommitFlow ==
    /\ step = "per_commit_flow"
    /\ \/ /\ CherryPick
          /\ \E base \in s.selected : \E other \in s.selected \ {base} :
                clone' = [clone EXCEPT !.green = FALSE,
                                       !.commits = Branch(base) \o Adapted(Branch(other))]
          /\ Goto("run_build_agent", s) /\ Quietly
       \/ ~CherryPick /\ End /\ Quietly
       \/ Fails

(* The backport's commits; the last one is amended to resolve the tickets of   *)
(* the rebuild.                                                                *)
Amended(commits, tickets) == [commits EXCEPT ![Len(commits)].tickets = @ \cup tickets]
RebuildAppendFlow ==
    /\ step = "rebuild_append_flow"
    /\ LET tickets == UNION {Tickets(Branch(i)) : i \in Rebuilds(s.selected)}
       IN  \/ /\ CherryPick
              /\ \E i \in Backports(s.selected) :
                    clone' = [clone EXCEPT !.green = FALSE, !.commits = Amended(Branch(i), tickets)]
              /\ Goto("run_build_agent", s) /\ Quietly
           \/ (Backports(s.selected) = {} \/ ~CherryPick) /\ End /\ Quietly
           \/ Fails

RetryStep == IF Rebuilds(s.selected) # {} THEN "rebuild_append_flow" ELSE Strategy

(* Mutant: a build that times out passes, as it does for a backport. *)
RunBuildAgentLenient ==
    /\ step = "run_build_agent"
    /\ \/ /\ clone' \in {[clone EXCEPT !.green = TRUE], clone}
          /\ Goto(IF strategy = "per_commit" THEN "push_and_open_mr" ELSE "update_release", s)
          /\ Quietly
       \/ Fails

(* Only a build that succeeds lets the workflow go on.  Any other outcome uses *)
(* up an attempt and repeats the flow on the clone as it is.                   *)
RunBuildAgent ==
    /\ step = "run_build_agent"
    /\ \/ /\ clone' = [clone EXCEPT !.green = TRUE]
          /\ Goto(IF strategy = "per_commit" THEN "push_and_open_mr" ELSE "update_release", s)
          /\ Quietly
       \/ /\ s.attempts > 1 /\ Fault
          /\ Goto(RetryStep, [s EXCEPT !.attempts = @ - 1])
          /\ UNCHANGED <<outside, mrs, clone>>
       \/ Fails  \* no SRPM, or no attempt left

UpdateRelease ==
    /\ step = "update_release"
    /\ \/ /\ Goto("stage_changes", s) /\ clone' = [clone EXCEPT !.tree.bumps = @ + 1] /\ Quietly
       \/ Fails

StageChanges ==
    /\ step = "stage_changes"
    /\ \/ /\ Goto(IF s.log THEN "commit_push_and_open_mr" ELSE "run_log_agent", s)
          /\ Quietly /\ UNCHANGED clone
       \/ Fails

RunLogAgent ==
    /\ step = "run_log_agent"
    /\ Goto("stage_changes", [s EXCEPT !.log = TRUE]) /\ Quietly /\ UNCHANGED clone

(* Everything ahead of the target branch becomes one commit, for all tickets.  *)
CommitAll ==
    /\ step = "commit_push_and_open_mr"
    /\ \/ /\ LET tickets == UNION {Tickets(Branch(i)) : i \in s.selected}
                 squashed == [fixes |-> Fixes(clone.commits) \cup clone.tree.fixes,
                              tickets |-> tickets,
                              bumps |-> Bumps(clone.commits) + clone.tree.bumps]
             IN  clone' = [clone EXCEPT !.commits = <<squashed>>, !.tree = NoChange]
          /\ Goto("push_and_open_mr", s) /\ Quietly
       \/ Fails

(* The update branch is named after the time of the run, so the merge request  *)
(* is always a new one; a call that fails may have opened it.                  *)
Opened == Append(mrs, [kind |-> "backport", base |-> s.base, commits |-> clone.commits,
                       open |-> TRUE, label |-> FALSE, from |-> s.selected,
                       green |-> clone.green])

Marking == /\ Goto("mark_original_mrs", [NewState EXCEPT !.tomark = s.selected, !.count = s.count])
           /\ clone' = NewClone

(* Mutant: the originals are labelled although the new one was not opened. *)
PushAndMark ==
    /\ step = "push_and_open_mr"
    /\ Marking
    /\ \/ mrs' = Opened /\ UNCHANGED faults
       \/ Fault /\ mrs' \in {mrs, Opened}
    /\ UNCHANGED outside

PushAndOpenMR ==
    /\ step = "push_and_open_mr"
    /\ \/ mrs' = Opened /\ Marking /\ UNCHANGED faults
       \/ Fault /\ End /\ mrs' \in {mrs, Opened}
    /\ UNCHANGED outside

(* One original after the other; a label that cannot be written is forgotten.  *)
MarkOriginalMRs ==
    /\ step = "mark_original_mrs"
    /\ \/ s.tomark = {} /\ Goto("requeue_if_needed", s) /\ UNCHANGED <<mrs, faults>>
       \/ \E i \in s.tomark :
             /\ Goto(step, [s EXCEPT !.tomark = @ \ {i}])
             /\ \/ mrs' = [mrs EXCEPT ![i].label = TRUE] /\ UNCHANGED faults
                \/ Fault /\ UNCHANGED mrs
    /\ UNCHANGED <<outside, clone>>

(* Mutant: the remaining merge requests are counted as if the new one were     *)
(* not there.                                                                  *)
RequeueForTwo ==
    /\ step = "requeue_if_needed"
    /\ End /\ IF s.count - 2 >= 2 THEN Submit ELSE UNCHANGED pending
    /\ UNCHANGED <<strategy, head, recovery, job, pairs, mrs, faults>>

(* Source issues leave the count at 0. *)
RequeueIfNeeded ==
    /\ step = "requeue_if_needed"
    /\ \/ /\ IF s.count - 2 >= 1 THEN Submit ELSE UNCHANGED pending
          /\ End /\ UNCHANGED <<strategy, head, recovery, job, pairs, mrs, faults>>
       \/ s.count - 2 >= 1 /\ Fails

Work ==
    \/ PickJob \/ ListOpenMRs \/ ForkAndPrepare \/ RunConsolidationAgent \/ PerCommitFlow
    \/ RebuildAppendFlow \/ RunBuildAgent \/ UpdateRelease \/ StageChanges \/ RunLogAgent
    \/ CommitAll \/ PushAndOpenMR \/ MarkOriginalMRs \/ RequeueIfNeeded \/ CompleteJob
People == (\E kind \in {"backport", "rebuild"} : NewMR(kind))
          \/ (\E i, j \in Ids : SubmitPair(i, j)) \/ (\E i \in Ids : Merge(i))
Next == Work \/ People \/ Interrupt
Spec == Init /\ [][Next]_vars /\ WF_vars(Work)

-----------------------------------------------------------------------------
Commit == [fixes: SUBSET Nat, tickets: SUBSET Nat, bumps: Nat]
TypeOK ==
    /\ strategy \in Strategies /\ head \in 0..MaxPeople
    /\ \A i \in Ids : /\ mrs[i].kind \in {"backport", "rebuild"} /\ mrs[i].base \in 0..head
                      /\ mrs[i].from \subseteq 1..i - 1
    /\ {pending, recovery, job} \subseteq {NoJob, AnyTwo} \cup SUBSET Ids
    /\ (step = "idle") = (job = NoJob)
    /\ s.attempts \in 0..MaxBuildAttempts /\ s.selected \cup s.listed \subseteq Ids
    /\ faults \in 0..MaxFaults /\ pairs \in 0..MaxPeople

(* A merge request labelled as consolidated, which no later run looks at, has  *)
(* its fix and its tickets in a merge request that was opened for it.  Runs    *)
(* fail, are interrupted and repeated between the push, the opening and each   *)
(* label.                                                                      *)
NothingDropped ==
    \A i \in Ids : mrs[i].label =>
        \E j \in Ids : /\ i \in mrs[j].from
                       /\ Fixes(Branch(i)) \subseteq Fixes(Branch(j))
                       /\ Tickets(Branch(i)) \subseteq Tickets(Branch(j))

(* docs/mr_consolidation_architecture.md: "Consolidation requires a successful *)
(* build; timeouts do not permit publication", on every path back to the build. *)
BuildVerified == \A j \in Ids : mrs[j].green

(* One bump for each commit, one commit if the strategy is "merged": true as   *)
(* long as no rebuild is folded in under "merged".                             *)
MergedRebuild(j) ==
    strategy = "merged" /\ \E i \in Ids : Kind(i) = "rebuild" /\ Tickets(Branch(i)) \subseteq Tickets(Branch(j))
ReleaseBumped ==
    \A j \in Ids : Consolidated(j) /\ ~MergedRebuild(j) =>
        /\ \A k \in DOMAIN Branch(j) : Branch(j)[k].bumps = 1
        /\ strategy = "merged" => Len(Branch(j)) = 1

(* "This avoids a double Release bump since the backport already bumps         *)
(* Release" (docs/mr_consolidation_architecture.md), without the exception.    *)
ReleaseBumpedOnce ==
    \A j \in Ids : \A k \in DOMAIN Branch(j) : Branch(j)[k].bumps = 1

(* "No re-consolidation of consumed MRs" (docs/mr_consolidation_architecture.md): *)
(* no merge request is folded into two.                                        *)
ConsumedOnce ==
    \A j, k \in Ids : mrs[j].from \cap mrs[k].from # {} => j = k

(* A failed build is retried "up to max_build_attempts times"                  *)
(* (docs/mr_consolidation_architecture.md): no flow gives up while attempts    *)
(* are left.                                                                   *)
RetriesUsed ==
    [][(step \in {"per_commit_flow", "rebuild_append_flow"} /\ step' = "end")
           => (faults' > faults)]_vars

(* Without faults and without label-triggered jobs the chain of runs goes on   *)
(* until the merge requests on the current HEAD are folded into one (or only   *)
(* rebuilds are left), whenever they were opened; and it comes to an end.      *)
Current == {i \in Ids : Eligible(i) /\ mrs[i].base = head}
Folded  == step = "idle" /\ pending = NoJob
           /\ (Cardinality(Current) < 2 \/ \A i \in Current : Kind(i) = "rebuild")
ChainFolds == [](faults = 0 /\ pairs = 0) => <>[]Folded

(* A consolidated merge request was built and is one release after the old.   *)
ConsolidatedSound == BuildVerified /\ ReleaseBumped
=============================================================================
