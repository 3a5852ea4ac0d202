# Verification of the Ymir workflows

Ymir is a set of agents that triage Jira issues of RHEL packages, prepare the fixes
(rebase, backport, rebuild), consolidate the merge requests, write reproducers and move
the results through errata.  The agents are containers that share three things: Redis
(queues, locks, delayed sets), Jira (labels) and GitLab (merge requests).  What a language
model decides is unpredictable; what the program does around it is not, and that is what
this directory models: who holds which task, who may work on which issue, what is retried,
what is recovered after a crash, and what is written to Jira in which order.

Paths are relative to the root of the repository.

## 1. Inventory

| Component | State it keeps | Operations | Hard behaviour | What makes it correct |
|---|---|---|---|---|
| MR consolidation queue, `ymir/common/merge_queue.py` | one Redis hash with `:pending`, `:active`, `:heartbeat`, `:recovery` fields per package/branch | submit (auto, strict), pick, stamp, heartbeat, complete, requeue, sweep | Lua scripts interleave; leases run out; stale snapshots | no job lost or doubled, one worker per pair, every entry can be recovered |
| MR consolidation worker, `ymir/agents/mr_consolidation_agent.py` | the payload it holds, its last heartbeat | poll, process, abort, cancel, recover | the heartbeat races the workflow, SIGTERM, crash | it stops before its lease is taken over |
| Agent task loop, `ymir/common/base_utils.py` | semaphore, tasks in flight, the poll in flight | acquire a slot, BRPOP, dispatch, shut down, push back | SIGTERM between any two steps, the orphaned poll | no task lost, memory bounded, a pod that is told to stop stops |
| Issue lock, `ymir/common/issue_lock.py` | `lock:<agent>:<issue>` with a TTL | SET NX, extend, compare-and-delete, expiry | cancellation, outages, late release | one task per issue and agent |
| Rebase, backport, rebuild queue mode | task, attempts, error and completed lists | process, retry, give up | the retry meets its own lock | every task is handled, priority is kept |
| Reproducer lock, blocked lists, delayed queue, `ymir/common/reproducer_lock.py`, `delayed_queue.py` | creation lock, blocked list, delayed set | acquire, release and promote, sweep, park, promote due | parking races release; slow runs are swept | waiters are woken, nothing is lost |
| Reproducer queue mode, `ymir/agents/reproducer_agent.py` | labels, attempts | poll, guard, stage, run, retry, finalize | non-atomic LPOP/LPUSH, label writes that fail | the in-progress label never outlives the work |
| Jira issue fetcher, `ymir/jira_issue_fetcher/` | one sweep's labels, queues and locks | search, read queues and locks, flip labels, push | everything it decides on is stale; two cron jobs | nothing forgotten, nothing worked on twice |
| Triage agent queue mode, `ymir/agents/triage_agent.py` | labels, lock, retry | duplicate check, stamp, triage, terminal label, dispatch | cut off between label and dispatch | as above |
| Jira label protocol, `ymir/agents/tasks.py`, `ymir/common/constants.py` | the `ymir_*` labels | `set_jira_labels` and its failure modes | critical, best-effort and suppressed writes | an in-flight label stands for work that exists |
| Error list, `ymir/common/error_list.py`, `openshift/scripts/requeue_error.py` | entries that block an issue | push, clear, requeue | entries that nobody drains | blocked issues can be released |
| Supervisor, `ymir/supervisor/` | sorted set of work items | collect, pop with a visibility delay, reschedule, remove | a handler that fails halfway runs again; collector and processor interleave | every item is processed until it is done |
| Issue and erratum handlers, `ymir/supervisor/*_handler.py`, `baseline_tests.py` | Jira, errata and reproduction requests | one transition per call | retries of partly done transitions, respins | no step is repeated or skipped; nothing is stranded |
| Sweeps, `ymir/sweep/` | postponed labels | query, push, swap labels | the push comes before the swap | a postponed issue is triaged again |
| Sibling groups, `ymir/agents/rebase_consolidation.py`, `rebuild_consolidation.py` | waiting and sibling labels, marker comments | queue siblings, wait, release the primary | two siblings finish at once, labels are lost | the rebase starts when all siblings are decided, and once |
| Triage workflow, `ymir/agents/triage_agent.py` | the workflow's state | eligibility, triage, applicability, branch, hold, labels, dispatch | checks that fail or are skipped; retries after the dispatch | a fix is sent once, and only where the checks allow it |
| Backport, rebase and rebuild workflows, `ymir/agents/*_agent.py`, `package_update_steps.py`, `build_agent.py` | clone, branch, merge request, checkpoint | up to eighteen steps with four budgets | failures after a side effect, resumption | what is published is one whole, built update; the work ends |
| Reproducer workflow, `ymir/agents/reproducer_agent.py`, `tf_cleanup_middleware.py` | tests clone, merge requests, reserved machines | bootstrap, analyse, lint, publish, clean up | inconsistent answers, shared branches | what is announced is open for review; machines are given back |
| MR consolidation workflow, `ymir/agents/mr_consolidation_agent.py` | clone, merge requests, the next job | list, fold, bump, build, open, label, requeue | interruptions between publication and labels | no fix is dropped; the chain of runs ends with one merge request |
| CVE eligibility, `ymir/tools/privileged/jira.py` | trackers of one CVE | three searches and a decision | the other trackers change meanwhile | inheritance has a shipped fix; one of two twins is worked on; nobody waits for ever |
| Merge request clean-up, `ymir/mr_cleanup/` | listings that age | close, comment, label | people merge and reopen | closures are explained; merged work is not called rejected |
| Canonical titles, `ymir/agents/tasks.py` | a record per issue family in Redis | read, create, replace | no lock; the record expires | families agree on a title |
| Reasoning runner, `ymir/agents/reasoning_agent/` | messages, iteration counters | call, answer, compact | compaction between calls and results | calls and results stay paired, protected tools are remembered |
| Konflux builds, `ymir/tools/privileged/konflux.py` | a Secret and a PipelineRun | create, poll, clean up | cancellation while a request is on its thread | the Secret outlives the run and nothing else |
| Testing Farm reservations, `ymir/tools/privileged/testing_farm.py` | hosts an issue's jobs may use | reserve, look up, run, cancel | addresses are used again | no command reaches another holder's machine |
| Y-stream inheritance, `ymir/agents/ystream_inherit.py` | index and files of a clone | look up, copy, validate, stage, commit, reset | failure at any point, then the ordinary path | the fallback starts clean; the commit holds the fix only |
| Dist-git, forks and merge requests, `ymir/tools/privileged/{distgit,gitlab}.py` | fork, Z-stream branch, mirror | fork, create, clone, push, open | lost answers, siblings in between | branches hold what was built, merged work stays |
| Clones on the shared volume, `ymir/tools/privileged/utils.py` | directories and markers | prepare, clone, clean up | three users of a directory without a lock | no job works on another's files |
| API server, command line | none but the jobs submitted | `submit_merge_job` | | modelled as the submissions of MergeQueue |
| Other gateway tools, QE agents, merge request agent, trace server, scripts | none, or that of external services | wrappers | time-outs of pollers | not modelled, see section 8 |

How they interact:

```
 Jira labels --> fetcher jobs --LPUSH--> triage_queue[_todo] --> triage agent
                     ^                                              |
                     |  labels                                      | terminal label, then LPUSH
                     +---------------- Jira <-----------------------+
                                        ^                           v
                                        |        rebase/backport/rebuild_queue, reproducer_queue
                                        |                           |
                         outcome labels +------- fix agents --------+--> merge requests
                                                                          |
                                            API / agents --submit_merge_job--> consolidation hash
```

Redis commands and Lua scripts are atomic; everything between two of them, and between two
calls to Jira, interleaves with every other process.  No transaction spans Redis and Jira.

## 2. Modules

| Modules | Role |
|---|---|
| `MergeQueue`, `MergeQueueProofs` | the consolidation hash and its workers; theorems |
| `AgentQueue`, `AgentQueueProofs` | task loop, issue lock and queue mode of rebase, backport and rebuild; theorems |
| `ReproducerQueue`, `ReproducerQueueProofs` | reproducer queue, lock, blocked lists and delayed set; theorems |
| `IssueRouting`, `IssueRoutingProofs` | fetcher jobs, triage and fix agents around the labels of an issue; theorems |
| `WorkItems` ← `IssueHandler` ← `ErratumHandler` ← `Supervisor`, `SupervisorProofs` | work queue, the two handlers, and the collector with the world around them; theorems |
| `TriageLabels` ← `PostponedSweeps` ← `SiblingGroups` | labels of a group of issues, the sweeps, and the triage of siblings; theorems in `ConsolidationProofs` |
| `RebaseBarrier` | abstract specification that `SiblingGroups` implements |
| `AgentLimits` ← `FixTask` ← `BackportWorkflow`, `RebaseWorkflow`, `RebuildWorkflow` ← `FixWorkflows` | a fix task and the steps of the three fix agents |
| `AgentLimits` ← `TriageWorkflow` ← `ReproducerWorkflow` | the steps of triage, and of the reproduction that runs beside it |
| `AgentWorkflows`, `WorkflowProofs` | composes the five workflows; theorems |
| `MRConsolidation`, `ConsolidationProofs` | the workflow of the consolidation agent and the merge requests it works on; theorems about both kinds of consolidation |
| `CVETrackers`, `MRCleanup`, `CanonicalTitle`, `ReasoningRunner`, `KonfluxBuild`, `Reservations`, `YStreamInherit`, `DistGitRemotes`, `Workspaces` | nine services and jobs around the agents |
| `Services`, `ServicesProofs` | composes these nine; theorems |
| `MC*` | constants for TLC |

`A ← B` reads: B extends A.  Definitions carry the names of the functions they translate, or of
what they do where a function has several steps.  Some definitions are variants that a
plausible mistake would produce; nothing in the modules refers to them.  `PROJECT.json` lists
under `mutants` which definition each of them replaces and which property it breaks.

One level's abstraction is another's subject: the queues (`MergeQueue`, `AgentQueue`,
`ReproducerQueue`) treat a workflow as an outcome, the workflow modules treat the queue as a
payload that comes back.  `IssueRouting` reduces a triage to a resolution, `TriageWorkflow` says
which resolutions can occur, and `SiblingGroups` adds what issues of one group do to each other.

### MergeQueue

State: `pending`, `active`, `beat`, `recovery` are the fields of the hash, `recoverySeq` the
counter of numbered recovery fields.  Per worker: `pc`, the payload it `held`, the sweep's
`snap`shot, `due` and `lastSuccess` of the heartbeat.  A Lua script is one action; `pick_next_job`
is two (promotion, then the `activated_at` stamp), the sweep is a snapshot and one action per
entry.  The scripts compare payloads byte by byte, so a payload is identified by its job and
the activation that last stamped it.  `now` is a discrete clock.

Abstracted: the steps of the consolidation workflow are `ListOpenMrs` (which MRs the job sees)
and an outcome.  `Init` allows an entry left by a release without heartbeats (`Legacy`), as the
sweep's fallback expects.

### AgentQueue

State: two lists (`queue`), `lock`, error and completed lists; per pod the position of
`run_task_loop`, its semaphore, the poll in flight and what it popped, the set to push back;
per slot the position of `process_task`.  The poll is answered by Redis in an action of its
own, so it can pop a task after the loop has stopped waiting for it.  `cancelled` is set by
`CancelActive` and delivered by `Cancel` at a later step.  A heartbeat keeps a lock alive as
long as its holder lives and Redis answers; so `Expire` is enabled only for locks without a
live holder, and `Outage` is the exception.

Abstracted: the workflow is an outcome (done, failed, failed for good); Jira labels and
malformed payloads are left out.

### ReproducerQueue

State: `queue`, `blocked` lists, the `delayed` set with `ready` members, `lock` with a token,
`stale` tokens; one poller (sweep, promotion of due members, BRPOP, in the order of
`poll_reproducer`) and several slots.  The LPOP and LPUSH of a promotion are two actions.
The lock id comes from a walk over Jira clones; here it is the constant function `LockOf`.

### IssueRouting

State: the labels of an issue, reduced to the classes the program distinguishes ("outcome"
stands for every label that ends the work), `aged` for labels older than
`stale_label_threshold_hours`, queues as bags, `lock`, the lists nobody drains (`parked`), and
the local state of each fetcher, triage slot and fix slot.  A sweep works on what it read at
its start: labels and timestamps of the search, then each queue one by one, then the triage
locks, then the label flips, then the pushes.

Assumptions of this module, each in a guard: no label turns a day old while a sweep is under
way, while a task waits in a queue (unless "backlog" is among the faults) or while a worker
has it (unless "slow" is); the order of the queues is that of AgentQueue and left out here.
Whether a `ymir_todo` was set by an employee is a nondeterministic answer.  The filter of the
main job is a saved Jira query; it is taken to return every open issue of the model.

Left out here: labels of siblings and postponement (TriageLabels), of reproduction
(ReproducerQueue, TriageWorkflow), of consolidation and confidence (not modelled), the fetcher's
rate limiter and request retries.  Resolution "undispatched" stands for the runs that end with a
`ymir_triaged_*` label and push no fix task.

### Supervisor

State: the queue as a set (any item may be the first whose time has come, because any time may
pass between two steps), the processor's position and what its handler `seen`; Jira's record of
each issue with its merge request, test runs and reproduction requests per `round`; the erratum
with its stage push, file listings and alerts, and the RHELMISC `tracker` that asks a human; the
collector's position and what it `found`.  A handler reads once and then writes in steps, each a
call that may fail; `pop` moves an item's time instead of removing it, so a failed handler runs
again on what it left behind.  People clear flags and respin builds (`upsets`).

Abstracted: the verdict of the test analysis is a free choice, scores are not kept, dry runs and
`ignore_needs_attention` are off.

### TriageLabels, PostponedSweeps, SiblingGroups, RebaseBarrier

State: `labels` and the triage `queue`; `blocker` and the jobs of the sweeps; the `markers` that
sibling comments leave, the triage lock (`holder`), the position of each slot, the rebase queue
and what a rebase `merged`.  `TriageLabels` holds the writes all of them share.  A behaviour begins in one
member of `Setups`: how many slots there are, which issues the fetcher pushes, what each triage may
decide, which faults occur.  The fetcher is reduced to its two effects, the first task of an issue
and the 24 hour net (`Rescue`).

`RebaseBarrier` says what a group is promised: a primary invites siblings, each is decided, the
rebase starts when nobody is undecided and takes in those found to need it.  `SiblingGroups`
maps the undecided to issues that carry a marker and no deciding label; every step of the label
protocol is a step of the barrier or a stutter (`BarrierKept`; section 6 says when this is
proved).  Where a label write fails or a pod dies, the rebase may start early; the barrier has
`reliable` for that, which never changes, and also then it takes in the right issues.

### FixTask, the three workflows, TriageWorkflow, ReproducerWorkflow, AgentWorkflows

`FixTask` holds what the fix agents share: the payload with attempts and checkpoint, the
workflow's state `s`, the clone with commit, index and tree, the branch and merge request at
GitLab, Jira, and the completed and error lists.  A tree is the change it holds, the verdict of
the last build of this very change, the number of release bumps and whether the changelog was
written.  `BackportWorkflow` has the eighteen steps of a backport: inheritance from a Z-stream and
its fallback, cherry-pick or git-am, the repair loop, publication, and resumption from the
checkpoint.  `RebaseWorkflow` and `RebuildWorkflow` have theirs.

`TriageWorkflow` follows a triage from eligibility to the comment and then `process_task`:
terminal label, the fix task, the reproduction it asks for.  What is true of the issue is fixed
(`Issues`); the model's answer and the outcome of each call are free.  `ReproducerWorkflow`
follows the reproduction: tests clone, answer of the model (any combination of its flags), lint
loop, push, merge request, machines reserved at Testing Farm and given back by the middleware.
The two share the issue's labels and interleave.

A behaviour of `AgentWorkflows` is one fix task (any setup), or one triage task and the
reproduction it asks for.

Abstracted: MCP calls and agents answer anything; what other streams do to the tests of a shared
branch, Konflux's provisional commits (squashed later), dry runs and the wording of comments are
left out.  Checks of a function that cannot be told apart by a property are one choice.

### MRConsolidation

State: the merge requests in creation order, each with base, source branch, label and state;
`pending`, `recovery` and `job` of the pair; the workflow's step, state and clone; HEAD of the target
branch.  A commit is the fixes and tickets it carries and its release bumps.  Fix agents open
merge requests and people merge or pair them between any two steps.  The queue is taken as
`MergeQueue` shows it to be: one job at a time, an interrupted one comes back.

The selected merge requests are a set: the order of the listing decides which two they are, and
nothing after that depends on it, so that they are labelled in any order.

Left out: `update_jira_issues`' comments, dry run, direct mode.

### Services and its nine parts

What the parts share with each other is inside one part each, so a behaviour of one does not
depend on the steps of the others: the variable `scenario` names the part that moves, the others
rest at an initial state.

| Part | State | Abstraction |
|---|---|---|
| `CVETrackers` | per tracker: stream, state, labels, fixed build, the check under way; each search a step | dates and text of JQL; streams in seven classes |
| `MRCleanup` | merge requests, done issues, labels, the job with its listings | the look-back window; partly closed ones are left alone |
| `CanonicalTitle` | summaries with their number of edits, the record, each agent's position | titles are the issue and edit they come from; one family |
| `ReasoningRunner` | the history as a sequence of messages, iteration, retries, forced tool | no text; the model calls any batch of tools |
| `KonfluxBuild` | Secret and PipelineRun in the cluster, two requests on threads, the tool's position | polling is one choice; contents and logs |
| `Reservations` | machines, calls about them, hosts allowed per issue | composes, keys, output |
| `YStreamInherit` | head, index and working files over five kinds of file; the history that is searched | patch text; repair is a free edit |
| `DistGitRemotes` | main branch, builds, Z-stream branch, its mirror, fork, merge requests | a commit is its NVR; credentials, file contents |
| `Workspaces` | directories, files, marker and owner; jobs, gateway and clean-ups | a clone is two files |

## 3. Runs

Sizes are distinct states.

| Run | States | What it shows |
|---|---|---|
| `queue_safety` | 1.4 M | one pair, two workers, both submission modes, three jobs, any delays, two faults: jobs are conserved, active and recovery entries exclude each other, every entry can be swept, only an expired lease is taken over |
| `queue_timed` | 0.5 M | heartbeats attempted on time: a worker aborts before its lease can be taken over, an automatic submission is followed by a full listing, every job completes |
| `agent_fair` | 0.3 M | two pods, two issues, three submissions, a SIGTERM: no task lost, priority kept, pods that are told to stop stop although workflows may not end, every task is handled if they do |
| `agent_faults` | 1.0 M | three slots and one issue, all faults: memory bounded, lock exclusive |
| `reproducer_fair` | 1.0 M | two tasks behind one lock; two slots and two faults, or one slot and a crash, a failed release or a disabled package: nothing stranded, late releases do no harm, and with one slot parked tasks resume |
| `routing_fair` | 0.2 M | fetcher, triage and fix slot, every resolution, one fault: never wedged, one fix, triage before fix, labels settle |
| `routing_user` | 3.2 M | user requests are not multiplied by failures |
| `supervisor_fair` | 0.3 M | one issue, its erratum, collector and processor, one failed handler, respin or cleared flag: reproductions are not repeated, issue and erratum reach their end or a human |
| `groups_fair` | 0.1 M | three issues of one group, one or two agents, failing writes, crashes, postponement and reproduction: the labels implement the barrier, nobody is rebased twice, the primary is released, a postponed issue is triaged again |
| `workflows_fair` | 1.5 M | every setup of the fix agents and four kinds of issue, two attempts, any call failing, one shutdown: what is published is one whole and built update, an inherited commit stays, a fix is sent once and with reason, a test is announced when it is open, everything ends |
| `consolidation_fair` | 3.0 M | three merge requests, both release strategies, a pairing by people, two faults: a consolidated merge request lives on in the new one, what is opened was built and bumped, a chain without faults folds all |
| `services_fair` | 1.2 M | each of the nine parts, one per behaviour: ten properties named below |

The properties of `services_fair`: `TrackersSound` (a fix is inherited only from one that shipped, one
of two twins is worked on), `CleanupHonest` (the job closes for a reason and says it, and calls
no issue rejected that has an open or merged merge request, but for what changed under the job),
`TitleAgreed` (agents of a family use one title, never an older one), `HistorySound` (calls
and results paired, protected tools remembered), `SecretSafe`, `NoForeignMachine`,
`InheritanceSound` (the ordinary path starts from a clean tree, an inherited commit is the fix
and nothing else), `RemotesSound` (a stream's branch starts at a build of the stream, merged
work is kept, the merge request that is reported is that of the attempt), `CloneSound` (a job
finds no file of an earlier run), and `ServicesSettle` (trackers get decided, rejections
labelled, titles found, the build tool ends).

`workflows_fair`, `consolidation_fair` and `services_fair` end: their checks have
`CHECK_DEADLOCK FALSE` because a task that is done is followed by nothing.  So does
`groups_fair`, once all issues are decided and nothing is postponed.

### Limits and disagreements

Behaviour of the code that was met while modelling, and that the models reproduce.  Where a
property describes it, the table of scenarios says which.

*Queues and routing.*

* `issue_lock` awaits the SET NX before its `try`.  A shutdown that hits that await leaves the
  lock behind, and the payload that the loop pushes back is dropped by the next pod as a duplicate
  of itself (issue_lock.py:150).
* Between a failed acquire and the RPUSH to the blocked list the holder can release and promote;
  the task is then parked behind a free lock until another task of that lock comes along.
* A sweep read that triage was locked, swaps `ymir_todo` for `ymir_triage_in_progress` and skips the
  push.  If the holder writes its terminal label before that, the in-progress label stays next to
  it, and the staleness check accepts no label that has another one beside it.
* Both cron jobs start at every quarter of an hour, read the same `ymir_todo`, both swap it and
  both push a user-triggered task.
* A poll that raises ends the loop, and the tasks in flight are gone.  The heartbeat's socket
  time-out is not part of the lease's margin.  An automatic submission that is answered by a
  pending label-triggered job is not followed by a listing.
* A failed read of labels looks like an issue without labels.  A shutdown between terminal label
  and dispatch pushes back a task that the next pod drops as duplicate: the 24 hour net has to
  find the issue.  An error entry blocks the recovery of an in-flight label.  A graceful failure
  leaves no label, so that the issue is triaged while its fix task is retried.

*Sibling groups.*

* Siblings of a finished rebase keep `ymir_triaged_rebase`.
* The last sibling that ends in an error never checks for its primary, which waits for ever
  (docs/rebase-consolidation-implementation.md:186).  Nor is it released when a sibling ends
  before the primary has its waiting label, which is written after the siblings were queued.
* `_terminal_ymir_labels` counts reproducer labels as results: a primary that is queued again while it
  is being reproduced is dropped, and the fetcher takes it for existing work.
* A waiting primary is a candidate for a later primary.  A postponed sibling counts as done; when it
  is found to need the rebase later, it is not rebased.
* A sweep pushes first: the task can be dropped as a duplicate, and a label removal that fails leaves
  a `no_patch` issue to the 24 hour net.

*Fix workflows.*

* A backport without SRPM is labelled as done though there is no merge request
  (backport_agent.py:1880; docs/qe-agents-overview.md:148).  A failure that no user asked for ends
  in the error list without a comment.
* A shutdown pushes the payload of before the attempt: checkpoint and disabled marker are lost.  A
  push that was reported as failed is not repeated on resumption.  A comment that fails after
  the merge request was opened repeats the backport.  A merge request whose creation was answered by
  a lost response is not new on the retry, so that no consolidation job is submitted.
* A sibling that the rebase agent pops ends without a result; the log line that follows raises, and
  the task is retried into the error list.  A consolidation-config comment that fails raises out of
  the workflow after the merge request was opened.

*Triage and reproduction.*

* A result without target branch gets a `ymir_triaged_*` label and no task; the net triages it every
  day.  A hold is not applied when the check for the branch failed.  A rebuild that does not concern
  a CVE is not checked against the buildroot.
* The reproducer's fallback `checkout -B` from the local HEAD with a forced push overwrites a sibling
  stream's test in a shared merge request (docs/reproducer_architecture.md:283).  A retry without
  changes has nothing to commit and is labelled as failed though the merge request is open.

*Consolidation.*

* A consolidated merge request can be consolidated again (docs/mr_consolidation_architecture.md,
  "No re-consolidation of consumed MRs").  Strategy "merged" with a rebuild bumps twice ("This avoids
  a double Release bump").  A retry of per_commit or of a rebuild runs on the same clone and fails on
  the cherry-pick ("On failure, the workflow retries").
* An automatic submission absorbed by a pending strict job is not followed by a listing; a failed
  run drops the job until the next submission; labels on the originals that always fail make the chain
  endless ("No infinite loop risk").

*Supervisor.*

* One-off commands (process-issue, process-erratum) beside the processor can create two trackers.  A
  mismatch of a build recorded before a human is told is not reported again
  (erratum_handler.py:230).  `get_previous_erratum` compares a string with a RHELVersion, never equal.

*Services.*

* Trackers: the searches for NOT_AFFECTED and for pending triage overlook a clone that is labelled
  in between; a clone closed without Ymir label, or with a failed fix, postpones the Y-stream for
  ever; a duplicate check that fails lets the younger one through; a shipped older tracker blocks.
* Clean-up: a merge request closed by people while the job runs, or whose label write failed, is
  marked as handled and its issues are never labelled; a reopened and handled one is not looked at
  again; a crash between closing and label lets a reopened one be closed again.
* Runner: a compaction with `keep_recent_exchanges` ≥ 2 can leave a history that ends with an
  assistant's text (context_management.py, docstring of `strip_manage_context_from_exchange`); no
  counter bounds the retries after a cycle; a failed call counts as the first step, so that "think"
  is not enforced.
* Konflux: a second cancellation while the clean-up waits, or a lost answer of `create_secret`, leaves
  a Secret for ever.
* Reservations: cancelling one of two reservations of an issue forgets both hosts; a look-up that
  overlaps a cancellation registers a dead host; a restart forgets the list.
* Inheritance: ignored nested repositories survive the reset; the staged check catches a patch that
  .gitignore hides.
* Remotes: an existing fork is used before its import ends; creation of the Z-stream branch can move it
  to a newer build, and fails once a merge request was merged.
* Workspaces: a clean-up that looked before a clone began may remove files under the job.

### Scenarios

To see one of these as a trace, replace the named lines of a configuration and run TLC.

| Configuration | Replace | Property that fails |
|---|---|---|
| `MergeQueue_safety` | `MaxJobs = 2`, `LastFault = 4` | `SubmissionCovered`: an automatic submission is absorbed by a strict job |
| `MergeQueue_timed` | `TimedSpec`, `Threshold = 9`, `Interval = 4`, `SocketTimeout = 2`, `MaxClock = 12`, `LastFault = 12` | `NoConcurrentProcessing`: attempts that block outlive the lease |
| `AgentQueue_faults` | `Pod <- TwoPods`, `MaxConcurrent = 1`, `FaultKinds <- Cancels`, `MaxTasks = 1` | `NoTaskLost`: the cancelled acquire |
| `ReproducerQueue_fair` | `Spec`, `Deployments <- NoFaults` | `WaiterHasWaker`: the lost wakeup |
| `ReproducerQueue_fair` | `Spec`, `Deployments <- Overruns` | `OneRunAtATime`: the sweep takes the lock of a slow run |
| `IssueRouting_user` | `FixOutcomes <- NoFailed`, `FaultKinds <- None`, `MaxFaults = 0` | `NeverWedged`: the user's label beside a terminal one |
| `IssueRouting_user` | the same, and `Fetcher <- TwoFetchers`, `TodoFetcher <- TodoJob` | `OneRunPerTodo`: two cron jobs |
| `IssueRouting_fair` | `FaultKinds` one of `{"read"}`, `{"slow"}`, `{"backlog"}`; or `FixOutcomes = {"done", "failed"}`; or `Triggers = {"todo"}` and `MaxTriggers = 1` | `NeverWedged`, `StagesExclude`: triage while a fix is queued or under way |
| `IssueRouting_fair` | `Fetcher = {f1, f2}`, `MaxRetries = 1`, `Resolutions = {"fix"}`, `FaultKinds = {"crash"}` | the same: one job acts on what it read before the other |
| `IssueRouting_fair` | `FaultKinds = {"swallow"}` | `NeverWedged`: given up, but still in progress |
| `Supervisor_fair` | `Spec` | `MismatchFlagged` |
| `SiblingGroups_fair` | `GroupsSpec`, `Setups <- OneSlot` | `LabelledTogether`: siblings keep their label |
| `SiblingGroups_fair` | `Setups <- Reproducing` | `PrimaryReruns`: the primary is dropped |
| `SiblingGroups_fair` | two slots, all three issues fetched | `BarrierKept`: a candidate is decided before the comment that invites it |
| `SiblingGroups_fair` | two slots, `faults = {"error", "marker"}`, `max = 2` | `BarrierKept`: the primary, tried again after a lost comment, invites the second sibling while the first releases it |
| `SiblingGroups_fair` | two slots, the primary `{"rebase", "postponed"}`, `faults = {"error"}`, `max = 1` | `BarrierKept`: the primary is postponed when it is tried again, and loses its waiting label while a sibling is undecided |
| `AgentWorkflows_fair` | every limit 1, `MaxShutdowns = 0`, `MaxLintFixes = 0` | `DoneHasMR`, `ErrorsReported` |
| `MRConsolidation_fair` | `Strategies = {"per_commit"}` | `ConsumedOnce`, `RetriesUsed` |
| `MRConsolidation_fair` | `Strategies = {"merged"}` | `ReleaseBumpedOnce` |

## 4. Bounds

Every counter has a bound among the constants; `Max...` bounds the environment, never the
program, but for the limits that the deployment sets (`MaxRetries`, `MaxBuildAttempts`,
`MaxIncrementalFixes`, `MaxLintFixes`, `MaxRemoteAttempts`, the runner's), which have small values.  Two
workers are enough for every hand-over (holder and successor); the lock of `AgentQueue` has three
slots, because a late release needs a victim and a third task that profits.  Three jobs give a pair
a pending, an active and a recovered job at once.  `MaxRetries = 2` has a first attempt, a retry
and a last failure; two builds and two repairs have the same.  One issue is enough for routing:
labels, locks and list entries are per issue, and a sweep treats issues one after the other; only
the cap relates issues, and `Threshold = 1` makes it reach its limit.  A group has three issues: the
primary, and two siblings that can end at the same moment.  Three merge requests make a chain of
two consolidation runs, three trackers a Y-stream with two clones, three authors two of one issue
and one of another.  Two reservations share one address.  Two agents fix issues of one
package, and the versions of three commits repeat once, so that a build and its commit can differ.

One fault, or two where the state space allows, at every step: each fault is a single failure of
a pod, a write or a read, and recovery from one failure while recovering from another is the
case of two.  In the workflow modules any number of calls may fail, and only shutdowns are
bounded.  The clock of `queue_timed` leaves a threshold and a pause after the last fault, so that
recovery can finish.  Permutations of pods and workers are used as symmetry in runs
without liveness.

Several runs start from more than one set-up (`Setups`, `Deployments`, `Issues`, `scenario`): a
member of a set of records chosen in `Init` and never changed.  The questions are the same for
all of them, and faults that multiply states are combined only where they can meet.

## 5. Fairness

* `MergeQueue!FairSpec`: the clock advances, a due heartbeat is attempted, and a pod that is up
  takes its next step; a pod that exits is restarted by the platform.  Workflows end: builds and
  model calls run under timeouts.
* `AgentQueue!FairSpec`: the event loop, Redis and the platform make progress.  Workflows are
  *not* assumed to end, so that `ShutdownTerminates` covers a build that polls for hours;
  `EveryTaskHandled` names that assumption as its hypothesis.
* `ReproducerQueue!FairSpec`: as above, and an entry that nobody holds becomes old.
* `IssueRouting!FairSpec`: cron jobs run again and again, locks expire, agents work.  A label can
  become a day old only between two sweeps, and sweeps never stop, so time needs strong
  fairness: the pauses recur for ever and in one of them the day passes.
* `Supervisor!FairSpec`: the collector's cron job runs, the processor pops what is ready and its
  handlers go on; test runs, stage pushes, CAT and reproductions end, and days pass.  An item's time
  comes again and again while other items are popped, so the pop of each is strongly fair.
* `SiblingGroups!GroupsFairSpec`: slots, fetcher, rebase agent, reproducer and sweeps make progress; the
  24 hour net finds an issue again and again (strongly fair), because a label that was just written
  disables it.
* `AgentWorkflows!Spec`, `MRConsolidation!Spec`: an agent that has a task takes its next step, whichever.
* `ServicesFair`: an open tracker is asked about, the clean-up's job goes on, agents that look for
  a title go on, the steps and requests of a build end.  The other parts have safety properties only.

People, signals and faults are never fair.

## 6. Proofs

All theorems hold for every value of the constants that the assumptions of their modules allow
(`MergeQueueAssumption`, `AgentQueueAssumption`, `ReproducerQueueAssumption`, `SupervisorAssumption`,
`TrackersAssumption`, `CleanupAssumption`, `TitleAssumption`, `BuildAssumption`, `FarmAssumption`, `InheritAssumption`,
`RemoteAssumption`, `WorkspaceAssumption`, `ConsolidationAssumption`, `SiblingGroupsAssumption`, `AgentLimitsAssumption`, `FixTaskAssumption`,
`TriageAssumption`, `ReproducerAssumption`): any sets of pairs, issues, deployments, pods, workers, trackers,
merge requests, machines and histories, any thresholds, and any value of the bounds, so that the bounds of the
model are no bounds of the theorems.  Three theorems about `MergeQueue` assume one thing more, which
their statements name and the text below explains.  A theorem of the form `Spec => []Inv` has one step per action of `Next` and, where an action
disturbs several parts of the invariant, one step per part; shared moves (release a job, end
a task, go on with it, push a payload) are lemmas.

**MergeQueueProofs.**

* `TypeCorrect`.  `TypeOK` is inductive by itself because it says that a worker past its poll
  holds a payload of a pair.
* `Exclusive` (`ActiveRecoveryExclusive`).  A script moves an entry to recovery only when it is
  the active one, and a pick activates a pair only when nothing is active; with the uniqueness of
  a pair's recovery entry the property is inductive relative to `TypeOK`.
* `Leases` proves `LeaseInv`: an active entry without a heartbeat is a legacy entry that nobody
  holds, and whatever a sweep's snapshot found stale stays stale while it is unchanged.  It is
  needed because a sweep acts on a snapshot that may be arbitrarily old.  `AlwaysSweepable`
  (`Sweepable`) and `LeaseSafety` (the action property `LeaseRespected`) follow.
* `Conservation` (`JobConservation`).  Every action that touches the hash moves one job from one field to another
  (`Moved`) or none (`Unmoved`).  That the field it leaves is the only one it leaves, and the field it
  reaches is new, comes from three facts: `TypeOK`, the exclusiveness above (a pair has one recovery entry), and
  `Numbered` (no field holds a job number that was not given out yet).
* `StampsGrow` proves `StampInv`: stamps are given out in order, so the one of `UpdateActive` is new to every field and
  worker, and a worker with a job has a stamp that no payload of an older release has.
* `ProcessingIsExclusive` (`NoConcurrentProcessing`, for `TimedSpec`) by `OwnerInv`.  `Leased`: the entry of a worker that runs is
  its payload, the entry's heartbeat is the worker's last success, and the next attempt is at most `d` later.  Nobody
  else holds that payload: a pick takes one from another field, where by `Conservation` it is not (`OneField`), and
  a stamp is new.  So only a sweep could take the entry, and it finds it fresh as long as `d` plus an attempt is within the
  threshold.  After a failed attempt `d` is the threshold less one tick, hence the assumption
  `SocketTimeout <= 1`: an attempt is over within a tick.  It cannot be weakened, which is the second scenario of section 3;
  the lease timeout does not count the last attempt, and main gives it half an interval.
* `AnsweredIsExclusive` is the same for `AnsweredSpec`, the behaviours whose heartbeats all reach Redis.  There `d` is the
  interval, and every socket timeout up to the interval, main's included, is short enough.  Both use `OwnerKept`,
  the step of `OwnerInv` for any `d`.
* `SubmissionServed` (`SubmissionCovered`) by `CoverInv`.  A worker that lost its lease may run on beside the entry it has lost,
  listed or not; `CoverInv` says that what is left to serve a submission was not listed by anyone who
  still holds it.  It assumes that `Modes` is without "strict": a label-triggered job absorbs automatic submissions
  and lists less, the first scenario of section 3.

**AgentQueueProofs.**

* `LockInvariant` proves `LockInv`, three parts that need each other.  `Owned`: a task inside the lock is
  the one the lock names, unless an outage took it.  `Held`: a payload stays in memory as long
  as the poll, a slot or the shutdown refers to it; without it the issue of a task could change under
  its lock.  `Shape`: types, and every list holds only tasks that are routed to it.  `LockSafety`
  (`LockExclusive`) and `PrioritySafety` (`PriorityKept`) follow at once.
* `PermitInvariant` proves `Permits`, the account of the semaphore at each position of the loop.  An orphaned
  poll has given its permit back while it may still pop a task, so "permits plus tasks" alone
  bounds nothing; the second sum of `PermitOK` counts tasks, payloads to push back and the poll.
  `MemorySafety` (`MemoryBound`) follows.
* `TypeCorrect` (`TypeOK`) combines both with the remaining variables: that the semaphore stays
  within its permits is a consequence of `Permits`.
* `NothingLost` (`NoTaskLost`), where the only faults are outages: the code does lose the tasks of a crash, a
  failing poll or a failing push, and the hazards say so.  `KeepInv` holds what makes each way out of memory safe:
  `LockNamed` (a lock names a task that works on its issue, so a dropped duplicate leaves a task behind),
  `Stopping` (a cancelled task is on the list of what the shutdown pushes back), `Settled` (a task past its
  workflow has its result recorded, or a payload to try again).

**ReproducerQueueProofs.**  `QueueSafety` states what the runs check (`QueueSound`) as one theorem; it
combines two arguments over the same base (`TypeCorrect` and `Placed`: a slot at work has a task).

* `LateReleases` (`LateReleaseSafe`) by `LockInv`.  `Unlike`: no two slots have one token, because a token
  is made with the lock.  `Owned`: the lock still names a slot that works under it, unless a sweep
  recorded the robbery.  The compare-and-delete of a release then finds either its own token or somebody else's
  and leaves that alone.
* `Stranded` (`NothingStranded`) by `Conserved`.  `Present(t, at)` says where a task can be: in a queue, a blocked list, the
  delayed set, the hand of a promotion, or a slot at one of the positions `at`.  The positions carry the
  argument: a task keeps its job alive until it is completed or given up (`Undone`) and its mark until the
  terminal label is written (`Unsettled`), so that nothing is asked of the slot that only releases its lock.
  Two facts that are easy to miss: a success clears the error entry of an *earlier* job of the issue, which is then
  settled by the success (`Settled`), and `Traced`, that a task names the issue of its job, is what makes this
  the same issue.  `EmptyHanded` says that a crash takes only tasks somebody was at work on.
  Each action is shown to satisfy `Conserves`, a statement about one step, and
  `ConservesKeeps` does the induction once.

**SupervisorProofs.**

* `TypeCorrect` (`TypeOK`) by `Base`, which adds to the types what the processor has in its hands at each position: the
  status it is about to set is one an issue or the erratum can have, and a round is never further than the upsets allow.
* `ReproductionSafety` (`ReproducedOnce`).  `Rounded`: what the handler read about reproductions is what Jira still
  holds until it decides to reproduce a later round, because nobody else records one.  `Counted`: a round is
  reproduced at most once per upset until it is recorded, and once by the handler that records it.  A step that
  neither creates nor records (`Steady`) gives up a reproduction that is being made only as an upset, so the two remaining
  steps are the whole argument.

**ConsolidationProofs.**

* `ConsolidationDropsNothing` (`NothingDropped`) and `ConsolidationIsSound` (`ConsolidatedSound`) by `Inv`, which
  follows the clone from step to step.  `Chosen`: two merge requests are selected, and the flow suits
  them; a retry of the build chooses it anew.  `Carried`: from the build on, the clone has the fixes of both, first
  in the tree, then in commits, and the commits have their tickets when they are pushed.  `Marked`: what is
  still to be labelled is in an opened merge request, also after the run has forgotten what it
  selected.  `Bumped`: under "merged" the release is raised once because the agent's flow
  commits nothing before.  That a rebuild brings no fix (`Sound`) is why appending its tickets to the
  backport is enough.  Commits are counted without an induction: a clone of the "merged" strategy
  has one at most, so `Bumps` is unfolded once (`OneBump`).
* The steps from a flow to the push share `WorkKeeps`, what others do to the merge requests meanwhile `OthersKeep`
  and `SoundGrows`: merge requests are added, closed and labelled, their branches never change.

The second half is about `SiblingGroups`, for any number of issues, slots, setups and faults.

* `GroupsTyped` (`GroupsTypeOK`) and `GroupsRebaseOnce` (`OneRebase`) by `OnceInv`.  `Judged` says what a slot knows at
  each position, for instance that a slot that checks siblings is a sibling's.  `Counted` is about one issue that triage
  never postpones: while its rebase is queued or under way it has its label and not the one of a triage at work
  (`Settled`), so slots that take a further task of it stop at the guard; and a slot that is about to
  send it finds it `Settled`.  `Unposted` keeps the sweeps away from it.  `SteadyRebasedOnce` is this for each issue
  apart, whatever becomes of the others.
* `GroupsKeepBarrier` (`BarrierKept`): the group implements `RebaseBarrier`, where one issue of the group is fetched
  (`Lone`) and, unless labels may be lost or pods die, no comment to a sibling fails and nobody is postponed
  (`Reliable`).  Each condition is on the setup, which never changes.
  * `GroupInv` is what the steps of triage need: only the primary collects (`Hand`) and marks (`MarkedBy`), it is never
    taken for a sibling (`Heads`), and an issue it has not marked was not touched (`Untouched`), so a mark
    is always of an undecided issue.  A slot that stamps an issue anew removes the decisions it read, all of them or none,
    and whoever writes a result of a sibling finds it undecided.  Hence one decision appears or goes in a step:
    `Decide`, `Reconsider` or `Invite`.
  * `Barred` is why the rebase starts late enough.  `Announced`: an undecided sibling shows by its labels, so the
    sibling that looks for others (`Pending`) sees it.  `Withheld`: while there is one, the primary
    has its waiting label, or a result, or its slot still collects; when it has the waiting label all siblings are marked;
    when it has the result of a rebase all are decided.  `Aware` carries this through the positions of a slot, from the
    candidates it has left to the label it removes.  Decisions are taken back by nobody here (`DecidedStays`).
  * With `Counted`, a rebase that starts finds the label, and by `Withheld` everybody is decided.

**IssueRoutingProofs.**  Each agent has a lock of its own, so locks alone keep no two stages apart; labels do.

* `TypeCorrect` (`TypeOK`) by `Typed`, which adds that a slot at work has a task and a fetcher about to push an issue.
  The depth of a queue is a sum over all tasks, so it is a number because there are finitely many (`TasksFinite`).
* `RoutingIsExclusive` (`StagesExclude`) by `RoutingInv`, whose three parts need each other.  `IssueInv`: the labels of an
  issue tell who has it.  There is one fix task at most (`Lone`), only under a label that triage passes by,
  and a triage agent past its read relies on there being none (`Relies`).  `SlotInv`: a slot inside its lock has
  it, a retry waits in one slot.  `SweepInv`: what a sweep has read stays true as far as it acts on it
  (`Sees`): an issue it takes for abandoned or for a retry is carried by nobody until it pushes it, and one that turned
  up in a queue or under a lock is not pushed.  The order of its reads is what makes this true.
* `NothingIsWedged` (`NeverWedged`) adds `ParkedInv`: a task in a list that no agent drains has left its issue under an
  outcome or an error.
* `TodoRunsOnce` (`OneRunPerTodo`) by `TodoInv`, an account for each stage (`Account`): the tasks of people in its queue and
  slots, and the requests that will lead to one, are no more than the labels people added. A request is a label,
  a sweep that has seen it, and then the push it is about to make, never two of these (`Requests`, `Granted`): the trigger
  is swapped before the push. A fix is pending in a triage that has not dispatched (`OpenSlots`), a retry carries
  its user from the slot back to the queue (`Fits`). A step moves a request along, or loses it.

Steps of a worker concern one issue (`WorkerFrame`, `WorkerStep`) and change no sweep, steps of a fetcher change
one sweep and at most the labels of one issue (`FetcherCarries`, `AdvanceSees`): with these frames a step is
proved for the one issue it is about.

`RoutingIsExclusive` and `NothingIsWedged` hold for every number of issues, slots, attempts and faults, under `Setting`, the kinds of faults and
inputs of the run `IssueRouting_fair`: one fetcher job next to those for `ymir_todo` (as deployed), no labels added by people, label reads that do not
fail, no task that waits or runs for a day, no fix that ends with a `_failed` label.  `NothingIsWedged` excludes in addition a label write that is lost
when a task is given up, for then the issue stays in progress and its task lies in the error list.  None of these conditions
can be left out: without any one of them TLC finds a counterexample, which the scenarios of section 3 produce.

`TodoRunsOnce` needs less: any labels, resolutions and outcomes, and every kind of fault but a shutdown, with one fetcher job.
Both conditions are necessary. With a second job, as deployed beside the one for `ymir_todo`, both may see a label
and push (the scenario of section 3); a shutdown after the dispatch puts the triage back into its queue, where
it will push a second fix.

**WorkflowProofs.**  The two kinds of task in `AgentWorkflows` share no variables, so each has its invariant.

* `FixesAreJustified` (`FixJustified`) by `TriageInv`.  `Checked` says what is true of the issue when triage has
  recorded it: existence and policy of the branch as they are, "affected" only of a package that is, an answer about the
  buildroot only as it is, an employee behind a rebase from its verification on, and, past the checks, an
  applicability that was asked for.  A policy is known wherever a missing branch is, so that a hold cannot be
  missed.  `Counted` bounds the fixes by the shutdowns: a task that is still `Undecided` has one to spare.
* `ReproductionIsSound` (`ReproductionSound`) by `ReproInv`.  `Claimed`: a result that reaches its labelling and needs a merge
  request has one open with the test; `CreatedNeedsMR` relates the label to the flags.  `Machines`: only the steps from the
  analysis to the clean-up hold one.  That nobody else writes the label is `TriageClaimsNothing`.
* `PublicationIsSound` (`PublishedSound`) by `FixInv`.  `OwnBackport` ties the tree to the state: the release is
  bumped exactly when the state says so, through every repair and fresh clone, and what is committed is what was staged.
  `Inheriting` follows an inherited change from the tree to the commit of the checkpoint, `RebaseFacts` and `RebuildFacts`
  do the same for the other agents, whose build comes before the bump or not at all.  `Kept` says why an inherited
  commit stays: every later payload has its checkpoint, and with it an attempt never leaves the steps that
  only open the merge request; a shutdown pushes the payload of before.  Steps that end the work
  on the clone share `QuietKeeps`, those that push `BranchMoves`, the ways back from a failed inheritance `CleanUpKeeps`.

**ServicesProofs.**  A part only moves in its own scenario, so that an invariant of a part's steps is one
of the whole.

* `SecretSafety` (`SecretSafe`) by `BuildInv`.  A request goes on by itself after the tool stopped waiting for it,
  so the tool's position alone says nothing of the cluster: `InTurn` relates the position to the requests, `RunKnown`
  and `SecretKnown` the requests to the run and the Secret, and `RunKnown` says that at the deletion the run
  is over or was never made.
* `MachineSafety` (the action property `NoForeignMachine`) by `FarmInv`.  `AllowedVouched`: every host on the list of an
  issue has a reservation of that issue that vouches for it.  `CallOrder` says why a host that is
  registered late is vouched for: the reservation is not gone, or was looked at and cancelled at
  once.  `VouchersStay` is the common part of the steps that add no host.
* `CloneSafety` (`CloneSound`) by `VolumeInv`.  `Fit` says which files a directory can hold at each position of
  the job that uses it, clean-ups included.  `Undisturbed` is the reason why a clone survives: a clean-up that removes files
  from a directory either was under way when the clone was begun, which the job's record says (`raced`), or began
  with a directory that was a week old, and a job's marker is younger.
* `InheritanceSafety` (`InheritanceSound`) by `InheritInv`, which follows the clone from check to check: `FixKnown` (the
  one commit found, by the cardinality of the candidates), `WorkChecked` (what validation, release
  and the source package leave for the next step, though %prep may edit in between), `IndexChecked` (what is staged
  is what was built).  `PatchIsFile` is what makes the clean-up complete: only a directory that is
  a repository survives it, and a patch never is one.

The last four are about what several agents share without a lock.

* `TrackersSafety` (`TrackersSound`) by `CheckInv`: what a check has read of the other trackers stays true while
  they go on (`Unrivalled`, `Established`).  It does because closed issues stay closed, a build in CentOS
  Stream is not taken back, and an issue under check keeps the label of its triage or its postponement (`Taken`).  A failed search of the older tracker is
  why `OneOfTwins` speaks of runs without one.
* `CleanupSafety` (`CleanupHonest`) by `CleanupInv`.  Both phases act on listings that age: `Noted` and `InHand` say
  what the job knows of the merge request it is closing, `OpenSpared` that an open one is listed, active, unread or
  changed since, and `ActiveSpared` carries this into the second phase for merged ones.
* `TitleSafety` (`TitleAgreed`) by `TitleInv`: who is about to replace a record read one that its own issue
  outdates (`Outdates`), and every title in use was the record once (`Recorded`).
* `RemotesSafety` (`RemotesSound`) by `RemoteInv`.  `Relies` is what an agent takes for granted between its calls: the
  commit it is about to push, its own push, and that no merge request is of this attempt before it says
  so.  `SameNVR` (the latest commit with the NVR of a build has it too) needs that a bounded set of naturals has a greatest
  element (`Greatest`); this follows from the well-foundedness of the order of naturals, without an induction theorem.

Liveness, and everything that depends on fairness, is model-checked only: fairness and ENABLED
are beyond the prover.  So are the runner's `HistorySound`, which speaks of a history filtered by a recursive definition, and all
properties that no theorem above names.  Outside the conditions of their theorems two properties of `SiblingGroups` are
checked on the setups of their run and do not hold in general.  `OneRebase` fails when a sweep brings a postponed
issue back that was already rebased as a sibling.  `BarrierKept` fails in the three cases that section 3 lists, each
outside one condition of `GroupsKeepBarrier`; the run checks it beyond the theorem for one agent and any primary, for one
lost comment, and for a primary that is postponed.

The models write a function with a change in two fields of one element as `[f EXCEPT ![x] = [f[x] EXCEPT !.a = .., !.b = ..]]`: tlapm
1.4.5 translates several clauses with the same first index, and an `@` inside such a nested change, to something else
than they mean, and proofs that rest on it would be unsound.  It also reads `UNION A \cup B` as the
union of both, where TLC does not; such terms have parentheses.

## 7. Plan

What is left, in the order of its worth.

1. `HistorySound` of `ReasoningRunner`, the one service without a theorem.
2. The refinement of `RebaseBarrier` where the primary is postponed and swept back but triage raises no
   error; with one it fails (section 3).
3. A refinement from `MergeQueue` to a set of jobs that are each taken and finished once, from
   `AgentQueue` to a bag of tasks, and from `TriageWorkflow` to the resolution of `IssueRouting`.
4. The consolidation labels of the fetcher, as a further source of jobs for `MRConsolidation`, and the
   one-off commands of the supervisor as further processors.
5. Versions: the order of versions and streams as functions against a reference definition.

## 8. Not modelled

* Prompts and the answers of models: outcomes are chosen freely.
* Gateway tools that make one request or edit one file for one agent (errata, GitHub, Copr,
  lookaside, spec file, text and search tools): no state outlives the call, and a failure is a
  choice of the workflow that called.
* API requests and authentication; the one change of shared state behind them is `MergeQueue`'s.
* QE agents, the merge request agent, trace server, command line, compose files: one prompted run
  or a viewer, without queue, lock or label protocol.
* Version and branch parsing: functions of one input that unit tests enumerate.
* `requeue_error` and the other operator scripts: run by hand.
* The fetcher's rate limiter, request retries and consolidation labels (`_process_consolidation_labels`).
* Malformed payloads: they go to the error list or are dropped before any state is touched.
* Memory and time of the processes, apart from leases, expiry and staleness.
* Metrics, logging, wording of comments.

## 9. Running the checks

```
tlc -workers 4 -config MergeQueue_safety.cfg MCMergeQueue
tlapm MergeQueueProofs.tla
tlapm AgentQueueProofs.tla
tlapm ReproducerQueueProofs.tla
tlapm SupervisorProofs.tla
tlapm WorkflowProofs.tla
tlapm ConsolidationProofs.tla
tlapm ServicesProofs.tla
tlapm IssueRoutingProofs.tla
```

The configuration `<Module>_<name>.cfg` belongs to `MC<Module>.tla`, or to
`<Module>.tla` where there is no such module.  `PROJECT.json` lists the runs,
the source lines behind every definition, the hazards that the properties are aimed at, and
the theorems.
