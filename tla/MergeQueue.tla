----------------------------- MODULE MergeQueue -----------------------------
(***************************************************************************)
(* The hash-backed MR consolidation queue (ymir/common/merge_queue.py) and *)
(* the worker that drains it (ymir/agents/mr_consolidation_agent.py, main).*)
(*                                                                         *)
(* One Redis hash holds, for every package/branch pair, the fields         *)
(* :pending, :active, :heartbeat and :recovery (plus :recovery:<n>).  Each *)
(* Lua script is one atomic action; between two Redis calls of a worker    *)
(* the other workers, submissions, SIGTERM and crashes interleave freely.  *)
(*                                                                         *)
(* A payload is the serialized MergeConsolidationJob.  Scripts compare     *)
(* payloads byte for byte, so a payload is identified by its job and by    *)
(* the activation that last stamped activated_at into it: act is unique to *)
(* the activation (a microsecond time in the code), at is its clock time;  *)
(* both are 0 in a payload that was never activated.  strict records that  *)
(* the job names source_issues (label-triggered).                          *)
(***************************************************************************)
EXTENDS Integers

CONSTANTS
    Pair,           \* package/branch pairs
    NoPair,         \* placeholder of a worker that holds nothing
    Worker,         \* task slots of the consolidation pods
    Modes,          \* submission modes in use: "auto", "strict"
    Threshold,      \* STALE_ACTIVE_THRESHOLD_HOURS
    Interval,       \* heartbeat_interval
    SocketTimeout,  \* heartbeat_socket_timeout
    MaxJobs,        \* bound: jobs submitted in a behaviour
    MaxFaults,      \* bound: signals, crashes and failed Redis writes
    MaxClock,       \* bound: clock ticks
    LastFault       \* bound: Redis and the pods are healthy after this time

(***************************************************************************)
(* main clamps heartbeat_interval to at least 1 and at most half the       *)
(* threshold.                                                              *)
(***************************************************************************)
ASSUME MergeQueueAssumption ==
    /\ NoPair \notin Pair
    /\ Modes \subseteq {"auto", "strict"}
    /\ Threshold \in Nat /\ Interval \in Nat \ {0} /\ 2 * Interval <= Threshold
    /\ SocketTimeout \in Nat
    /\ MaxJobs \in Nat /\ MaxFaults \in Nat /\ MaxClock \in Nat /\ LastFault \in Nat

VARIABLES
    pending,        \* pending[p]: payload in the :pending field, or NoValue
    active,         \* active[p]: payload in the :active field, or NoValue
    beat,           \* beat[p]: time in the :heartbeat field, or NoBeat
    recovery,       \* the :recovery (slot 0) and :recovery:<n> (slot n) fields
    recoverySeq,    \* the counter <hash>:recovery_seq
    pc,             \* where each worker stands in its poll/process cycle
    held,           \* held[w]: the pair and payload the worker works on
    snap,           \* snap[w]: stale entries left of the HGETALL snapshot
    stopping,       \* stopping[w]: SIGTERM was delivered
    due,            \* due[w]: time of the next heartbeat attempt
    lastSuccess,    \* last_success of the worker's heartbeat task
    unseen,         \* history: an auto submission that no full MR listing followed
    jobs,           \* number of jobs submitted so far, their ids are 1..jobs
    acts,           \* number of activations so far
    done,           \* history: jobs removed by complete_job
    faults,
    now

hash    == <<pending, active, beat, recovery, recoverySeq>>
workers == <<pc, held, snap, stopping, due, lastSuccess>>
history == <<unseen, jobs, acts, done>>
vars    == <<hash, workers, history, faults, now>>

NoValue == [job |-> 0, act |-> 0, at |-> 0, strict |-> FALSE]
NoBeat  == -1
Payload == [job : Nat \ {0}, act : Nat, at : Nat, strict : BOOLEAN]
Value   == Payload \cup {NoValue}
NoHold  == [pair |-> NoPair, value |-> NoValue]

(***************************************************************************)
(* finish: complete_job after the workflow returned; failed: complete_job  *)
(* in the handler of an exception; cancel: requeue in the CancelledError   *)
(* handler; recover: recovery_fn of the task loop.                         *)
(***************************************************************************)
PC == {"poll", "sweep", "update", "list", "work", "finish", "failed",
       "cancel", "recover", "down"}
Running == {"list", "work"}     \* the workflow task is alive

InRecovery(p) == {r \in recovery : r.pair = p}
LeaseTimeoutLate == Threshold + Interval    \* mutant: the margin on the wrong side
LeaseTimeout  == Threshold - Interval
Holds(w, p)   == held[w].pair = p /\ held[w].value = active[p]

(***************************************************************************)
(* An :active entry may survive from a release without heartbeats: it has  *)
(* activated_at, no :heartbeat field, and no worker holds it.              *)
(***************************************************************************)
Legacy == [job |-> 1, act |-> 1, at |-> 0, strict |-> FALSE]

InitHash ==
    \/ /\ active = [p \in Pair |-> NoValue]
       /\ jobs = 0 /\ acts = 0
    \/ \E q \in Pair :
          /\ active = [p \in Pair |-> IF p = q THEN Legacy ELSE NoValue]
          /\ jobs = 1 /\ acts = 1

Init ==
    /\ InitHash
    /\ pending = [p \in Pair |-> NoValue]
    /\ beat = [p \in Pair |-> NoBeat]
    /\ recovery = {}
    /\ recoverySeq = 0
    /\ pc = [w \in Worker |-> "poll"]
    /\ held = [w \in Worker |-> NoHold]
    /\ snap = [w \in Worker |-> {}]
    /\ stopping = [w \in Worker |-> FALSE]
    /\ due = [w \in Worker |-> 0]
    /\ lastSuccess = [w \in Worker |-> 0]
    /\ unseen = [p \in Pair |-> FALSE]
    /\ done = {}
    /\ faults = 0
    /\ now = 0

-----------------------------------------------------------------------------
(* Submission: submit_merge_job and _SUBMIT_JOB_LUA.                        *)

(***************************************************************************)
(* Result 1.  In strict mode an active or recovery entry rejects the job.  *)
(***************************************************************************)
Submitted(p, mode) ==
    /\ jobs < MaxJobs
    /\ pending[p] = NoValue
    /\ mode = "strict" => active[p] = NoValue /\ InRecovery(p) = {}
    /\ jobs' = jobs + 1
    /\ pending' = [pending EXCEPT ![p] =
                      [job |-> jobs + 1, act |-> 0, at |-> 0, strict |-> mode = "strict"]]
    /\ unseen' = IF mode = "auto" THEN [unseen EXCEPT ![p] = TRUE] ELSE unseen
    /\ UNCHANGED <<active, beat, recovery, recoverySeq, workers, acts, done, faults, now>>

(* Mutant: an active job counts as already queued too. *)
AlreadyQueuedOrActive(p) ==
    /\ "auto" \in Modes
    /\ (pending[p] # NoValue \/ active[p] # NoValue)
    /\ unseen' = [unseen EXCEPT ![p] = TRUE]
    /\ UNCHANGED <<hash, workers, jobs, acts, done, faults, now>>

(***************************************************************************)
(* Result 0 in auto mode: the pending job is left to serve the new MR.     *)
(***************************************************************************)
AlreadyQueued(p) ==
    /\ "auto" \in Modes
    /\ pending[p] # NoValue
    /\ unseen' = [unseen EXCEPT ![p] = TRUE]
    /\ UNCHANGED <<hash, workers, jobs, acts, done, faults, now>>

-----------------------------------------------------------------------------
(* Moving an active entry to recovery storage, as _REQUEUE_ACTIVE_LUA and   *)
(* _CONDITIONAL_HDEL_LUA do: the canonical field when free, a numbered one  *)
(* otherwise; :active and :heartbeat are deleted.                           *)

RecoverySlot(p) ==
    IF \E r \in recovery : r.pair = p /\ r.slot = 0 THEN recoverySeq + 1 ELSE 0

MoveToRecovery(p) ==
    /\ recovery' = recovery \cup {[pair |-> p, slot |-> RecoverySlot(p), value |-> active[p]]}
    /\ recoverySeq' = IF RecoverySlot(p) = 0 THEN recoverySeq ELSE recoverySeq + 1
    /\ active' = [active EXCEPT ![p] = NoValue]
    /\ beat' = [beat EXCEPT ![p] = NoBeat]

(* Mutant: the payload is not compared. *)
RequeueUnchecked(p, expected) == MoveToRecovery(p)

(* requeue_active_job: nothing happens when the payload is not the caller's. *)
RequeueActive(p, expected) ==
    \/ active[p] = expected /\ MoveToRecovery(p)
    \/ active[p] # expected /\ UNCHANGED <<active, beat, recovery, recoverySeq>>

-----------------------------------------------------------------------------
(* Polling: sweep_stale_active_jobs, then pick_next_job.                    *)

(* Mutant: no fallback to activated_at. *)
StaleByHeartbeat(p) == beat[p] # NoBeat /\ now - beat[p] > Threshold

Stale(p) ==
    \/ beat[p] # NoBeat /\ now - beat[p] > Threshold
    \/ beat[p] = NoBeat /\ active[p].act # 0 /\ now - active[p].at > Threshold

(* HGETALL and the staleness test of every :active field in it. *)
SweepSnapshot(w) ==
    /\ pc[w] = "poll" /\ ~stopping[w]
    /\ snap' = [snap EXCEPT ![w] =
                  {[pair |-> p, value |-> active[p], beat |-> beat[p]] :
                     p \in {q \in Pair : active[q] # NoValue /\ Stale(q)}}]
    /\ pc' = [pc EXCEPT ![w] = "sweep"]
    /\ UNCHANGED <<hash, held, stopping, due, lastSuccess, history, faults, now>>

(* Mutant: the sweep compares the value only. *)
SnapshotValueHolds(e) == active[e.pair] = e.value

SnapshotHolds(e) ==
    active[e.pair] = e.value /\ (e.beat = NoBeat \/ beat[e.pair] = e.beat)

(* One compare-and-move: value and heartbeat must still match the snapshot. *)
SweepEntry(w) ==
    /\ pc[w] = "sweep"
    /\ \E e \in snap[w] :
          /\ snap' = [snap EXCEPT ![w] = @ \ {e}]
          /\ \/ SnapshotHolds(e) /\ MoveToRecovery(e.pair)
             \/ ~SnapshotHolds(e) /\ UNCHANGED <<active, beat, recovery, recoverySeq>>
    /\ UNCHANGED <<pending, pc, held, stopping, due, lastSuccess, history, faults, now>>

Activate(w, p, value) ==
    /\ active' = [active EXCEPT ![p] = value]
    /\ beat' = [beat EXCEPT ![p] = now]
    /\ held' = [held EXCEPT ![w] = [pair |-> p, value |-> value]]
    /\ pc' = [pc EXCEPT ![w] = "update"]

PickableAfterPending == {r \in recovery : active[r.pair] = NoValue /\ pending[r.pair] = NoValue}  \* mutant
PickableRecovery == {r \in recovery : active[r.pair] = NoValue}
PickablePending  == {p \in Pair : pending[p] # NoValue /\ active[p] = NoValue}

(* _PICK_JOB_LUA, first pass: any recovery field whose pair has no :active. *)
PickRecovery(w) ==
    /\ pc[w] = "sweep" /\ snap[w] = {}
    /\ \E r \in PickableRecovery :
          /\ recovery' = recovery \ {r}
          /\ Activate(w, r.pair, r.value)
    /\ UNCHANGED <<pending, recoverySeq, snap, stopping, due, lastSuccess, history, faults, now>>

(* Second pass, reached only when the first one found nothing. *)
PickPending(w) ==
    /\ pc[w] = "sweep" /\ snap[w] = {}
    /\ PickableRecovery = {}
    /\ \E p \in PickablePending :
          /\ pending' = [pending EXCEPT ![p] = NoValue]
          /\ Activate(w, p, pending[p])
    /\ UNCHANGED <<recovery, recoverySeq, snap, stopping, due, lastSuccess, history, faults, now>>

PickNone(w) ==
    /\ pc[w] = "sweep" /\ snap[w] = {}
    /\ PickableRecovery = {} /\ PickablePending = {}
    /\ pc' = [pc EXCEPT ![w] = "poll"]
    /\ UNCHANGED <<hash, held, snap, stopping, due, lastSuccess, history, faults, now>>

(***************************************************************************)
(* _UPDATE_ACTIVE_LUA succeeds: activated_at is stamped and the payload    *)
(* handed to run_task_loop, which starts process_task, or, when the poll   *)
(* was orphaned by a shutdown, passes it to recovery_fn.                   *)
(***************************************************************************)
Stamped(value) == [job |-> value.job, act |-> acts + 1, at |-> now, strict |-> value.strict]

UpdateActive(w) ==
    LET p       == held[w].pair
        stamped == Stamped(held[w].value)
    IN  /\ pc[w] = "update"
        /\ active[p] = held[w].value
        /\ active' = [active EXCEPT ![p] = stamped]
        /\ held' = [held EXCEPT ![w] = [pair |-> p, value |-> stamped]]
        /\ acts' = acts + 1
        /\ pc' = [pc EXCEPT ![w] = IF stopping[w] THEN "recover" ELSE "list"]
        /\ lastSuccess' = [lastSuccess EXCEPT ![w] = now]
        /\ due' = [due EXCEPT ![w] = now + Interval]
        /\ UNCHANGED <<pending, beat, recovery, recoverySeq, snap, stopping,
                       unseen, jobs, done, faults, now>>

(* It fails: the entry moved since the promotion, pick_next_job returns None. *)
PromotionLost(w) ==
    /\ pc[w] = "update"
    /\ active[held[w].pair] # held[w].value
    /\ pc' = [pc EXCEPT ![w] = "poll"]
    /\ held' = [held EXCEPT ![w] = NoHold]
    /\ UNCHANGED <<hash, snap, stopping, due, lastSuccess, history, faults, now>>

-----------------------------------------------------------------------------
(* process_task: the workflow races the heartbeat.                          *)

(***************************************************************************)
(* list_open_mrs: an auto job looks at every open MR of the pair, a strict *)
(* job only at the MRs of its source_issues (_resolve_source_issues).  The *)
(* workflow goes on, returns with nothing to consolidate, or raises.       *)
(***************************************************************************)
ListOpenMrs(w) ==
    /\ pc[w] = "list"
    /\ \E next \in {"work", "finish", "failed"} : pc' = [pc EXCEPT ![w] = next]
    /\ unseen' = IF held[w].value.strict THEN unseen
                 ELSE [unseen EXCEPT ![held[w].pair] = FALSE]
    /\ UNCHANGED <<hash, held, snap, stopping, due, lastSuccess, jobs, acts, done, faults, now>>

(* The rest of the workflow returns (successfully or not) or raises. *)
WorkflowEnds(w) ==
    /\ pc[w] = "work"
    /\ \E next \in {"finish", "failed"} : pc' = [pc EXCEPT ![w] = next]
    /\ UNCHANGED <<hash, held, snap, stopping, due, lastSuccess, history, faults, now>>

Abort(w) ==
    /\ pc' = [pc EXCEPT ![w] = "poll"]
    /\ held' = [held EXCEPT ![w] = NoHold]

(* refresh_active_heartbeat answers: still owned, or taken over. *)
HeartbeatAnswered(w) ==
    /\ pc[w] \in Running /\ now >= due[w]
    /\ \/ /\ active[held[w].pair] = held[w].value
          /\ beat' = [beat EXCEPT ![held[w].pair] = now]
          /\ lastSuccess' = [lastSuccess EXCEPT ![w] = now]
          /\ due' = [due EXCEPT ![w] = now + Interval]
          /\ UNCHANGED <<pc, held>>
       \/ /\ active[held[w].pair] # held[w].value
          /\ Abort(w)
          /\ UNCHANGED <<beat, lastSuccess, due>>
    /\ UNCHANGED <<pending, active, recovery, recoverySeq, snap, stopping, history, faults, now>>

(* Redis is unreachable from the heartbeat connection. *)
HeartbeatFails(w) ==
    /\ pc[w] \in Running /\ now >= due[w] /\ now <= LastFault
    /\ \/ /\ now - lastSuccess[w] >= LeaseTimeout
          /\ Abort(w)
          /\ UNCHANGED due
       \/ /\ now - lastSuccess[w] < LeaseTimeout
          /\ due' = [due EXCEPT ![w] = now + Interval]
          /\ UNCHANGED <<pc, held>>
    /\ UNCHANGED <<hash, snap, stopping, lastSuccess, history, faults, now>>

Complete(p, job) ==
    /\ active' = [active EXCEPT ![p] = NoValue]
    /\ beat' = [beat EXCEPT ![p] = NoBeat]
    /\ done' = done \cup {job}

(* Mutant: the field is deleted whoever owns it. *)
CompleteUnchecked(p, expected) == Complete(p, expected.job)

(* complete_job: only the payload's owner removes the entry. *)
CompleteActive(p, expected) ==
    \/ active[p] = expected /\ Complete(p, expected.job)
    \/ active[p] # expected /\ UNCHANGED <<active, beat, done>>

(***************************************************************************)
(* The last step of process_task.  A reply lost after the script ran makes *)
(* no difference: the second call then finds no match.                     *)
(***************************************************************************)
CompleteJob(w) ==
    /\ pc[w] \in {"finish", "failed"}
    /\ CompleteActive(held[w].pair, held[w].value)
    /\ Abort(w)
    /\ UNCHANGED <<pending, recovery, recoverySeq, snap, stopping, due, lastSuccess,
                   unseen, jobs, acts, faults, now>>

-----------------------------------------------------------------------------
(* Shutdown and faults.                                                     *)

Fault == faults < MaxFaults /\ now <= LastFault /\ faults' = faults + 1

(* SIGTERM sets shutdown_event. *)
Signal(w) ==
    /\ pc[w] # "down" /\ ~stopping[w]
    /\ Fault
    /\ stopping' = [stopping EXCEPT ![w] = TRUE]
    /\ UNCHANGED <<hash, pc, held, snap, due, lastSuccess, history, now>>

(***************************************************************************)
(* run_task_loop cancels process_task, which drains the workflow and, when *)
(* the cancellation lands inside its try block, requeues the payload.      *)
(***************************************************************************)
Cancel(w) ==
    /\ stopping[w]
    /\ pc[w] \in Running \cup {"finish", "failed"}
    /\ pc' = [pc EXCEPT ![w] = IF @ = "failed" THEN "recover" ELSE "cancel"]
    /\ UNCHANGED <<hash, held, snap, stopping, due, lastSuccess, history, faults, now>>

(* The CancelledError handler of process_task requeues the payload ... *)
CancelRequeue(w) ==
    /\ pc[w] = "cancel"
    /\ RequeueActive(held[w].pair, held[w].value)
    /\ pc' = [pc EXCEPT ![w] = "recover"]
    /\ UNCHANGED <<pending, held, snap, stopping, due, lastSuccess, history, faults, now>>

(* ... and recover_orphaned_job does it once more, then the pod exits. *)
RecoverOrphaned(w) ==
    /\ pc[w] = "recover"
    /\ RequeueActive(held[w].pair, held[w].value)
    /\ pc' = [pc EXCEPT ![w] = "down"]
    /\ held' = [held EXCEPT ![w] = NoHold]
    /\ UNCHANGED <<pending, snap, stopping, due, lastSuccess, history, faults, now>>

ExitIdle(w) ==
    /\ pc[w] = "poll" /\ stopping[w]
    /\ pc' = [pc EXCEPT ![w] = "down"]
    /\ UNCHANGED <<hash, held, snap, stopping, due, lastSuccess, history, faults, now>>

(***************************************************************************)
(* A Redis error: in complete_job it reaches the handler that calls        *)
(* complete_job once more, in the CancelledError handler recovery_fn still *)
(* follows; a second failure is logged and the entry waits for the sweep.  *)
(***************************************************************************)
RedisWriteFails(w) ==
    /\ Fault
    /\ \/ /\ pc[w] = "finish" /\ pc' = [pc EXCEPT ![w] = "failed"]
          /\ UNCHANGED held
       \/ /\ pc[w] = "cancel" /\ pc' = [pc EXCEPT ![w] = "recover"]
          /\ UNCHANGED held
       \/ /\ pc[w] = "failed" /\ pc' = [pc EXCEPT ![w] = "poll"]
          /\ held' = [held EXCEPT ![w] = NoHold]
       \/ /\ pc[w] = "recover" /\ pc' = [pc EXCEPT ![w] = "down"]
          /\ held' = [held EXCEPT ![w] = NoHold]
    /\ UNCHANGED <<hash, snap, stopping, due, lastSuccess, history, now>>

(* SIGKILL, OOM or node loss: everything in the process is gone. *)
Crash(w) ==
    /\ pc[w] # "down"
    /\ Fault
    /\ pc' = [pc EXCEPT ![w] = "down"]
    /\ held' = [held EXCEPT ![w] = NoHold]
    /\ snap' = [snap EXCEPT ![w] = {}]
    /\ UNCHANGED <<hash, stopping, due, lastSuccess, history, now>>

Restart(w) ==
    /\ pc[w] = "down"
    /\ pc' = [pc EXCEPT ![w] = "poll"]
    /\ stopping' = [stopping EXCEPT ![w] = FALSE]
    /\ UNCHANGED <<hash, held, snap, due, lastSuccess, history, faults, now>>

Tick ==
    /\ now < MaxClock
    /\ now' = now + 1
    /\ UNCHANGED <<hash, workers, history, faults>>

-----------------------------------------------------------------------------
Step(w) ==
    \/ SweepSnapshot(w) \/ SweepEntry(w)
    \/ PickRecovery(w) \/ PickPending(w) \/ PickNone(w)
    \/ UpdateActive(w) \/ PromotionLost(w)
    \/ ListOpenMrs(w) \/ WorkflowEnds(w) \/ CompleteJob(w)
    \/ Cancel(w) \/ CancelRequeue(w) \/ RecoverOrphaned(w) \/ ExitIdle(w)
    \/ Restart(w)

Environment(w) ==
    \/ HeartbeatAnswered(w) \/ HeartbeatFails(w)
    \/ Signal(w) \/ RedisWriteFails(w) \/ Crash(w)

Actions ==
    \/ \E p \in Pair : (\E m \in Modes : Submitted(p, m)) \/ AlreadyQueued(p)
    \/ \E w \in Worker : Step(w) \/ Environment(w)

Next == Actions \/ Tick

(* Nothing bounds how long a worker takes: event loops stall, pods freeze. *)
Spec == Init /\ [][Next]_vars

(***************************************************************************)
(* Timed behaviours: a worker attempts its heartbeat on time, an attempt   *)
(* is over after at most the socket timeout, and the step from promotion   *)
(* to the start of the heartbeat takes no time.                            *)
(***************************************************************************)
OnTime ==
    \A w \in Worker : /\ pc[w] \in Running => now < due[w] + SocketTimeout
                      /\ pc[w] # "update"

TimedNext == Actions \/ (OnTime /\ Tick)
TimedSpec == Init /\ [][TimedNext]_vars

(***************************************************************************)
(* Time passes, a heartbeat that is due is attempted, and every worker     *)
(* whose pod is up takes its next step: workflows end (they are bounded by *)
(* the build and agent timeouts) and a pod that exits is restarted.        *)
(***************************************************************************)
FairSpec ==
    /\ TimedSpec
    /\ WF_vars(OnTime /\ Tick)
    /\ \A w \in Worker : WF_vars(Step(w)) /\ WF_vars(HeartbeatAnswered(w))

-----------------------------------------------------------------------------
(* Properties.                                                              *)

TypeOK ==
    /\ pending \in [Pair -> Value]
    /\ active \in [Pair -> Value]
    /\ beat \in [Pair -> Nat \cup {NoBeat}]
    /\ recovery \subseteq [pair : Pair, slot : Nat, value : Payload]
    /\ recoverySeq \in Nat
    /\ pc \in [Worker -> PC]
    /\ held \in [Worker -> [pair : Pair \cup {NoPair}, value : Value]]
    /\ \A w \in Worker :
          pc[w] \notin {"poll", "sweep", "down"} => held[w] \in [pair : Pair, value : Payload]
    /\ snap \in [Worker -> SUBSET [pair : Pair, value : Payload, beat : Nat \cup {NoBeat}]]
    /\ stopping \in [Worker -> BOOLEAN]
    /\ due \in [Worker -> Nat] /\ lastSuccess \in [Worker -> Nat]
    /\ unseen \in [Pair -> BOOLEAN]
    /\ jobs \in Nat /\ acts \in Nat /\ faults \in Nat /\ now \in Nat
    /\ done \subseteq Nat

(***************************************************************************)
(* No job is lost and none exists twice: the Lua scripts and the sweep,    *)
(* cancellation and recovery paths keep every submitted job in exactly one *)
(* field of the hash until complete_job removes it for good.               *)
(***************************************************************************)
Place(kind, p, n) == [kind |-> kind, pair |-> p, slot |-> n]
Places(j) ==
    {Place("pending", p, 0) : p \in {q \in Pair : pending[q].job = j}}
    \cup {Place("active", p, 0) : p \in {q \in Pair : active[q].job = j}}
    \cup {Place("recovery", r.pair, r.slot) : r \in {x \in recovery : x.value.job = j}}
    \cup {Place("done", NoPair, 0) : k \in done \cap {j}}

JobConservation == \A j \in 1 .. jobs : \E l \in Places(j) : Places(j) = {l}

(***************************************************************************)
(* "At most one active and one recovery entry exist per pair", and in fact *)
(* never both: pick_next_job prefers recovery fields, so the numbered      *)
(* :recovery:<n> fields of the two moving scripts are never needed.        *)
(***************************************************************************)
ActiveRecoveryExclusive ==
    /\ \A p \in Pair : active[p] # NoValue => InRecovery(p) = {}
    /\ \A r, s \in recovery : r.pair = s.pair => r = s

(***************************************************************************)
(* Every :active entry can go stale: sweep_stale_active_jobs skips entries *)
(* with neither heartbeat nor activated_at, which would block the pair for *)
(* ever.                                                                   *)
(***************************************************************************)
Sweepable ==
    \A p \in Pair : active[p] # NoValue => beat[p] # NoBeat \/ active[p].act # 0

(***************************************************************************)
(* An auto submission is served: until a full listing of the pair's open   *)
(* MRs has started after it, a job that will do that listing is queued, or *)
(* active and not past list_open_mrs.                                      *)
(***************************************************************************)
SubmissionCovered ==
    \A p \in Pair : unseen[p] =>
        \/ pending[p] # NoValue
        \/ InRecovery(p) # {}
        \/ active[p] # NoValue
           /\ \A w \in Worker : Holds(w, p) => pc[w] \notin {"work", "finish", "failed"}

(***************************************************************************)
(* An entry leaves :active only by a step of a worker holding its payload, *)
(* or because its lease has expired, whatever sweep snapshots are still    *)
(* being worked through.  Only the payload of a release without heartbeats *)
(* is exempt: its snapshot has no heartbeat to compare with.               *)
(***************************************************************************)
LeaseRespected ==
    [][\A p \in Pair : active[p] \notin {NoValue, Legacy} /\ active'[p] = NoValue =>
          \/ Stale(p)
          \/ \E w \in Worker : Holds(w, p) /\ pc'[w] # pc[w]]_vars

(***************************************************************************)
(* "No concurrent processing of same package-branch": the workflow of a    *)
(* pair runs in one worker at a time.                                      *)
(***************************************************************************)
NoConcurrentProcessing ==
    \A v, w \in Worker :
        v # w /\ pc[v] \in Running /\ pc[w] \in Running => held[v].pair # held[w].pair

(***************************************************************************)
(* Every submitted job is eventually processed to its end, whatever crash, *)
(* signal or Redis outage interrupted it.                                  *)
(***************************************************************************)
EveryJobCompletes == \A j \in 1 .. MaxJobs : j <= jobs ~> j \in done
=============================================================================
