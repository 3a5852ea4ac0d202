------------------------ MODULE IssueRoutingProofs ------------------------
(***************************************************************************)
(* Proofs about the routing of issues, for any numbers of issues, slots,   *)
(* attempts and faults: the types of the state; that an issue is never     *)
(* under triage while a fix of it is queued or under way; that none is     *)
(* marked in flight with nobody to work on it and no sweep to find it; and *)
(* that what people ask for once is not done twice.                        *)
(*                                                                         *)
(* Locks alone do not keep the stages apart: each agent has its own.  The  *)
(* labels do.  A fix task exists only under a label that a triage agent    *)
(* leaves alone, and a sweep sends an issue to triage only by what nobody  *)
(* carries.  So the invariant has three parts: what a slot holds (SlotInv),*)
(* what a sweep has read and why that is still true (SweepInv), and how    *)
(* labels, queues and slots of one issue fit together (IssueInv).          *)
(*                                                                         *)
(* For the last one each stage keeps an account (TodoInv): the tasks of    *)
(* people in its queue and slots, what will still lead to one, and the     *)
(* labels and sweeps that ask for one are no more than the labels added.   *)
(***************************************************************************)
EXTENDS IssueRouting, FiniteSetTheorems, TLAPS

(* What the assumption on the constants says of the names in the state.        *)
LEMMA Names ==
    /\ NoWorker \notin Worker /\ "ghost" \notin Worker /\ NoTask \notin Task
    /\ TodoFetcher \subseteq Fetcher /\ Triager \cap Fixer = {}
    /\ \A w \in Worker : KindOf(w) \in Kind /\ (w \in Triager <=> w \notin Fixer)
    /\ \A w \in Triager : w \in Worker /\ KindOf(w) = "triage"
    /\ \A w \in Fixer : w \in Worker /\ KindOf(w) = "fix"
    /\ "triage" \in Kind /\ "fix" \in Kind
BY IssueRoutingAssumption DEF Worker, KindOf, Kind

(* There are finitely many tasks.                                              *)
LEMMA TasksFinite == IsFiniteSet(Task)
<1> DEFINE A == 0 .. MaxRetries - 1
           P == (Issue \X BOOLEAN) \X A
           f == [p \in P |-> [issue |-> p[1][1], user |-> p[1][2], attempts |-> p[2]]]
<1>1. MaxRetries \in Nat
  BY IssueRoutingAssumption
<1>2. IsFiniteSet(A)
  BY <1>1, FS_Interval
<1>3. IsFiniteSet(BOOLEAN)
  <2>1. IsFiniteSet({TRUE}) /\ IsFiniteSet({FALSE})
    BY FS_Singleton
  <2>2. IsFiniteSet({TRUE} \cup {FALSE})
    BY <2>1, FS_Union
  <2>3. {TRUE} \cup {FALSE} = BOOLEAN
    OBVIOUS
  <2> QED
    BY <2>2, <2>3
<1>4. IsFiniteSet(Issue \X BOOLEAN)
  BY <1>3, IssueRoutingAssumption, FS_Product
<1>5. IsFiniteSet(P)
  BY <1>2, <1>4, FS_Product
<1>6. f \in Surjection(P, Task)
  <2>1. f \in [P -> Task]
    BY DEF Task
  <2>2. ASSUME NEW t \in Task PROVE \E p \in P : f[p] = t
    <3>1. <<<<t.issue, t.user>>, t.attempts>> \in P
      BY DEF Task
    <3>2. f[<<<<t.issue, t.user>>, t.attempts>>] = t
      BY <3>1 DEF Task
    <3> QED
      BY <3>1, <3>2
  <2> QED
    BY <2>1, <2>2 DEF Surjection
<1> QED
  BY <1>5, <1>6, FS_Surjection

(* The depth of the triage queue is a number.                                  *)
LEMMA DepthType ==
    ASSUME queue \in [Kind -> [Task -> Nat]]
    PROVE  Depth \in Nat
<1> DEFINE C(t) == Copies("triage", t)
           S == {C(t) : t \in Task}
<1>1. IsFiniteSet(S)
  <2> DEFINE h == [t \in Task |-> C(t)]
  <2>1. h \in Surjection(Task, S)
    BY DEF Surjection
  <2> QED
    BY <2>1, TasksFinite, FS_Surjection
<1>2. ASSUME NEW t \in Task PROVE IsFiniteSet(C(t))
  <2>1. queue["triage"][t] \in Nat
    BY DEF Kind
  <2> DEFINE D == 1 .. queue["triage"][t]
             g == [n \in D |-> <<t, n>>]
  <2>2. IsFiniteSet(D)
    BY <2>1, FS_Interval
  <2>3. g \in Surjection(D, C(t))
    BY DEF Copies, Surjection
  <2> QED
    BY <2>2, <2>3, FS_Surjection
<1>3. IsFiniteSet(UNION S)
  <2>1. \A T \in S : IsFiniteSet(T)
    BY <1>2
  <2> QED
    BY <1>1, <2>1, FS_UNION
<1> QED
  BY <1>3, FS_CardinalityType DEF Depth

(* The parts of the type invariant, one for each of the parts of the state.    *)
JiraType  == labels \in [Issue -> SUBSET Label] /\ aged \subseteq Issue /\ closed \subseteq Issue
RedisType == /\ parked \in [Issue -> SUBSET {"triage", "fix", "clarification"}]
             /\ queue \in [Kind -> [Task -> Nat]]
             /\ lock \in [Kind -> [Issue -> Worker \cup {NoWorker, "ghost"}]]
FetType   == fet \in [Fetcher -> Sweeping]
Positions == {"idle", "lock", "read", "stamp", "run", "label", "dispatch", "clear",
              "giveup", "error", "done", "failed", "release", "requeue"}
SlotType  == /\ st \in [Worker -> Positions]
             /\ task \in [Worker -> Task \cup {NoTask}] /\ requeue \in [Worker -> Task \cup {NoTask}]
             /\ cur \in [Worker -> SUBSET Label] /\ res \in [Worker -> Resolutions \cup {"none"}]
BoundType == triggers \in Nat /\ faults \in Nat

(* A worker at work has a task, a fetcher about to push has an issue.          *)
Tasked  == \A w \in Worker : st[w] # "idle" => task[w] \in Task
Pending == \A f \in Fetcher : fet[f].pc = "enqueue" => fet[f].unread \subseteq Issue /\ fet[f].cap > 0

(* With that, they are inductive.                                              *)
Typed == JiraType /\ RedisType /\ FetType /\ Pending /\ SlotType /\ Tasked /\ BoundType

(* They make the type invariant.                                               *)
LEMMA TypeParts == Typed => TypeOK
BY DEF Typed, TypeOK, JiraType, RedisType, FetType, SlotType, BoundType, Positions

(* A label edit is typed.                                                      *)
LEMMA EditType ==
    ASSUME JiraType, NEW i \in Issue, NEW remove, NEW add \in SUBSET Label, Edit(i, remove, add)
    PROVE  JiraType'
BY DEF JiraType, Edit

(* So is one that may fail.                                                    *)
LEMMA BestEffortType ==
    ASSUME JiraType, BoundType, NEW w \in Worker, IssueOf(w) \in Issue,
           NEW remove, NEW add \in SUBSET Label, BestEffort(w, remove, add)
    PROVE  JiraType' /\ faults' \in Nat
<1>1. CASE Edit(IssueOf(w), remove, add) /\ UNCHANGED faults
  BY <1>1, EditType DEF BoundType
<1>2. CASE Fault("swallow") /\ UNCHANGED jira
  BY <1>2 DEF Fault, jira, JiraType, BoundType
<1> QED
  BY <1>1, <1>2 DEF BestEffort

(* So is a push.                                                               *)
LEMMA PushType ==
    ASSUME queue \in [Kind -> [Task -> Nat]], NEW k \in Kind, NEW t \in Task, Push(k, t)
    PROVE  queue' \in [Kind -> [Task -> Nat]]
BY DEF Push

(* The end of a task leaves an idle slot, and the others alone.                *)
LEMMA AtEndType ==
    ASSUME SlotType, Tasked, NEW w \in Worker, AtEnd(w)
    PROVE  SlotType' /\ Tasked'
BY DEF SlotType, Tasked, AtEnd, Goto, Positions

(* A step within a task keeps it.                                              *)
LEMMA GotoType ==
    ASSUME SlotType, Tasked, NEW w \in Worker, st[w] # "idle", NEW pc \in Positions, Goto(w, pc), UNCHANGED task
    PROVE  st' \in [Worker -> Positions] /\ Tasked'
BY DEF SlotType, Tasked, Goto

(* A failure leads to a retry of the task, or to giving it up.                 *)
LEMMA FailType ==
    ASSUME SlotType, Tasked, NEW w \in Worker, st[w] # "idle", Fail(w), UNCHANGED <<task, cur, res>>
    PROVE  SlotType' /\ Tasked'
<1>1. task[w] \in Task
  BY DEF Tasked
<1>2. CASE task[w].attempts + 1 < MaxRetries
  <2>1. Goto(w, "release") /\ requeue' = [requeue EXCEPT ![w] = [task[w] EXCEPT !.attempts = @ + 1]]
    BY <1>2 DEF Fail
  <2>2. [task[w] EXCEPT !.attempts = @ + 1] \in Task
    BY <1>1, <1>2, IssueRoutingAssumption DEF Task
  <2>3. st' \in [Worker -> Positions] /\ Tasked'
    BY <2>1, GotoType DEF Positions
  <2> QED
    BY <2>1, <2>2, <2>3 DEF SlotType
<1>3. CASE ~(task[w].attempts + 1 < MaxRetries)
  <2>1. Goto(w, "giveup") /\ UNCHANGED requeue
    BY <1>3 DEF Fail
  <2>2. st' \in [Worker -> Positions] /\ Tasked'
    BY <2>1, GotoType DEF Positions
  <2> QED
    BY <2>1, <2>2 DEF SlotType
<1> QED
  BY <1>2, <1>3

(* The issue of a worker with a task.                                          *)
LEMMA IssueType ==
    ASSUME Tasked, NEW w \in Worker, st[w] # "idle"
    PROVE  IssueOf(w) \in Issue /\ task[w] \in Task
BY DEF Tasked, IssueOf, Task

(* Taking or leaving a lock.                                                   *)
LEMMA LockType ==
    ASSUME lock \in [Kind -> [Issue -> Worker \cup {NoWorker, "ghost"}]], NEW k \in Kind, NEW i \in Issue,
           NEW h \in Worker \cup {NoWorker, "ghost"}
    PROVE  [lock EXCEPT ![k][i] = h] \in [Kind -> [Issue -> Worker \cup {NoWorker, "ghost"}]]
OBVIOUS

(* What a slot that ends leaves of the lock.                                   *)
LEMMA UnlockedType ==
    ASSUME RedisType, Tasked, NEW w \in Worker, lock' = Unlocked(w)
    PROVE  lock' \in [Kind -> [Issue -> Worker \cup {NoWorker, "ghost"}]]
<1>1. CASE st[w] # "idle" /\ lock[KindOf(w)][IssueOf(w)] = w
  BY <1>1, IssueType, LockType, Names DEF Unlocked, RedisType
<1>2. CASE ~(st[w] # "idle" /\ lock[KindOf(w)][IssueOf(w)] = w)
  BY <1>2 DEF Unlocked, RedisType
<1> QED
  BY <1>1, <1>2

(* The initial states are typed.                                               *)
LEMMA InitTyped == Init => Typed
<1> SUFFICES ASSUME Init PROVE Typed
  OBVIOUS
<1>1. JiraType /\ RedisType
  BY DEF Init, JiraType, RedisType
<1>2. FetType
  BY DEF Init, FetType, Idle, Sweeping
<1>4. Pending
  BY DEF Init, Pending, Idle
<1>3. SlotType /\ BoundType /\ Tasked
  BY DEF Init, SlotType, BoundType, Positions, Tasked
<1> QED
  BY <1>1, <1>2, <1>3, <1>4 DEF Typed

(* The sweep of a fetcher after one of its fields has changed.                 *)
LEMMA SweepFields ==
    ASSUME NEW s \in Sweeping
    PROVE  /\ \A p \in {"idle", "depth", "scan", "mark", "push", "enqueue"} : [s EXCEPT !.pc = p] \in Sweeping
           /\ \A S \in SUBSET (Kind \cup {"parked"} \cup Issue) : [s EXCEPT !.unread = S] \in Sweeping
           /\ \A S \in SUBSET Issue : /\ [s EXCEPT !.existing = S] \in Sweeping
                                      /\ [s EXCEPT !.left = S] \in Sweeping
                                      /\ [s EXCEPT !.user = S] \in Sweeping
                                      /\ [s EXCEPT !.retry = S] \in Sweeping
           /\ s.existing \subseteq Issue /\ s.left \subseteq Issue /\ s.user \subseteq Issue
           /\ s.retry \subseteq Issue /\ s.found \subseteq Issue /\ s.cap \in Nat
           /\ s.unread \subseteq Kind \cup {"parked"} \cup Issue
           /\ s.seen \in [Issue -> SUBSET Label]
BY DEF Sweeping

(* The steps of a sweep that leave Jira and the queues alone are typed.         *)
LEMMA SweepType ==
    ASSUME Typed, NEW f \in Fetcher,
           \/ Search(f) \/ ReadDepth(f) \/ ReadQueue(f) \/ ReadQueueFails(f) \/ ReadLocks(f)
           \/ Marked(f) \/ EndSweep(f) \/ FetcherDies(f)
    PROVE  FetType' /\ Pending'
<1>0. /\ FetType /\ Pending /\ JiraType /\ RedisType /\ fet[f] \in Sweeping
      /\ Idle \in Sweeping
  <2>1. Idle \in Sweeping
    BY DEF Idle, Sweeping
  <2> QED
    BY <2>1 DEF Typed, FetType
<1>1. CASE Search(f)
  <2>1. [Idle EXCEPT !.pc = "depth", !.seen = labels, !.stale = aged,
             !.found = IF f \in TodoFetcher THEN {i \in Issue : "todo" \in labels[i]} ELSE Issue] \in Sweeping
    BY <1>0 DEF Idle, Sweeping, JiraType
  <2> QED
    BY <1>0, <1>1, <2>1 DEF Search, FetType, Pending, Idle
<1>2. CASE ReadDepth(f)
  <2> DEFINE cap == IF f \in TodoFetcher THEN Cardinality(Issue)
                    ELSE IF Depth < Threshold THEN Threshold - Depth ELSE 0
  <2>1. cap \in Nat
    BY <1>0, DepthType, FS_CardinalityType, IssueRoutingAssumption DEF RedisType
  <2>2. [fet[f] EXCEPT !.pc = "scan", !.cap = cap, !.unread = Kind \cup {"parked"}] \in Sweeping
    <3> HIDE DEF cap
    <3> QED
      BY <1>0, <2>1 DEF Sweeping
  <2>3. fet' = [fet EXCEPT ![f] = IF cap = 0 \/ fet[f].found = {} THEN Idle
                                  ELSE [@ EXCEPT !.pc = "scan", !.cap = cap, !.unread = Kind \cup {"parked"}]]
    BY <1>2 DEF ReadDepth
  <2> HIDE DEF cap
  <2> QED
    BY <1>0, <2>2, <2>3 DEF FetType, Pending, Idle
<1>3. CASE ReadQueue(f) \/ ReadQueueFails(f)
  <2>1. \A q \in Kind \cup {"parked"} \cup Issue : KeysIn(q) \subseteq Issue
    BY DEF KeysIn
  <2>0. fet[f].pc = "scan"
    BY <1>3 DEF ReadQueue, ReadQueueFails
  <2>2. CASE ReadQueue(f)
    <3>1. PICK q \in fet[f].unread :
              fet' = [fet EXCEPT ![f] = [fet[f] EXCEPT !.unread = @ \ {q}, !.existing = @ \cup KeysIn(q)]]
      BY <2>2 DEF ReadQueue
    <3>2. [fet[f] EXCEPT !.unread = @ \ {q}, !.existing = @ \cup KeysIn(q)] \in Sweeping
      BY <1>0, <2>1, <3>1 DEF Sweeping
    <3> QED
      BY <1>0, <2>0, <3>1, <3>2 DEF FetType, Pending
  <2>3. CASE ReadQueueFails(f)
    <3>1. PICK q \in fet[f].unread : fet' = [fet EXCEPT ![f].unread = @ \ {q}]
      BY <2>3 DEF ReadQueueFails
    <3>2. [fet[f] EXCEPT !.unread = @ \ {q}] \in Sweeping
      BY <1>0, <3>1 DEF Sweeping
    <3> QED
      BY <1>0, <2>0, <3>1, <3>2 DEF FetType, Pending
  <2> QED
    BY <1>3, <2>2, <2>3
<1>4. CASE ReadLocks(f)
  <2>1. [fet[f] EXCEPT !.pc = "mark", !.left = fet[f].found,
                       !.locked = {i \in Issue : lock["triage"][i] # NoWorker}] \in Sweeping
    BY <1>0 DEF Sweeping
  <2> QED
    BY <1>0, <1>4, <2>1 DEF ReadLocks, FetType, Pending
<1>5. CASE Marked(f)
  <2>1. [fet[f] EXCEPT !.pc = "push", !.left = fet[f].found,
                       !.seen = Idle.seen, !.stale = {}] \in Sweeping
    BY <1>0 DEF Sweeping
  <2> QED
    BY <1>0, <1>5, <2>1 DEF Marked, FetType, Pending
<1>6. CASE EndSweep(f) \/ FetcherDies(f)
  <2>1. fet' = [fet EXCEPT ![f] = Idle] /\ Idle.pc = "idle"
    BY <1>6 DEF EndSweep, FetcherDies, Idle
  <2> QED
    BY <1>0, <2>1 DEF FetType, Pending
<1> QED
  BY <1>1, <1>2, <1>3, <1>4, <1>5, <1>6

(* The steps of a sweep about one issue are typed.                             *)
LEMMA MarkType ==
    ASSUME FetType, NEW f \in Fetcher, NEW i \in Issue, NEW fd \in {"user", "retry", "existing"}, Mark(f, i, fd),
           Pending, fet[f].pc = "mark"
    PROVE  FetType' /\ Pending'
<1>0. fet[f] \in Sweeping
  BY DEF FetType
<1>1. fet' = [fet EXCEPT ![f] = [fet[f] EXCEPT !.left = @ \ {i}, ![fd] = @ \cup {i}]]
  BY DEF Mark
<1>2. CASE fd = "user"
  <2>1. [fet[f] EXCEPT !.left = @ \ {i}, !.user = @ \cup {i}] \in Sweeping
    BY <1>0 DEF Sweeping
  <2> QED
    BY <1>0, <1>1, <1>2, <2>1 DEF FetType, Sweeping, Pending
<1>3. CASE fd = "retry"
  <2>1. [fet[f] EXCEPT !.left = @ \ {i}, !.retry = @ \cup {i}] \in Sweeping
    BY <1>0 DEF Sweeping
  <2> QED
    BY <1>0, <1>1, <1>3, <2>1 DEF FetType, Sweeping, Pending
<1>4. CASE fd = "existing"
  <2>1. [fet[f] EXCEPT !.left = @ \ {i}, !.existing = @ \cup {i}] \in Sweeping
    BY <1>0 DEF Sweeping
  <2> QED
    BY <1>0, <1>1, <1>4, <2>1 DEF FetType, Sweeping, Pending
<1> QED
  BY <1>2, <1>3, <1>4

(* What does not change stays typed.                                           *)
LEMMA Unchanged ==
    /\ JiraType /\ UNCHANGED jira => JiraType'
    /\ RedisType /\ UNCHANGED redis => RedisType'
    /\ FetType /\ UNCHANGED fet => FetType'
    /\ Pending /\ UNCHANGED fet => Pending'
    /\ SlotType /\ UNCHANGED slots => SlotType'
    /\ Tasked /\ UNCHANGED slots => Tasked'
    /\ BoundType /\ UNCHANGED bounds => BoundType'
BY DEF jira, redis, slots, bounds, JiraType, RedisType, FetType, SlotType, Tasked, Pending, BoundType

(* A fault is counted.                                                         *)
LEMMA FaultType == ASSUME BoundType, NEW kind, Fault(kind), UNCHANGED triggers PROVE BoundType'
BY DEF BoundType, Fault

(* Every step of a fetcher is typed.                                           *)
LEMMA FetcherTyped ==
    ASSUME Typed, NEW f \in Fetcher,
           \/ Sweep(f) \/ ReadQueueFails(f) \/ FetcherDies(f)
           \/ \E i \in Issue : MarkUnverified(f, i) \/ MarkAbandonedFails(f, i) \/ ConsumeFails(f, i)
    PROVE  Typed'
<1>0. JiraType /\ RedisType /\ FetType /\ Pending /\ SlotType /\ Tasked /\ BoundType /\ fet[f] \in Sweeping
  BY DEF Typed, FetType
<1>1. CASE \/ Search(f) \/ ReadDepth(f) \/ ReadQueue(f) \/ ReadQueueFails(f) \/ ReadLocks(f)
           \/ Marked(f) \/ EndSweep(f) \/ FetcherDies(f)
  <2>1. FetType' /\ Pending'
    BY <1>1, SweepType
  <2>2. UNCHANGED <<jira, redis, slots>>
    BY <1>1 DEF Search, ReadDepth, ReadQueue, ReadQueueFails, ReadLocks, Marked, EndSweep, FetcherDies, bounds
  <2>3. UNCHANGED bounds \/ (UNCHANGED triggers /\ \E kind \in {"scan", "crash"} : Fault(kind))
    BY <1>1 DEF Search, ReadDepth, ReadQueue, ReadQueueFails, ReadLocks, Marked, EndSweep, FetcherDies
  <2>4. BoundType'
    BY <1>0, <2>3, Unchanged, FaultType
  <2> QED
    BY <1>0, <2>1, <2>2, <2>4, Unchanged DEF Typed
<1>2. CASE Enqueue(f)
  <2>1. fet[f].pc = "enqueue" /\ fet[f].unread \subseteq Issue /\ fet[f].cap > 0
    BY <1>0, <1>2 DEF Enqueue, Pending
  <2>2. PICK i \in fet[f].unread : Push("triage", [issue |-> i, user |-> i \in fet[f].user, attempts |-> 0])
    BY <1>2 DEF Enqueue
  <2>3. [issue |-> i, user |-> i \in fet[f].user, attempts |-> 0] \in Task
    BY <2>1, <2>2, IssueRoutingAssumption DEF Task
  <2>4. queue' \in [Kind -> [Task -> Nat]]
    BY <1>0, <2>2, <2>3, PushType, Names DEF RedisType
  <2>5. UNCHANGED <<jira, parked, lock, slots, bounds>>
    BY <1>2 DEF Enqueue
  <2>6. RedisType'
    BY <1>0, <2>4, <2>5 DEF RedisType
  <2>7. fet' = [fet EXCEPT ![f] = [fet[f] EXCEPT !.pc = "push", !.unread = {}, !.cap = @ - 1]]
    BY <1>2 DEF Enqueue
  <2> DEFINE c == fet[f].cap - 1
  <2>8. [fet[f] EXCEPT !.pc = "push", !.unread = {}, !.cap = c] \in Sweeping
    <3>1. c \in Nat
      BY <1>0, <2>1 DEF Sweeping
    <3> HIDE DEF c
    <3> QED
      BY <1>0, <3>1 DEF Sweeping
  <2> DEFINE new == [fet[f] EXCEPT !.pc = "push", !.unread = {}, !.cap = c]
  <2>9. FetType' /\ Pending'
    <3>1. fet' = [fet EXCEPT ![f] = new]
      BY <2>7
    <3>2. new \in Sweeping
      BY <2>8
    <3>3. new.pc = "push"
      <4> HIDE DEF c
      <4> QED
        BY <1>0 DEF Sweeping
    <3> HIDE DEF new
    <3> QED
      BY <1>0, <3>1, <3>2, <3>3 DEF FetType, Pending
  <2>10. JiraType' /\ SlotType' /\ Tasked' /\ BoundType'
    BY <1>0, <2>5, Unchanged
  <2> QED
    BY <2>6, <2>9, <2>10 DEF Typed
<1>3. ASSUME NEW i \in Issue, MarkTodo(f, i) \/ MarkUnverified(f, i) \/ MarkAbandonedFails(f, i) \/ MarkByLabels(f, i)
      PROVE  Typed'
  <2>0. fet[f].pc = "mark"
    BY <1>3 DEF MarkTodo, MarkUnverified, MarkAbandonedFails, MarkByLabels, Marking
  <2>1. \E fd \in {"user", "retry", "existing"} : Mark(f, i, fd) \/ fet' = [fet EXCEPT ![f].left = @ \ {i}]
    BY <1>3 DEF MarkTodo, MarkUnverified, MarkAbandonedFails, MarkByLabels
  <2>2. FetType' /\ Pending'
    <3>1. CASE fet' = [fet EXCEPT ![f].left = @ \ {i}]
      <4>1. [fet[f] EXCEPT !.left = @ \ {i}] \in Sweeping
        BY <1>0, SweepFields
      <4> QED
        BY <1>0, <3>1, <4>1 DEF FetType, Pending
    <3> QED
      BY <1>0, <2>0, <2>1, <3>1, MarkType
  <2>3. JiraType'
    <3>1. Edit(i, {"todo"}, {}) \/ UNCHANGED jira
      BY <1>3 DEF MarkTodo, MarkUnverified, MarkAbandonedFails, MarkByLabels
    <3> QED
      BY <1>0, <3>1, Unchanged, EditType
  <2>4. UNCHANGED <<redis, slots>> /\ (UNCHANGED bounds \/ (UNCHANGED triggers /\ Fault("flip")))
    BY <1>3 DEF MarkTodo, MarkUnverified, MarkAbandonedFails, MarkByLabels
  <2> QED
    BY <1>0, <2>2, <2>3, <2>4, Unchanged, FaultType DEF Typed
<1>4. ASSUME NEW i \in Issue, MarkAbandoned(f, i) PROVE Typed'
  <2>1. FetType' /\ Pending'
    BY <1>0, <1>4, MarkType DEF MarkAbandoned, Marking
  <2>2. JiraType'
    BY <1>0, <1>4, EditType DEF MarkAbandoned, Label
  <2>3. UNCHANGED <<redis, slots, bounds>>
    BY <1>4 DEF MarkAbandoned
  <2> QED
    BY <1>0, <2>1, <2>2, <2>3, Unchanged DEF Typed
<1>5. ASSUME NEW i \in Issue, SkipIssue(f, i) \/ Consume(f, i) \/ ConsumeFails(f, i) PROVE Typed'
  <2>1. Consumed(f, i) \/ fet' = [fet EXCEPT ![f].left = @ \ {i}]
    BY <1>5 DEF SkipIssue, Consume, ConsumeFails
  <2>5. fet[f].pc = "push" /\ fet[f].cap > 0
    BY <1>5 DEF SkipIssue, Consume, ConsumeFails, Pushing
  <2>2. FetType' /\ Pending'
    <3>1. CASE fet' = [fet EXCEPT ![f].left = @ \ {i}]
      <4>1. [fet[f] EXCEPT !.left = @ \ {i}] \in Sweeping
        BY <1>0, SweepFields
      <4> QED
        BY <1>0, <3>1, <4>1 DEF FetType, Pending
    <3>2. CASE Consumed(f, i)
      <4>1. [fet[f] EXCEPT !.left = @ \ {i}, !.pc = IF i \in fet[f].locked THEN "push" ELSE "enqueue",
                           !.unread = IF i \in fet[f].locked THEN {} ELSE {i}] \in Sweeping
        BY <1>0 DEF Sweeping
      <4> QED
        BY <1>0, <2>5, <3>2, <4>1 DEF FetType, Pending, Consumed
    <3> QED
      BY <2>1, <3>1, <3>2
  <2>3. JiraType'
    <3>1. UNCHANGED jira \/ \E l \in {"todo", "retry"} : Edit(i, {l}, {"in_progress"})
      BY <1>5 DEF SkipIssue, Consume, ConsumeFails
    <3> QED
      BY <1>0, <3>1, Unchanged, EditType DEF Label, InFlight
  <2>4. UNCHANGED <<redis, slots>> /\ (UNCHANGED bounds \/ (UNCHANGED triggers /\ Fault("flip")))
    BY <1>5 DEF SkipIssue, Consume, ConsumeFails
  <2> QED
    BY <1>0, <2>2, <2>3, <2>4, Unchanged, FaultType DEF Typed
<1> QED
  BY <1>1, <1>2, <1>3, <1>4, <1>5 DEF Sweep

(* The steps in which a worker moves on with its task are typed.               *)
LEMMA MoveTyped ==
    ASSUME Typed, NEW w \in Worker, st[w] # "idle", NEW pc \in Positions, Goto(w, pc),
           UNCHANGED <<task, requeue>>, cur' \in [Worker -> SUBSET Label], res' \in [Worker -> Resolutions \cup {"none"}]
    PROVE  SlotType' /\ Tasked'
<1>1. st' \in [Worker -> Positions] /\ Tasked'
  BY GotoType DEF Typed
<1> QED
  BY <1>1 DEF Typed, SlotType

(* The steps of the queue, the lock and the shutdown are typed.                *)
LEMMA QueueTyped ==
    ASSUME Typed, NEW w \in Worker,
           \/ Take(w) \/ Acquire(w) \/ DropDuplicate(w) \/ Release(w) \/ Requeue(w)
           \/ GiveUp(w) \/ PushError(w) \/ Clear(w) \/ Stop(w) \/ Crash(w)
    PROVE  Typed'
<1>0. /\ JiraType /\ RedisType /\ FetType /\ Pending /\ SlotType /\ Tasked /\ BoundType
      /\ KindOf(w) \in Kind
  BY Names DEF Typed
<1>1. CASE Take(w)
  <2>1. PICK t \in Task : /\ queue[KindOf(w)][t] > 0
                         /\ queue' = [queue EXCEPT ![KindOf(w)][t] = @ - 1]
                         /\ task' = [task EXCEPT ![w] = t]
    BY <1>1 DEF Take
  <2>2. /\ Goto(w, "lock")
        /\ UNCHANGED <<jira, parked, lock, fet, cur, res, requeue, bounds>>
    BY <1>1 DEF Take
  <2>3. queue' \in [Kind -> [Task -> Nat]]
    BY <1>0, <2>1 DEF RedisType
  <2>4. SlotType' /\ Tasked'
    BY <1>0, <2>1, <2>2 DEF SlotType, Tasked, Goto, Positions
  <2> QED
    BY <1>0, <2>2, <2>3, <2>4, Unchanged DEF Typed, RedisType
<1>2. CASE Acquire(w)
  <2>1. st[w] # "idle" /\ IssueOf(w) \in Issue
    BY <1>0, <1>2, IssueType DEF Acquire
  <2>2. lock' \in [Kind -> [Issue -> Worker \cup {NoWorker, "ghost"}]]
    BY <1>0, <1>2, <2>1, LockType DEF Acquire, RedisType
  <2>3. \E pc \in {"read", "run"} : Goto(w, pc)
    BY <1>2 DEF Acquire
  <2>4. UNCHANGED <<jira, parked, queue, fet, task, cur, res, requeue, bounds>>
    BY <1>2 DEF Acquire
  <2>5. SlotType' /\ Tasked'
    BY <1>0, <2>1, <2>3, <2>4, MoveTyped DEF Positions, SlotType
  <2> QED
    BY <1>0, <2>2, <2>4, <2>5, Unchanged DEF Typed, RedisType
<1>3. CASE DropDuplicate(w)
  BY <1>0, <1>3, AtEndType, Unchanged DEF DropDuplicate, Typed
<1>4. CASE Release(w)
  <2>1. st[w] # "idle" /\ lock' = Unlocked(w) /\ UNCHANGED <<jira, parked, queue, fet, bounds>>
    BY <1>4 DEF Release
  <2>2. RedisType'
    BY <1>0, <2>1, UnlockedType DEF RedisType
  <2>3. CASE AtEnd(w)
    BY <1>0, <2>1, <2>2, <2>3, AtEndType, Unchanged DEF Typed
  <2>4. CASE Goto(w, "requeue") /\ UNCHANGED <<task, cur, res, requeue>>
    <3>1. SlotType' /\ Tasked'
      BY <1>0, <2>1, <2>4, MoveTyped DEF Positions, SlotType
    <3> QED
      BY <1>0, <2>1, <2>2, <3>1, Unchanged DEF Typed
  <2> QED
    BY <1>4, <2>3, <2>4 DEF Release
<1>5. CASE Requeue(w)
  <2>1. Push(KindOf(w), requeue[w]) /\ AtEnd(w) /\ UNCHANGED <<jira, parked, lock, fet, bounds>>
    BY <1>5 DEF Requeue
  <2>2. requeue[w] \in Task \cup {NoTask}
    BY <1>0 DEF SlotType
  <2>3. queue' \in [Kind -> [Task -> Nat]]
    <3>1. CASE requeue[w] \in Task
      BY <1>0, <2>1, <3>1, PushType DEF RedisType
    <3>2. CASE requeue[w] = NoTask
      <4>1. \A t \in Task : t # requeue[w]
        BY <3>2, Names
      <4> QED
        BY <1>0, <2>1, <4>1 DEF Push, RedisType
    <3> QED
      BY <2>2, <3>1, <3>2
  <2> QED
    BY <1>0, <2>1, <2>3, AtEndType, Unchanged DEF Typed, RedisType
<1>6. CASE GiveUp(w)
  <2>1. st[w] # "idle" /\ IssueOf(w) \in Issue
    BY <1>0, <1>6, IssueType DEF GiveUp
  <2>2. /\ BestEffort(w, IF w \in Triager THEN {"in_progress", "manual"} ELSE {"triaged"}, {"errored"})
        /\ Goto(w, "error")
        /\ UNCHANGED <<redis, fet, task, cur, res, requeue, triggers>>
    BY <1>6 DEF GiveUp
  <2>3. JiraType' /\ faults' \in Nat
    BY <1>0, <2>1, <2>2, BestEffortType DEF Label
  <2>4. SlotType' /\ Tasked'
    BY <1>0, <2>1, <2>2, MoveTyped DEF Positions, SlotType
  <2> QED
    BY <1>0, <2>2, <2>3, <2>4, Unchanged DEF Typed, BoundType
<1>7. CASE PushError(w) \/ Clear(w)
  <2>1. st[w] # "idle" /\ Goto(w, "release")
    BY <1>7 DEF PushError, Clear
  <2>2. UNCHANGED <<jira, queue, lock, fet, task, cur, res, requeue, bounds>>
    BY <1>7 DEF PushError, Clear
  <2>3. parked' \in [Issue -> SUBSET {"triage", "fix", "clarification"}]
    BY <1>0, <1>7 DEF PushError, Clear, RedisType, Kind
  <2>4. SlotType' /\ Tasked'
    BY <1>0, <2>1, <2>2, MoveTyped DEF Positions, SlotType
  <2> QED
    BY <1>0, <2>2, <2>3, <2>4, Unchanged DEF Typed, RedisType
<1>8. CASE Stop(w)
  <2>1. st[w] # "idle" /\ Fault("stop") /\ lock' = Unlocked(w) /\ Push(KindOf(w), task[w])
    BY <1>8 DEF Stop
  <2>2. AtEnd(w) /\ UNCHANGED <<jira, parked, fet, triggers>>
    BY <1>8 DEF Stop
  <2>3. queue' \in [Kind -> [Task -> Nat]]
    BY <1>0, <2>1, IssueType, PushType DEF RedisType
  <2>4. RedisType'
    BY <1>0, <2>1, <2>2, <2>3, UnlockedType DEF RedisType
  <2> QED
    BY <1>0, <2>1, <2>2, <2>4, AtEndType, FaultType, Unchanged DEF Typed
<1>9. CASE Crash(w)
  <2>1. st[w] # "idle" /\ Fault("crash") /\ AtEnd(w) /\ UNCHANGED <<jira, parked, queue, fet, triggers>>
    BY <1>9 DEF Crash
  <2>2. lock' = lock \/ lock' = [lock EXCEPT ![KindOf(w)][IssueOf(w)] = "ghost"]
    BY <1>9 DEF Crash
  <2>3. RedisType'
    <3>1. IssueOf(w) \in Issue
      BY <1>0, <2>1, IssueType
    <3>2. [lock EXCEPT ![KindOf(w)][IssueOf(w)] = "ghost"] \in [Kind -> [Issue -> Worker \cup {NoWorker, "ghost"}]]
      BY <1>0, <3>1, LockType DEF RedisType
    <3> QED
      BY <1>0, <2>1, <2>2, <3>2 DEF RedisType
  <2> QED
    BY <1>0, <2>1, <2>3, AtEndType, FaultType, Unchanged DEF Typed
<1> QED
  BY <1>1, <1>2, <1>3, <1>4, <1>5, <1>6, <1>7, <1>8, <1>9

(* The steps of the triage agent and of the fix agents are typed.              *)
LEMMA AgentTyped ==
    ASSUME Typed, NEW w \in Worker,
           \/ ReadIssue(w) \/ ReadFails(w) \/ SkipClosed(w) \/ Stamp(w) \/ StampFails(w) \/ TriageFails(w)
           \/ TerminalLabel(w) \/ TerminalLabelFails(w) \/ Dispatch(w) \/ FixDone(w) \/ FixFailed(w)
           \/ \E r \in Resolutions : Triage(w, r)
           \/ \E r \in FixOutcomes : Fix(w, r)
    PROVE  Typed'
<1>0. /\ JiraType /\ RedisType /\ FetType /\ Pending /\ SlotType /\ Tasked /\ BoundType
      /\ KindOf(w) \in Kind
  BY Names DEF Typed
<1>1. CASE ReadIssue(w) \/ ReadFails(w)
  <2>1. st[w] # "idle" /\ \E ls \in SUBSET Label : Proceed(w, ls)
    <3>1. CASE ReadIssue(w)
      <4>1. st[w] # "idle" /\ Proceed(w, labels[IssueOf(w)])
        BY <3>1 DEF ReadIssue
      <4>2. labels[IssueOf(w)] \in SUBSET Label
        BY <1>0, <4>1, IssueType DEF JiraType
      <4> QED
        BY <4>1, <4>2
    <3>2. CASE ReadFails(w)
      BY <3>2 DEF ReadFails
    <3> QED
      BY <1>1, <3>1, <3>2
  <2>2. PICK ls \in SUBSET Label : Proceed(w, ls)
    BY <2>1
  <2>3. UNCHANGED <<jira, redis, fet, task, res, requeue, triggers>>
    BY <2>2 DEF Proceed
  <2>4. \E pc \in {"release", "stamp"} : Goto(w, pc)
    BY <2>2 DEF Proceed
  <2>5. cur' \in [Worker -> SUBSET Label]
    BY <1>0, <2>2 DEF Proceed, SlotType
  <2>6. SlotType' /\ Tasked'
    BY <1>0, <2>1, <2>3, <2>4, <2>5, MoveTyped DEF Positions, SlotType
  <2>7. faults' \in Nat
    BY <1>0, <1>1 DEF ReadIssue, ReadFails, Fault, BoundType
  <2> QED
    BY <1>0, <2>3, <2>6, <2>7, Unchanged DEF Typed, BoundType
<1>2. CASE SkipClosed(w)
  <2>1. st[w] # "idle" /\ IssueOf(w) \in Issue
    BY <1>0, <1>2, IssueType DEF SkipClosed
  <2>2. BestEffort(w, {"todo"}, {}) \/ UNCHANGED <<jira, faults>>
    BY <1>2 DEF SkipClosed
  <2>3. Goto(w, "release") /\ UNCHANGED <<redis, fet, task, cur, res, requeue, triggers>>
    BY <1>2 DEF SkipClosed
  <2>4. JiraType' /\ faults' \in Nat
    <3>1. CASE BestEffort(w, {"todo"}, {})
      BY <1>0, <2>1, <3>1, BestEffortType
    <3>2. CASE UNCHANGED <<jira, faults>>
      BY <1>0, <3>2, Unchanged DEF BoundType
    <3> QED
      BY <2>2, <3>1, <3>2
  <2>5. SlotType' /\ Tasked'
    BY <1>0, <2>1, <2>3, MoveTyped DEF Positions, SlotType
  <2> QED
    BY <1>0, <2>3, <2>4, <2>5, Unchanged DEF Typed, BoundType
<1>3. CASE Stamp(w)
  <2>1. st[w] # "idle" /\ IssueOf(w) \in Issue
    BY <1>0, <1>3, IssueType DEF Stamp
  <2>2. /\ Edit(IssueOf(w), cur[w] \ {"in_progress"}, {"in_progress"})
        /\ Goto(w, "run") /\ cur' = [cur EXCEPT ![w] = {}]
        /\ UNCHANGED <<redis, fet, task, res, requeue, bounds>>
    BY <1>3 DEF Stamp
  <2>3. JiraType'
    BY <1>0, <2>1, <2>2, EditType DEF Label, InFlight
  <2>4. cur' \in [Worker -> SUBSET Label]
    BY <1>0, <2>2 DEF SlotType
  <2>5. SlotType' /\ Tasked'
    BY <1>0, <2>1, <2>2, <2>4, MoveTyped DEF Positions, SlotType
  <2> QED
    BY <1>0, <2>2, <2>3, <2>5, Unchanged DEF Typed
<1>4. CASE StampFails(w) \/ TriageFails(w)
  <2>1. st[w] # "idle" /\ Fail(w)
    BY <1>4 DEF StampFails, TriageFails
  <2>2. UNCHANGED <<jira, redis, fet, task, cur, res, triggers>>
    BY <1>4 DEF StampFails, TriageFails, bounds
  <2>3. faults' \in Nat
    BY <1>0, <1>4 DEF StampFails, TriageFails, bounds, Fault, BoundType
  <2>4. SlotType' /\ Tasked'
    BY <1>0, <2>1, <2>2, FailType
  <2> QED
    BY <1>0, <2>2, <2>3, <2>4, Unchanged DEF Typed, BoundType
<1>5. ASSUME NEW r \in Resolutions, Triage(w, r) PROVE Typed'
  <2>1. st[w] # "idle" /\ IssueOf(w) \in Issue
    BY <1>0, <1>5, IssueType DEF Triage
  <2>2. /\ res' = [res EXCEPT ![w] = r]
        /\ UNCHANGED <<redis, fet, task, cur, requeue, bounds>>
        /\ \/ Edit(IssueOf(w), {"in_progress"}, {"triaged", "manual"}) /\ Goto(w, "clear")
           \/ UNCHANGED jira /\ Goto(w, "label")
    BY <1>5 DEF Triage
  <2>3. JiraType'
    BY <1>0, <2>1, <2>2, EditType, Unchanged DEF Label, InFlight
  <2>4. res' \in [Worker -> Resolutions \cup {"none"}]
    BY <1>0, <2>2 DEF SlotType
  <2>5. SlotType' /\ Tasked'
    BY <1>0, <2>1, <2>2, <2>4, MoveTyped DEF Positions, SlotType
  <2> QED
    BY <1>0, <2>2, <2>3, <2>5, Unchanged DEF Typed
<1>6. CASE TerminalLabel(w)
  <2>1. st[w] # "idle" /\ IssueOf(w) \in Issue
    BY <1>0, <1>6, IssueType DEF TerminalLabel
  <2>2. /\ \E remove : \E l \in {"triaged", "outcome"} : Edit(IssueOf(w), remove, {l})
        /\ Goto(w, "dispatch")
        /\ UNCHANGED <<redis, fet, task, cur, res, requeue, bounds>>
    BY <1>6 DEF TerminalLabel
  <2>3. JiraType'
    BY <1>0, <2>1, <2>2, EditType DEF Label, InFlight
  <2>4. SlotType' /\ Tasked'
    BY <1>0, <2>1, <2>2, MoveTyped DEF Positions, SlotType
  <2> QED
    BY <1>0, <2>2, <2>3, <2>4, Unchanged DEF Typed
<1>7. CASE TerminalLabelFails(w)
  <2>1. /\ st[w] # "idle" /\ Fault("critical") /\ Goto(w, "release")
        /\ UNCHANGED <<jira, redis, fet, task, cur, res, requeue, triggers>>
    BY <1>7 DEF TerminalLabelFails
  <2>2. SlotType' /\ Tasked'
    BY <1>0, <2>1, MoveTyped DEF Positions, SlotType
  <2> QED
    BY <1>0, <2>1, <2>2, FaultType, Unchanged DEF Typed
<1>8. CASE Dispatch(w)
  <2>1. st[w] # "idle" /\ IssueOf(w) \in Issue /\ task[w] \in Task
    BY <1>0, <1>8, IssueType DEF Dispatch
  <2>2. /\ Goto(w, "clear") /\ res' = [res EXCEPT ![w] = "none"]
        /\ UNCHANGED <<jira, lock, fet, task, cur, requeue, bounds>>
    BY <1>8 DEF Dispatch
  <2>3. \/ Push("fix", [issue |-> IssueOf(w), user |-> task[w].user, attempts |-> 0]) /\ UNCHANGED parked
        \/ parked' = [parked EXCEPT ![IssueOf(w)] = @ \cup {"clarification"}] /\ UNCHANGED queue
        \/ UNCHANGED <<parked, queue>>
    BY <1>8 DEF Dispatch
  <2>4. [issue |-> IssueOf(w), user |-> task[w].user, attempts |-> 0] \in Task
    BY <2>1, IssueRoutingAssumption DEF Task
  <2>5. RedisType'
    <3>1. CASE Push("fix", [issue |-> IssueOf(w), user |-> task[w].user, attempts |-> 0]) /\ UNCHANGED parked
      <4>1. queue' \in [Kind -> [Task -> Nat]]
        BY <1>0, <2>4, <3>1, PushType, Names DEF RedisType
      <4> QED
        BY <1>0, <2>2, <3>1, <4>1 DEF RedisType
    <3>2. CASE parked' = [parked EXCEPT ![IssueOf(w)] = @ \cup {"clarification"}] /\ UNCHANGED queue
      BY <1>0, <2>2, <3>2 DEF RedisType
    <3>3. CASE UNCHANGED <<parked, queue>>
      BY <1>0, <2>2, <3>3 DEF RedisType
    <3> QED
      BY <2>3, <3>1, <3>2, <3>3
  <2>6. res' \in [Worker -> Resolutions \cup {"none"}]
    BY <1>0, <2>2 DEF SlotType
  <2>7. SlotType' /\ Tasked'
    BY <1>0, <2>1, <2>2, <2>6, MoveTyped DEF Positions, SlotType
  <2> QED
    BY <1>0, <2>2, <2>5, <2>7, Unchanged DEF Typed
<1>9. ASSUME NEW r \in FixOutcomes, Fix(w, r) PROVE Typed'
  <2>1. st[w] # "idle" /\ UNCHANGED <<jira, redis, fet, task, cur, res, bounds>>
    BY <1>9 DEF Fix
  <2>2. SlotType' /\ Tasked'
    <3>1. CASE r = "error"
      BY <1>0, <1>9, <2>1, <3>1, FailType DEF Fix
    <3>2. CASE r # "error"
      <4>1. (\E pc \in {"done", "failed", "giveup"} : Goto(w, pc)) /\ UNCHANGED requeue
        BY <1>9, <3>2, IssueRoutingAssumption DEF Fix
      <4> QED
        BY <1>0, <2>1, <4>1, MoveTyped DEF Positions, SlotType
    <3> QED
      BY <3>1, <3>2
  <2> QED
    BY <1>0, <2>1, <2>2, Unchanged DEF Typed
<1>10. CASE FixDone(w) \/ FixFailed(w)
  <2>1. st[w] # "idle" /\ IssueOf(w) \in Issue
    BY <1>0, <1>10, IssueType DEF FixDone, FixFailed
  <2>2. \E remove : \E add \in SUBSET Label : BestEffort(w, remove, add)
    <3>1. CASE FixDone(w)
      BY <3>1 DEF FixDone, Label
    <3>2. CASE FixFailed(w)
      <4>1. BestEffort(w, {"triaged"}, IF task[w].user THEN {"failed"} ELSE {})
        BY <3>2 DEF FixFailed
      <4>2. (IF task[w].user THEN {"failed"} ELSE {}) \in SUBSET Label
        BY DEF Label
      <4> QED
        BY <4>1, <4>2
    <3> QED
      BY <1>10, <3>1, <3>2
  <2>3. JiraType' /\ faults' \in Nat
    BY <1>0, <2>1, <2>2, BestEffortType
  <2>4. UNCHANGED <<redis, fet, task, cur, res, triggers>>
    BY <1>10 DEF FixDone, FixFailed
  <2>5. SlotType' /\ Tasked'
    <3>1. CASE FixDone(w)
      <4>1. Goto(w, "clear") /\ UNCHANGED requeue
        BY <3>1 DEF FixDone
      <4> QED
        BY <1>0, <2>1, <2>4, <4>1, MoveTyped DEF Positions, SlotType
    <3>2. CASE FixFailed(w)
      BY <1>0, <2>1, <2>4, <3>2, FailType DEF FixFailed
    <3> QED
      BY <1>10, <3>1, <3>2
  <2> QED
    BY <1>0, <2>3, <2>4, <2>5, Unchanged DEF Typed, BoundType
<1> QED
  BY <1>1, <1>2, <1>3, <1>4, <1>5, <1>6, <1>7, <1>8, <1>9, <1>10

(* The steps of people and of time are typed.                                  *)
LEMMA WorldTyped ==
    ASSUME Typed, NEW i \in Issue,
           \/ Age(i) \/ Close(i) \/ (\E l \in Triggers : AddLabel(i, l)) \/ (\E k \in Kind : Expire(k, i))
    PROVE  Typed'
<1>0. JiraType /\ RedisType /\ FetType /\ Pending /\ SlotType /\ Tasked /\ BoundType
  BY DEF Typed
<1>1. CASE Age(i) \/ Close(i)
  <2>1. UNCHANGED <<redis, fet, slots, triggers>> /\ JiraType' /\ faults' \in Nat
    BY <1>0, <1>1 DEF Age, Close, bounds, Fault, JiraType, BoundType
  <2> QED
    BY <1>0, <2>1, Unchanged DEF Typed, BoundType
<1>2. ASSUME NEW l \in Triggers, AddLabel(i, l) PROVE Typed'
  <2>1. l \in Label
    BY IssueRoutingAssumption DEF Label
  <2>2. Edit(i, {}, {l}) /\ UNCHANGED <<redis, fet, slots, faults>> /\ triggers' = triggers + 1
    BY <1>2 DEF AddLabel
  <2>3. JiraType' /\ BoundType'
    BY <1>0, <2>1, <2>2, EditType DEF BoundType
  <2> QED
    BY <1>0, <2>2, <2>3, Unchanged DEF Typed
<1>3. ASSUME NEW k \in Kind, Expire(k, i) PROVE Typed'
  <2>1. lock' = [lock EXCEPT ![k][i] = NoWorker] /\ UNCHANGED <<jira, parked, queue, fet, slots, bounds>>
    BY <1>3 DEF Expire
  <2>2. RedisType'
    BY <1>0, <2>1, LockType DEF RedisType
  <2> QED
    BY <1>0, <2>1, <2>2, Unchanged DEF Typed
<1> QED
  BY <1>1, <1>2, <1>3

(* Who takes a step: the world, a fetcher, or a worker.                        *)
WorldStep(i)   == Age(i) \/ Close(i) \/ (\E l \in Triggers : AddLabel(i, l)) \/ (\E k \in Kind : Expire(k, i))
FetcherStep(f) == \/ Sweep(f) \/ ReadQueueFails(f) \/ FetcherDies(f)
                  \/ \E i \in Issue : MarkUnverified(f, i) \/ MarkAbandonedFails(f, i) \/ ConsumeFails(f, i)
QueueStep(w)   == \/ Take(w) \/ Acquire(w) \/ DropDuplicate(w) \/ Release(w) \/ Requeue(w)
                  \/ GiveUp(w) \/ PushError(w) \/ Clear(w) \/ Stop(w) \/ Crash(w)
AgentStep(w)   ==
    \/ ReadIssue(w) \/ ReadFails(w) \/ SkipClosed(w) \/ Stamp(w) \/ StampFails(w) \/ TriageFails(w)
    \/ TerminalLabel(w) \/ TerminalLabelFails(w) \/ Dispatch(w) \/ FixDone(w) \/ FixFailed(w)
    \/ \E r \in Resolutions : Triage(w, r)
    \/ \E r \in FixOutcomes : Fix(w, r)

(* These are all steps.                                                        *)
LEMMA StepCases ==
    ASSUME Next
    PROVE  \/ \E i \in Issue : WorldStep(i)
           \/ \E f \in Fetcher : FetcherStep(f)
           \/ \E w \in Worker : QueueStep(w) \/ AgentStep(w)
<1>1. CASE \E i \in Issue : Age(i) \/ (\E l \in Triggers : AddLabel(i, l)) \/ (\E k \in Kind : Expire(k, i))
  BY <1>1 DEF WorldStep
<1>2. CASE \E f \in Fetcher : Sweep(f) \/ \E i \in Issue : MarkUnverified(f, i)
  BY <1>2 DEF FetcherStep
<1>3. CASE \E w \in Worker : Work(w)
  BY <1>3 DEF Work, QueueStep, AgentStep
<1>4. CASE Faulty
  BY <1>4 DEF Faulty, WorldStep, FetcherStep, QueueStep, AgentStep
<1> QED
  BY <1>1, <1>2, <1>3, <1>4 DEF Next

(* Every step is typed.                                                        *)
LEMMA NextTyped == Typed /\ [Next]_vars => Typed'
<1> SUFFICES ASSUME Typed, [Next]_vars PROVE Typed'
  OBVIOUS
<1>1. CASE UNCHANGED vars
  BY <1>1, Unchanged DEF vars, Typed
<1>2. ASSUME NEW i \in Issue, WorldStep(i) PROVE Typed'
  BY <1>2, WorldTyped DEF WorldStep
<1>3. ASSUME NEW f \in Fetcher, FetcherStep(f) PROVE Typed'
  BY <1>3, FetcherTyped DEF FetcherStep
<1>4. ASSUME NEW w \in Worker, QueueStep(w) PROVE Typed'
  BY <1>4, QueueTyped DEF QueueStep
<1>5. ASSUME NEW w \in Worker, AgentStep(w) PROVE Typed'
  BY <1>5, AgentTyped DEF AgentStep
<1> QED
  BY <1>1, <1>2, <1>3, <1>4, <1>5, StepCases

(* In all behaviours the state is typed.                                       *)
THEOREM TypeCorrect == Spec => []TypeOK
<1>1. Spec => []Typed
  BY InitTyped, NextTyped, PTL DEF Spec
<1> QED
  BY <1>1, TypeParts, PTL

-----------------------------------------------------------------------------
(* Labels of an issue that is done with, and all label sets an issue can have. *)
Resting == {{"outcome"}, {"errored"}, {"outcome", "errored"}}
Shapes  == Resting \cup {{}, {"in_progress"}, {"triaged"}, {"retry"}, {"triaged", "manual"}}

(* A slot works on the issue; the issue has a fix task, queued or in a slot.   *)
Busy(w, i) == st[w] # "idle" /\ IssueOf(w) = i
HasFix(i)  == Queued("fix", i) \/ \E w \in Fixer : Busy(w, i)

(* It has at most one.                                                         *)
Lone(i) ==
    /\ \A t, u \in Task : t.issue = i /\ u.issue = i /\ queue["fix"][t] > 0 /\ queue["fix"][u] > 0 => t = u
    /\ \A t \in Task : t.issue = i => queue["fix"][t] <= 1
    /\ \A v, w \in Fixer : Busy(v, i) /\ Busy(w, i) => v = w
    /\ Queued("fix", i) => \A w \in Fixer : ~Busy(w, i)

(* What a triage agent at work relies on.                                      *)
Relying == {"stamp", "run", "label", "dispatch", "giveup", "error"}
Relies(w, i) ==
    /\ st[w] \in Relying => ~HasFix(i)
    /\ st[w] = "stamp" => labels[i] = cur[w] /\ cur[w] \in {{}, {"in_progress"}}
    /\ st[w] \in {"run", "label"} => labels[i] = {"in_progress"}
    /\ st[w] = "dispatch" => labels[i] \in {{"triaged"}, {"outcome"}}
    /\ st[w] = "giveup" => labels[i] \in {{}, {"in_progress"}}

(* The labels of an issue tell who has it.                                     *)
IssueInv(i) ==
    /\ labels[i] \in Shapes
    /\ "retry" \in labels[i] => ~Carried(i)
    /\ i \in aged => ~Carried(i) /\ labels[i] \cap InFlight # {}
    /\ Lone(i)
    /\ HasFix(i) => labels[i] \in Resting \cup {{"triaged"}}
    /\ \A w \in Triager : Busy(w, i) => Relies(w, i)

(* Tasks are nobody's request, a task inside its lock has it, and the two      *)
(* stages have positions of their own.                                         *)
QueueInv == \A k \in Kind : \A t \in Task : queue[k][t] > 0 => ~t.user
Outside  == {"idle", "lock", "requeue"}
SlotOk(w) ==
    /\ st[w] # "idle" => ~task[w].user
    /\ requeue[w] # NoTask => /\ st[w] \in {"release", "requeue"}
                              /\ requeue[w].issue = IssueOf(w) /\ ~requeue[w].user
    /\ st[w] = "requeue" => requeue[w] # NoTask
    /\ st[w] \notin Outside => lock[KindOf(w)][IssueOf(w)] = w
    /\ st[w] # "failed"
    /\ w \in Fixer => st[w] \notin {"read", "stamp", "label", "dispatch"}
    /\ w \in Triager => st[w] # "done"
SlotInv == QueueInv /\ \A w \in Worker : SlotOk(w)

(* The sweep of the fetcher has still to mark, or to push, the issue.          *)
Unmarked(f, i) == fet[f].pc \in {"depth", "scan"} \/ (fet[f].pc = "mark" /\ i \in fet[f].left)
Unpushed(f, i) == \/ fet[f].pc = "mark" /\ i \notin fet[f].left
                  \/ fet[f].pc \in {"push", "enqueue"} /\ i \in fet[f].left

(* What it has seen of the issue stays true as far as it matters.              *)
Sees(f, i) ==
    /\ Unmarked(f, i) =>
          /\ fet[f].seen[i] \in Shapes /\ i \notin fet[f].retry
          /\ i \in fet[f].stale => fet[f].seen[i] = labels[i] /\ ~Carried(i)
          /\ "retry" \in fet[f].seen[i] => labels[i] = {"retry"} /\ ~Carried(i)
          /\ i \in aged => i \in fet[f].stale
          /\ "retry" \in labels[i] => fet[f].seen[i] = {"retry"}
    /\ Unpushed(f, i) =>
          /\ i \in fet[f].retry => labels[i] = {"retry"} /\ ~Carried(i)
          /\ "retry" \in labels[i] \/ i \in aged => i \in fet[f].existing \cup fet[f].retry

(* The jobs for ymir_todo find nothing, the other one sweeps all issues.       *)
SweepOk(f) ==
    /\ fet[f].user = {}
    /\ f \in TodoFetcher => fet[f].pc \in {"idle", "depth"} /\ fet[f].found = {}
    /\ f \notin TodoFetcher => /\ fet[f].pc # "idle" => fet[f].found = Issue
                               /\ \A i \in Issue : Sees(f, i)
SweepInv == \A f \in Fetcher : SweepOk(f)

(* The inductive invariant.                                                    *)
RoutingInv == SlotInv /\ SweepInv /\ \A i \in Issue : IssueInv(i)

(* What lies in a list that no agent drains is not in flight.                  *)
ParkedOk(i) ==
    /\ parked[i] # {} => labels[i] \in Resting
    /\ \A w \in Worker : Busy(w, i) =>
          /\ st[w] = "error" => labels[i] \in Resting
          /\ st[w] = "dispatch" /\ res[w] = "clarify" => labels[i] = {"outcome"}
ParkedInv == \A i \in Issue : ParkedOk(i)

(***************************************************************************)
(* The two theorems about the routing itself assume what the run checks    *)
(* them for, for any numbers of issues, slots, attempts and faults: one    *)
(* cron job besides the one for ymir_todo, no labels added by people, no   *)
(* failed read of the labels, no task that waits or runs for a day, and no *)
(* fix that ends with a "_failed" label.                                   *)
(***************************************************************************)
Setting ==
    /\ \A f, g \in Fetcher \ TodoFetcher : f = g
    /\ Triggers = {}
    /\ FaultKinds \cap {"read", "slow", "backlog"} = {}
    /\ "failed" \notin FixOutcomes

(* What a step leaves alone of an issue.                                       *)
Same(i) ==
    /\ labels'[i] = labels[i]
    /\ i \in aged' => i \in aged
    /\ \A k \in Kind : \A t \in Task : t.issue = i => queue'[k][t] = queue[k][t]
    /\ \A w \in Worker : Busy(w, i)' <=> Busy(w, i)
    /\ \A w \in Worker : Busy(w, i) => st'[w] = st[w] /\ cur'[w] = cur[w]

(* A label set without the safety net's trigger, and the others.               *)
LEMMA ShapeFacts ==
    /\ Resting \subseteq Shapes /\ {"retry"} \in Shapes
    /\ \A s \in Shapes : /\ "retry" \in s => s = {"retry"}
                         /\ "todo" \notin s
                         /\ s \cap InFlight # {} => s \in {{"in_progress"}, {"triaged"}, {"triaged", "manual"}}
    /\ \A s \in Resting : "retry" \notin s /\ s \cap InFlight = {}
BY DEF Resting, Shapes, InFlight

(* Then who carries it and what fix tasks it has are the same.                 *)
LEMMA SamePlaces ==
    ASSUME NEW i \in Issue, Same(i)
    PROVE  /\ \A k \in Kind : Queued(k, i)' <=> Queued(k, i)
           /\ HasFix(i)' <=> HasFix(i)
           /\ Lone(i) => Lone(i)'
           /\ UNCHANGED fet => (Carried(i)' <=> Carried(i))
<1>1. \A k \in Kind : Queued(k, i)' <=> Queued(k, i)
  BY DEF Same, Queued
<1>2. \A w \in Fixer : Busy(w, i)' <=> Busy(w, i)
  BY Names DEF Same
<1>3. HasFix(i)' <=> HasFix(i)
  BY <1>1, <1>2, Names DEF HasFix
<1>4. Lone(i) => Lone(i)'
  <2> SUFFICES ASSUME Lone(i) PROVE Lone(i)'
    OBVIOUS
  <2>1. \A t \in Task : t.issue = i => queue'["fix"][t] = queue["fix"][t]
    BY Names DEF Same
  <2>2. (\A t, u \in Task : t.issue = i /\ u.issue = i /\ queue["fix"][t] > 0 /\ queue["fix"][u] > 0 => t = u)'
    BY <2>1 DEF Lone
  <2>3. (\A t \in Task : t.issue = i => queue["fix"][t] <= 1)'
    BY <2>1 DEF Lone
  <2>4. (\A v, w \in Fixer : Busy(v, i) /\ Busy(w, i) => v = w)'
    BY <1>2 DEF Lone
  <2>5. (Queued("fix", i) => \A w \in Fixer : ~Busy(w, i))'
    BY <1>1, <1>2, Names DEF Lone
  <2> QED
    BY <2>2, <2>3, <2>4, <2>5 DEF Lone
<1>5. UNCHANGED fet => (Carried(i)' <=> Carried(i))
  <2>1. \A w \in Worker : (st[w] # "idle" /\ IssueOf(w) = i)' <=> (st[w] # "idle" /\ IssueOf(w) = i)
    BY DEF Same, Busy
  <2> QED
    BY <1>1, <2>1 DEF Carried
<1> QED
  BY <1>1, <1>3, <1>4, <1>5

(* So is the invariant of an issue a step leaves alone and gives to nobody.    *)
LEMMA SameIssue ==
    ASSUME NEW i \in Issue, Same(i), IssueInv(i), Carried(i)' => Carried(i)
    PROVE  IssueInv(i)'
<1>1. labels'[i] = labels[i] /\ (i \in aged' => i \in aged)
  BY DEF Same
<1>2. ASSUME NEW w \in Triager, Busy(w, i)' PROVE Relies(w, i)'
  <2>1. Busy(w, i) /\ st'[w] = st[w] /\ cur'[w] = cur[w]
    BY <1>2, Names DEF Same
  <2>2. Relies(w, i)
    BY <2>1 DEF IssueInv
  <2> QED
    BY <1>1, <2>1, <2>2, SamePlaces DEF Relies
<1>3. Lone(i)' /\ (HasFix(i)' => labels'[i] \in Resting \cup {{"triaged"}})
  BY <1>1, SamePlaces DEF IssueInv
<1>4. /\ labels'[i] \in Shapes
      /\ "retry" \in labels'[i] => ~Carried(i)'
      /\ i \in aged' => ~Carried(i)' /\ labels'[i] \cap InFlight # {}
  BY <1>1 DEF IssueInv
<1> QED
  BY <1>2, <1>3, <1>4 DEF IssueInv

(* A step of a worker on issue j leaves the sweeps right: no sweep waits for   *)
(* an issue that somebody carries.                                             *)
LEMMA WorkerSweep ==
    ASSUME SweepInv, UNCHANGED fet, NEW j \in Issue, Carried(j), IssueInv(j),
           \A i \in Issue \ {j} : Same(i), "retry" \notin labels'[j], j \notin aged'
    PROVE  SweepInv'
<1> SUFFICES ASSUME NEW f \in Fetcher PROVE SweepOk(f)'
  BY DEF SweepInv
<1>1. SweepOk(f) /\ fet' = fet
  BY DEF SweepInv
<1>2. ASSUME NEW i \in Issue, Sees(f, i) PROVE Sees(f, i)'
  <2>1. (Unmarked(f, i)' <=> Unmarked(f, i)) /\ (Unpushed(f, i)' <=> Unpushed(f, i))
    BY <1>1 DEF Unmarked, Unpushed
  <2>2. CASE i # j
    <3>1. Same(i) /\ (Carried(i)' <=> Carried(i))
      BY <1>1, <2>2, SamePlaces
    <3> QED
      BY <1>1, <1>2, <2>1, <3>1 DEF Sees, Same
  <2>3. CASE i = j
    BY <1>1, <1>2, <2>1, <2>3 DEF Sees
  <2> QED
    BY <2>2, <2>3
<1> QED
  BY <1>1, <1>2 DEF SweepOk

(* It leaves the other issues alone.                                           *)
LEMMA WorkerFrame ==
    ASSUME NEW w \in Worker, NEW j \in Issue,
           \A i \in Issue : i # j => labels'[i] = labels[i],
           aged' \subseteq aged,
           \A k \in Kind : \A t \in Task : t.issue # j => queue'[k][t] = queue[k][t],
           \A v \in Worker : v # w => st'[v] = st[v] /\ task'[v] = task[v] /\ cur'[v] = cur[v],
           st[w] # "idle" => IssueOf(w) = j, st'[w] # "idle" => IssueOf(w)' = j
    PROVE  \A i \in Issue \ {j} : Same(i)
<1> SUFFICES ASSUME NEW i \in Issue, i # j PROVE Same(i)
  OBVIOUS
<1>1. \A v \in Worker : Busy(v, i)' <=> Busy(v, i)
  BY DEF Busy, IssueOf
<1>2. \A v \in Worker : Busy(v, i) => st'[v] = st[v] /\ cur'[v] = cur[v]
  BY DEF Busy, IssueOf
<1> QED
  BY <1>1, <1>2 DEF Same

(* What an agent at work on an issue knows of it.                              *)
LEMMA AtWork ==
    ASSUME Typed, NEW w \in Worker, st[w] # "idle", IssueInv(IssueOf(w))
    PROVE  /\ IssueOf(w) \in Issue /\ Busy(w, IssueOf(w)) /\ Carried(IssueOf(w))
           /\ "retry" \notin labels[IssueOf(w)] /\ IssueOf(w) \notin aged
           /\ w \in Triager => Relies(w, IssueOf(w))
           /\ w \in Fixer => HasFix(IssueOf(w))
<1>1. IssueOf(w) \in Issue
  BY IssueType DEF Typed
<1>2. Busy(w, IssueOf(w)) /\ Carried(IssueOf(w))
  BY DEF Busy, Carried
<1> QED
  BY <1>1, <1>2 DEF IssueInv, HasFix

(* No triage agent relies on the issue while another worker has its lock.      *)
LEMMA OneAtWork ==
    ASSUME Typed, SlotInv, NEW w \in Worker, st[w] # "idle", IssueInv(IssueOf(w)),
           w \in Fixer \/ st[w] \notin Outside, NEW v \in Triager, v # w, Busy(v, IssueOf(w))
    PROVE  st[v] \notin Relying
<1>1. CASE w \in Fixer
  <2>1. HasFix(IssueOf(w)) /\ Relies(v, IssueOf(w))
    BY <1>1, AtWork DEF IssueInv
  <2> QED
    BY <2>1 DEF Relies
<1>2. CASE w \notin Fixer /\ st[w] \notin Outside
  <2>1. w \in Triager /\ KindOf(w) = "triage" /\ KindOf(v) = "triage" /\ v \in Worker
    BY <1>2, Names
  <2>2. lock["triage"][IssueOf(w)] = w
    BY <1>2, <2>1 DEF SlotInv, SlotOk
  <2>3. st[v] \notin Outside => lock["triage"][IssueOf(w)] = v
    BY <2>1 DEF SlotInv, SlotOk, Busy
  <2> QED
    BY <2>2, <2>3 DEF Relying, Outside
<1> QED
  BY <1>1, <1>2

(* A step of a worker on issue j that keeps what concerns j and the slots.     *)
LEMMA WorkerStep ==
    ASSUME RoutingInv, NEW w \in Worker, NEW j \in Issue, Carried(j), UNCHANGED fet,
           \A i \in Issue : i # j => labels'[i] = labels[i],
           aged' \subseteq aged, j \notin aged', "retry" \notin labels'[j],
           \A k \in Kind : \A t \in Task : t.issue # j => queue'[k][t] = queue[k][t],
           \A v \in Worker : v # w => st'[v] = st[v] /\ task'[v] = task[v] /\ cur'[v] = cur[v],
           st[w] # "idle" => IssueOf(w) = j, st'[w] # "idle" => IssueOf(w)' = j,
           SlotInv', IssueInv(j)'
    PROVE  RoutingInv'
<1>1. \A i \in Issue \ {j} : Same(i)
  BY WorkerFrame
<1>2. SweepInv'
  BY <1>1, WorkerSweep DEF RoutingInv
<1>3. ASSUME NEW i \in Issue, i # j PROVE IssueInv(i)'
  <2>1. Same(i) /\ IssueInv(i)
    BY <1>1, <1>3 DEF RoutingInv
  <2> QED
    BY <2>1, SamePlaces, SameIssue
<1> QED
  BY <1>2, <1>3 DEF RoutingInv

(* It leaves the labels of its issue alone, and nobody begins to rely on them. *)
LEMMA LabelsStay ==
    ASSUME NEW j \in Issue, IssueInv(j), Carried(j), labels'[j] = labels[j], aged' \subseteq aged,
           HasFix(j)' => HasFix(j), Lone(j)',
           \A v \in Triager : Busy(v, j)' =>
               (Busy(v, j) /\ st'[v] = st[v] /\ cur'[v] = cur[v]) \/ st'[v] \notin Relying
    PROVE  IssueInv(j)' /\ "retry" \notin labels'[j] /\ j \notin aged'
<1>1. "retry" \notin labels'[j] /\ j \notin aged' /\ labels'[j] \in Shapes
  BY DEF IssueInv
<1>2. HasFix(j)' => labels'[j] \in Resting \cup {{"triaged"}}
  BY DEF IssueInv
<1>3. ASSUME NEW v \in Triager, Busy(v, j)' PROVE Relies(v, j)'
  <2>1. CASE Busy(v, j) /\ st'[v] = st[v] /\ cur'[v] = cur[v]
    BY <2>1 DEF IssueInv, Relies
  <2>2. CASE st'[v] \notin Relying
    BY <2>2 DEF Relies, Relying
  <2> QED
    BY <1>3, <2>1, <2>2
<1> QED
  BY <1>1, <1>2, <1>3 DEF IssueInv

(* Moving on within a task changes no place a task is in.                      *)
LEMMA Moves ==
    ASSUME SlotType, NEW w \in Worker, st[w] # "idle", NEW pc, pc # "idle", Goto(w, pc), UNCHANGED <<queue, task>>,
           NEW i \in Issue
    PROVE  /\ \A v \in Worker : Busy(v, i)' <=> Busy(v, i)
           /\ HasFix(i)' <=> HasFix(i)
           /\ Lone(i) => Lone(i)'
<1>1. \A v \in Worker : Busy(v, i)' <=> Busy(v, i)
  BY DEF Busy, IssueOf, Goto, SlotType
<1>2. \A k \in Kind : Queued(k, i)' <=> Queued(k, i)
  BY DEF Queued
<1>3. \A v \in Fixer : Busy(v, i)' <=> Busy(v, i)
  BY <1>1, Names
<1> QED
  BY <1>1, <1>2, <1>3, Names DEF HasFix, Lone

(* The end of a task takes it out of its slot.                                 *)
LEMMA Ends ==
    ASSUME SlotType, NEW w \in Worker, AtEnd(w), NEW i \in Issue
    PROVE  /\ \A v \in Worker : Busy(v, i)' <=> v # w /\ Busy(v, i)
           /\ \A v \in Worker : v # w => st'[v] = st[v] /\ cur'[v] = cur[v] /\ task'[v] = task[v] /\ requeue'[v] = requeue[v]
           /\ UNCHANGED queue => (HasFix(i)' => HasFix(i)) /\ (Lone(i) => Lone(i)')
<1>1. /\ \A v \in Worker : v # w => st'[v] = st[v] /\ cur'[v] = cur[v] /\ task'[v] = task[v] /\ requeue'[v] = requeue[v]
      /\ st'[w] = "idle"
  BY DEF AtEnd, Goto, SlotType
<1>2. \A v \in Worker : Busy(v, i)' <=> v # w /\ Busy(v, i)
  BY <1>1 DEF Busy, IssueOf
<1>3. \A v \in Fixer : Busy(v, i)' => Busy(v, i)
  BY <1>2, Names
<1>4. UNCHANGED queue => (HasFix(i)' => HasFix(i)) /\ (Lone(i) => Lone(i)')
  <2> SUFFICES ASSUME UNCHANGED queue PROVE (HasFix(i)' => HasFix(i)) /\ (Lone(i) => Lone(i)')
    OBVIOUS
  <2>1. \A k \in Kind : Queued(k, i)' <=> Queued(k, i)
    BY DEF Queued
  <2> QED
    BY <1>3, <2>1, Names DEF HasFix, Lone
<1> QED
  BY <1>1, <1>2, <1>4

(* A task pushed back to its queue takes the place the slot had.               *)
LEMMA Returns ==
    ASSUME Typed, NEW j \in Issue, NEW w \in Worker, Busy(w, j), AtEnd(w), NEW t \in Task, t.issue = j,
           Push(KindOf(w), t), Lone(j)
    PROVE  (HasFix(j)' => HasFix(j)) /\ Lone(j)'
<1>0. SlotType /\ queue \in [Kind -> [Task -> Nat]]
  BY DEF Typed, RedisType
<1>1. \A v \in Worker : Busy(v, j)' <=> v # w /\ Busy(v, j)
  BY <1>0, Ends
<1>2. CASE w \in Triager
  <2>1. queue'["fix"] = queue["fix"]
    BY <1>0, <1>2, Names DEF Push
  <2>2. Queued("fix", j)' <=> Queued("fix", j)
    BY <2>1 DEF Queued
  <2>3. \A v \in Fixer : Busy(v, j)' <=> Busy(v, j)
    BY <1>1, <1>2, Names
  <2> QED
    BY <2>1, <2>2, <2>3, Names DEF HasFix, Lone
<1>3. CASE w \in Fixer
  <2>1. \A u \in Task : u.issue = j => queue["fix"][u] = 0
    <3>1. ~Queued("fix", j)
      BY <1>3 DEF Lone
    <3>2. \A u \in Task : queue["fix"][u] \in Nat
      BY <1>0, Names
    <3> QED
      BY <3>1, <3>2 DEF Queued
  <2>2. \A u \in Task : queue'["fix"][u] = IF u = t THEN queue["fix"][u] + 1 ELSE queue["fix"][u]
    BY <1>0, <1>3, Names DEF Push
  <2>3. \A v \in Fixer : ~Busy(v, j)'
    BY <1>1, <1>3, Names DEF Lone
  <2>4. (\A u, v \in Task : u.issue = j /\ v.issue = j /\ queue["fix"][u] > 0 /\ queue["fix"][v] > 0 => u = v)'
    BY <2>1, <2>2
  <2>5. (\A u \in Task : u.issue = j => queue["fix"][u] <= 1)'
    BY <2>1, <2>2
  <2>6. HasFix(j)
    BY <1>3 DEF HasFix
  <2> QED
    BY <2>3, <2>4, <2>5, <2>6 DEF Lone
<1> QED
  BY <1>2, <1>3 DEF Worker

(* The slots that do not move keep what they have, whoever takes or leaves a   *)
(* lock.                                                                       *)
LEMMA SlotsKept ==
    ASSUME Typed, SlotInv, NEW w \in Worker,
           \A v \in Worker : v # w => st'[v] = st[v] /\ task'[v] = task[v] /\ requeue'[v] = requeue[v],
           \/ UNCHANGED lock
           \/ /\ st[w] # "idle" /\ lock[KindOf(w)][IssueOf(w)] \in {w, NoWorker}
              /\ \E h : lock' = [lock EXCEPT ![KindOf(w)][IssueOf(w)] = h],
           QueueInv', SlotOk(w)'
    PROVE  SlotInv'
<1> SUFFICES ASSUME NEW v \in Worker, v # w PROVE SlotOk(v)'
  BY DEF SlotInv
<1>1. SlotOk(v) /\ st'[v] = st[v] /\ task'[v] = task[v] /\ requeue'[v] = requeue[v] /\ IssueOf(v)' = IssueOf(v)
  BY DEF SlotInv, IssueOf
<1>2. st[v] \notin Outside => lock'[KindOf(v)][IssueOf(v)] = v
  <2> SUFFICES ASSUME st[v] \notin Outside PROVE lock'[KindOf(v)][IssueOf(v)] = v
    OBVIOUS
  <2>1. lock[KindOf(v)][IssueOf(v)] = v
    BY <1>1 DEF SlotOk
  <2>2. CASE UNCHANGED lock
    BY <2>1, <2>2
  <2>3. CASE /\ st[w] # "idle" /\ lock[KindOf(w)][IssueOf(w)] \in {w, NoWorker}
             /\ \E h : lock' = [lock EXCEPT ![KindOf(w)][IssueOf(w)] = h]
    <3>1. PICK h : lock' = [lock EXCEPT ![KindOf(w)][IssueOf(w)] = h]
      BY <2>3
    <3>2. /\ KindOf(v) \in Kind /\ KindOf(w) \in Kind
          /\ IssueOf(w) \in Issue /\ IssueOf(v) \in Issue
          /\ lock \in [Kind -> [Issue -> Worker \cup {NoWorker, "ghost"}]]
      BY <2>3, IssueType, Names DEF Typed, RedisType, Outside
    <3>3. ~(KindOf(v) = KindOf(w) /\ IssueOf(v) = IssueOf(w))
      BY <2>1, <2>3, Names
    <3> QED
      BY <2>1, <3>1, <3>2, <3>3
  <2> QED
    BY <2>2, <2>3
<1> QED
  BY <1>1, <1>2 DEF SlotOk

(* What a step leaves of another slot.                                         *)
Others(w) == \A v \in Worker : v # w => /\ st'[v] = st[v] /\ task'[v] = task[v]
                                        /\ cur'[v] = cur[v] /\ requeue'[v] = requeue[v]

(* A push of a task that is nobody's request.                                  *)
LEMMA PushOk ==
    ASSUME queue \in [Kind -> [Task -> Nat]], QueueInv, NEW k \in Kind, NEW t \in Task, ~t.user, Push(k, t)
    PROVE  QueueInv' /\ \A m \in Kind : \A u \in Task : u # t => queue'[m][u] = queue[m][u]
BY DEF QueueInv, Push

(* The end of a task leaves the slots in order.                                *)
LEMMA EndOk ==
    ASSUME SlotType, NEW w \in Worker, AtEnd(w)
    PROVE  SlotOk(w)' /\ Others(w) /\ st'[w] = "idle"
<1>1. st'[w] = "idle" /\ requeue'[w] = NoTask
  BY DEF SlotType, AtEnd, Goto
<1>2. Others(w)
  BY DEF SlotType, AtEnd, Goto, Others
<1> QED
  BY <1>1, <1>2 DEF SlotOk, Outside

(* So does a step within one.                                                  *)
LEMMA MoveOk ==
    ASSUME SlotType, NEW w \in Worker, SlotOk(w), st[w] \notin Outside \cup {"release"},
           NEW pc \in Positions \ (Outside \cup {"failed"}), Goto(w, pc),
           w \in Fixer => pc \notin {"read", "stamp", "label", "dispatch"}, w \in Triager => pc # "done",
           UNCHANGED <<task, requeue, lock>>
    PROVE  SlotOk(w)'
<1>1. st'[w] = pc /\ task'[w] = task[w] /\ requeue'[w] = requeue[w] /\ IssueOf(w)' = IssueOf(w)
  BY DEF Goto, SlotType, IssueOf
<1>2. requeue[w] = NoTask /\ ~task[w].user /\ lock[KindOf(w)][IssueOf(w)] = w
  BY DEF SlotOk, Outside
<1> QED
  BY <1>1, <1>2 DEF SlotOk, Outside

(* A failure goes on to the release, with the next attempt, or to giving up.   *)
LEMMA FailOk ==
    ASSUME Typed, NEW w \in Worker, SlotOk(w), st[w] \notin Outside \cup {"release"}, Fail(w), UNCHANGED <<task, lock>>
    PROVE  /\ SlotOk(w)'
           /\ \E pc \in {"release", "giveup"} : Goto(w, pc)
           /\ \A v \in Worker : v # w => requeue'[v] = requeue[v]
<1>0. SlotType /\ task[w] \in Task /\ ~task[w].user
  BY IssueType DEF Typed, SlotOk, Outside
<1>1. CASE task[w].attempts + 1 < MaxRetries
  <2> DEFINE t == [task[w] EXCEPT !.attempts = @ + 1]
  <2>1. Goto(w, "release") /\ requeue' = [requeue EXCEPT ![w] = t]
    BY <1>1 DEF Fail
  <2>2. t.issue = IssueOf(w) /\ t.user = task[w].user
    BY <1>0 DEF Task, IssueOf
  <2> HIDE DEF t
  <2>3. st'[w] = "release" /\ requeue'[w] = t /\ task'[w] = task[w] /\ IssueOf(w)' = IssueOf(w)
    BY <1>0, <2>1 DEF Goto, SlotType, IssueOf
  <2>4. lock'[KindOf(w)][IssueOf(w)] = w
    BY DEF SlotOk, Outside
  <2>5. SlotOk(w)'
    BY <1>0, <2>2, <2>3, <2>4 DEF SlotOk, Outside
  <2> QED
    BY <1>0, <2>1, <2>5 DEF SlotType
<1>2. CASE ~(task[w].attempts + 1 < MaxRetries)
  <2>1. Goto(w, "giveup") /\ UNCHANGED requeue
    BY <1>2 DEF Fail
  <2>2. SlotOk(w)'
    BY <1>0, <2>1, MoveOk DEF Positions, Outside
  <2> QED
    BY <2>1, <2>2
<1> QED
  BY <1>1, <1>2

(* A worker inside its lock may write the labels of its issue, if what it and  *)
(* the fix tasks need of them is kept.                                         *)
LEMMA LabelStep ==
    ASSUME Typed, RoutingInv, NEW w \in Worker, NEW j \in Issue, IssueOf(w) = j, st[w] \notin Outside,
           NEW pc, pc \notin {"idle", "lock"}, Goto(w, pc), Others(w), UNCHANGED <<queue, lock, fet, task>>,
           \A i \in Issue : i # j => labels'[i] = labels[i],
           aged' \subseteq aged,
           labels'[j] \in Shapes \ {{"retry"}},
           HasFix(j) => labels'[j] \in Resting \cup {{"triaged"}},
           w \in Triager => /\ pc \in Relying => ~HasFix(j)
                            /\ pc = "stamp" => labels'[j] = cur'[w] /\ cur'[w] \in {{}, {"in_progress"}}
                            /\ pc \in {"run", "label"} => labels'[j] = {"in_progress"}
                            /\ pc = "dispatch" => labels'[j] \in {{"triaged"}, {"outcome"}}
                            /\ pc = "giveup" => labels'[j] \in {{}, {"in_progress"}},
           SlotOk(w)'
    PROVE  RoutingInv'
<1>0. /\ SlotInv /\ IssueInv(j) /\ SlotType /\ st[w] # "idle"
      /\ Busy(w, j) /\ Carried(j) /\ j \notin aged
  BY AtWork DEF RoutingInv, Typed, Outside
<1>1. st'[w] = pc /\ \A v \in Worker : v # w => st'[v] = st[v] /\ task'[v] = task[v] /\ cur'[v] = cur[v] /\ requeue'[v] = requeue[v]
  BY <1>0 DEF Goto, SlotType, Others
<1>2. /\ \A v \in Worker : Busy(v, j)' <=> Busy(v, j)
      /\ HasFix(j)' <=> HasFix(j)
      /\ Lone(j)'
  BY <1>0, Moves DEF IssueInv
<1>3. "retry" \notin labels'[j]
  BY ShapeFacts
<1>4. ASSUME NEW v \in Triager, Busy(v, j)' PROVE Relies(v, j)'
  <2>1. CASE v # w
    <3>1. st[v] \notin Relying
      BY <1>0, <1>2, <1>4, <2>1, OneAtWork, Names
    <3>2. st'[v] \notin Relying
      BY <1>1, <2>1, <3>1, Names
    <3> QED
      BY <3>2 DEF Relies, Relying
  <2>2. CASE v = w
    BY <1>1, <1>2, <2>2 DEF Relies
  <2> QED
    BY <2>1, <2>2
<1>5. IssueInv(j)'
  BY <1>0, <1>2, <1>3, <1>4 DEF IssueInv
<1>6. SlotInv'
  <2>1. QueueInv'
    BY <1>0 DEF SlotInv, QueueInv
  <2> QED
    BY <1>0, <1>1, <2>1, SlotsKept
<1>7. IssueOf(w)' = j
  BY DEF IssueOf
<1> QED
  BY <1>0, <1>1, <1>3, <1>5, <1>6, <1>7, WorkerStep

(* A worker may move its task, if the issue has no more fix tasks than before  *)
(* and no triage agent relies on it.                                           *)
LEMMA PlaceStep ==
    ASSUME Typed, RoutingInv, NEW w \in Worker, NEW j \in Issue, Carried(j), UNCHANGED <<jira, fet>>,
           st[w] # "idle" => IssueOf(w) = j, st'[w] # "idle" => IssueOf(w)' = j,
           Others(w), w \in Triager => st'[w] \notin Relying,
           \A k \in Kind : \A t \in Task : t.issue # j => queue'[k][t] = queue[k][t],
           HasFix(j)' => HasFix(j), Lone(j)', SlotInv'
    PROVE  RoutingInv'
<1>1. IssueInv(j) /\ labels' = labels /\ aged' = aged
  BY DEF RoutingInv, jira
<1>2. \A v \in Worker : v # w => st'[v] = st[v] /\ task'[v] = task[v] /\ cur'[v] = cur[v]
  BY DEF Others
<1>3. \A v \in Triager : Busy(v, j)' =>
          (Busy(v, j) /\ st'[v] = st[v] /\ cur'[v] = cur[v]) \/ st'[v] \notin Relying
  BY <1>2, Names DEF Busy, IssueOf
<1>4. IssueInv(j)' /\ "retry" \notin labels'[j] /\ j \notin aged'
  BY <1>1, <1>3, LabelsStay
<1> QED
  BY <1>1, <1>2, <1>4, WorkerStep

(* Taking a task from its queue keeps the invariant: the place of a fix task   *)
(* goes to the slot.                                                           *)
LEMMA TakeRouting ==
    ASSUME Typed, RoutingInv, NEW w \in Worker, Take(w)
    PROVE  RoutingInv'
<1>0. /\ SlotInv /\ SlotOk(w) /\ SlotType /\ KindOf(w) \in Kind
      /\ queue \in [Kind -> [Task -> Nat]]
      /\ QueueInv /\ \A i \in Issue : Lone(i)
  BY Names DEF RoutingInv, SlotInv, Typed, RedisType, IssueInv
<1>1. PICK t \in Task : /\ queue[KindOf(w)][t] > 0
                       /\ queue' = [queue EXCEPT ![KindOf(w)][t] = @ - 1]
                       /\ task' = [task EXCEPT ![w] = t]
  BY DEF Take
<1> DEFINE j == t.issue
<1>2. st[w] = "idle" /\ Goto(w, "lock") /\ UNCHANGED <<jira, parked, lock, fet, cur, res, requeue, bounds>>
  BY DEF Take
<1>3. j \in Issue /\ ~t.user /\ Carried(j)
  BY <1>0, <1>1 DEF Task, QueueInv, Carried, Queued
<1>4. st'[w] = "lock" /\ task'[w] = t /\ IssueOf(w)' = j /\ requeue'[w] = NoTask
  BY <1>0, <1>1, <1>2 DEF Goto, SlotType, IssueOf, SlotOk
<1>5. Others(w)
  BY <1>0, <1>1, <1>2 DEF Others, Goto, SlotType
<1>6. \A k \in Kind : \A u \in Task :
          queue'[k][u] = IF k = KindOf(w) /\ u = t THEN queue[k][u] - 1 ELSE queue[k][u]
  BY <1>0, <1>1
<1>7. SlotInv'
  <2>1. QueueInv'
    BY <1>0, <1>6 DEF QueueInv
  <2>2. SlotOk(w)'
    BY <1>3, <1>4 DEF SlotOk, Outside
  <2> QED
    BY <1>0, <1>2, <1>5, <2>1, <2>2, SlotsKept DEF Others
<1>8. \A v \in Worker : Busy(v, j)' <=> v = w \/ Busy(v, j)
  BY <1>4, <1>5 DEF Busy, Others, IssueOf
<1>9. (HasFix(j)' => HasFix(j)) /\ Lone(j)'
  <2>1. CASE w \in Triager
    <3>1. \A u \in Task : queue'["fix"][u] = queue["fix"][u]
      BY <1>6, <2>1, Names
    <3>2. \A v \in Fixer : Busy(v, j)' <=> Busy(v, j)
      BY <1>8, <2>1, Names
    <3>3. Queued("fix", j)' <=> Queued("fix", j)
      BY <3>1 DEF Queued
    <3> QED
      BY <1>0, <1>3, <3>1, <3>2, <3>3 DEF HasFix, Lone
  <2>2. CASE w \in Fixer
    <3>1. \A u \in Task : queue'["fix"][u] = IF u = t THEN queue["fix"][u] - 1 ELSE queue["fix"][u]
      BY <1>6, <2>2, Names
    <3>2. HasFix(j) /\ \A v \in Fixer : ~Busy(v, j)
      BY <1>0, <1>1, <1>3, <2>2, Names DEF Lone, HasFix, Queued
    <3>3. \A u \in Task : u.issue = j => queue["fix"][u] \in Nat /\ queue["fix"][u] <= 1 /\ (u # t => queue["fix"][u] = 0)
      BY <1>0, <1>1, <1>3, <2>2, Names DEF Lone
    <3>4. \A u \in Task : u.issue = j => queue'["fix"][u] = 0
      BY <3>1, <3>3, <1>1, <2>2, Names
    <3>5. \A v \in Fixer : Busy(v, j)' => v = w
      BY <1>8, <3>2, Names
    <3>6. ~Queued("fix", j)'
      BY <3>4 DEF Queued
    <3>7. (\A u \in Task : u.issue = j => queue["fix"][u] <= 1)'
      BY <3>4
    <3>8. (\A u, v \in Task : u.issue = j /\ v.issue = j /\ queue["fix"][u] > 0 /\ queue["fix"][v] > 0 => u = v)'
      BY <3>4
    <3> QED
      BY <3>2, <3>5, <3>6, <3>7, <3>8 DEF Lone
  <2> QED
    BY <2>1, <2>2 DEF Worker
<1>10. \A k \in Kind : \A u \in Task : u.issue # j => queue'[k][u] = queue[k][u]
  BY <1>6
<1> QED
  BY <1>2, <1>3, <1>4, <1>5, <1>7, <1>9, <1>10, PlaceStep DEF Relying

(* The other steps of the queue and the lock keep the invariant.               *)
LEMMA QueueRouting ==
    ASSUME Typed, RoutingInv, NEW w \in Worker, NEW j \in Issue, IssueOf(w) = j, st[w] # "idle",
           \/ Acquire(w) \/ DropDuplicate(w) \/ Release(w) \/ Requeue(w) \/ Stop(w) \/ Crash(w)
    PROVE  RoutingInv'
<1> DEFINE k == KindOf(w)
<1>0. /\ SlotInv /\ SlotOk(w) /\ SlotType /\ k \in Kind
      /\ queue \in [Kind -> [Task -> Nat]]
      /\ lock \in [Kind -> [Issue -> Worker \cup {NoWorker, "ghost"}]]
      /\ QueueInv /\ task[w] \in Task /\ task[w].issue = j /\ ~task[w].user
      /\ Busy(w, j) /\ Carried(j) /\ Lone(j)
  BY Names, IssueType DEF RoutingInv, SlotInv, Typed, RedisType, IssueInv, SlotOk, Busy, Carried, IssueOf
<1>1. CASE Acquire(w)
  <2>1. /\ st[w] = "lock" /\ lock[k][j] = NoWorker /\ lock' = [lock EXCEPT ![k][j] = w]
        /\ UNCHANGED <<jira, parked, queue, fet, task, cur, res, requeue, bounds>>
    BY <1>1 DEF Acquire
  <2>2. PICK pc \in {"read", "run"} : Goto(w, pc) /\ (w \in Triager => pc = "read") /\ (w \in Fixer => pc = "run")
    BY <1>1, Names DEF Acquire
  <2>3. st'[w] = pc /\ requeue'[w] = NoTask /\ task'[w] = task[w] /\ IssueOf(w)' = j
    BY <1>0, <2>1, <2>2 DEF Goto, SlotType, SlotOk, IssueOf
  <2>4. Others(w)
    BY <1>0, <2>1, <2>2 DEF Others, Goto, SlotType
  <2>5. lock'[k][j] = w
    BY <1>0, <2>1
  <2>6. SlotInv'
    <3>1. QueueInv'
      BY <1>0, <2>1 DEF QueueInv
    <3>2. SlotOk(w)'
      BY <1>0, <2>2, <2>3, <2>5, Names DEF SlotOk, Outside
    <3> QED
      BY <1>0, <2>1, <2>4, <3>1, <3>2, SlotsKept DEF Others
  <2>7. (HasFix(j)' <=> HasFix(j)) /\ Lone(j)'
    BY <1>0, <2>1, <2>2, Moves
  <2> QED
    BY <1>0, <2>1, <2>2, <2>3, <2>4, <2>6, <2>7, PlaceStep DEF Relying
<1>2. ASSUME DropDuplicate(w) \/ (Release(w) /\ AtEnd(w)) \/ Crash(w) PROVE RoutingInv'
  <2>1. AtEnd(w) /\ UNCHANGED <<jira, queue, fet>>
    BY <1>2 DEF DropDuplicate, Release, Crash, redis
  <2>2. UNCHANGED lock \/ (lock[k][j] = w /\ \E h : lock' = [lock EXCEPT ![k][j] = h])
    BY <1>2 DEF DropDuplicate, Release, Crash, redis, Unlocked
  <2>3. SlotOk(w)' /\ Others(w) /\ st'[w] = "idle"
    BY <1>0, <2>1, EndOk
  <2>4. SlotInv'
    <3>1. QueueInv'
      BY <1>0, <2>1 DEF QueueInv
    <3> QED
      BY <1>0, <2>2, <2>3, <3>1, SlotsKept DEF Others
  <2>5. (HasFix(j)' => HasFix(j)) /\ Lone(j)'
    BY <1>0, <2>1, Ends
  <2> QED
    BY <1>0, <2>1, <2>3, <2>4, <2>5, PlaceStep DEF Relying
<1>3. ASSUME Release(w), ~AtEnd(w) PROVE RoutingInv'
  <2>1. /\ st[w] = "release" /\ requeue[w] # NoTask /\ Goto(w, "requeue") /\ lock' = Unlocked(w)
        /\ UNCHANGED <<jira, parked, queue, fet, bounds, task, cur, res, requeue>>
    BY <1>3 DEF Release
  <2>2. st'[w] = "requeue" /\ requeue'[w] = requeue[w] /\ task'[w] = task[w] /\ IssueOf(w)' = j
    BY <1>0, <2>1 DEF Goto, SlotType, IssueOf
  <2>3. Others(w)
    BY <1>0, <2>1 DEF Others, Goto, SlotType
  <2>4. UNCHANGED lock \/ (lock[k][j] = w /\ \E h : lock' = [lock EXCEPT ![k][j] = h])
    BY <2>1 DEF Unlocked
  <2>5. SlotInv'
    <3>1. QueueInv'
      BY <1>0, <2>1 DEF QueueInv
    <3>2. SlotOk(w)'
      BY <1>0, <2>1, <2>2 DEF SlotOk, Outside
    <3> QED
      BY <1>0, <2>3, <2>4, <3>1, <3>2, SlotsKept DEF Others
  <2>6. (HasFix(j)' <=> HasFix(j)) /\ Lone(j)'
    BY <1>0, <2>1, Moves
  <2> QED
    BY <1>0, <2>1, <2>2, <2>3, <2>5, <2>6, PlaceStep DEF Relying
<1>4. ASSUME Requeue(w) \/ Stop(w) PROVE RoutingInv'
  <2>1. AtEnd(w) /\ UNCHANGED <<jira, fet>>
    BY <1>4 DEF Requeue, Stop
  <2>2. PICK t \in Task : Push(k, t) /\ t.issue = j /\ ~t.user
    <3>1. CASE Requeue(w)
      <4>1. Push(k, requeue[w]) /\ st[w] = "requeue"
        BY <3>1 DEF Requeue
      <4>2. requeue[w] \in Task /\ requeue[w].issue = j /\ ~requeue[w].user
        BY <1>0, <4>1 DEF SlotOk, SlotType
      <4> QED
        BY <4>1, <4>2
    <3>2. CASE Stop(w)
      BY <1>0, <3>2 DEF Stop
    <3> QED
      BY <1>4, <3>1, <3>2
  <2>3. UNCHANGED lock \/ (lock[k][j] = w /\ \E h : lock' = [lock EXCEPT ![k][j] = h])
    BY <1>4 DEF Requeue, Stop, Unlocked
  <2>4. SlotOk(w)' /\ Others(w) /\ st'[w] = "idle"
    BY <1>0, <2>1, EndOk
  <2>5. QueueInv' /\ \A m \in Kind : \A u \in Task : u # t => queue'[m][u] = queue[m][u]
    BY <1>0, <2>2, PushOk
  <2>6. SlotInv'
    BY <1>0, <2>3, <2>4, <2>5, SlotsKept DEF Others
  <2>7. (HasFix(j)' => HasFix(j)) /\ Lone(j)'
    BY <1>0, <2>1, <2>2, Returns
  <2>8. \A m \in Kind : \A u \in Task : u.issue # j => queue'[m][u] = queue[m][u]
    BY <2>2, <2>5
  <2> QED
    BY <1>0, <2>1, <2>4, <2>6, <2>7, <2>8, PlaceStep DEF Relying
<1> QED
  BY <1>1, <1>2, <1>3, <1>4

(* A label edit, and one that may fail, touch one issue.                       *)
LEMMA EditFrame ==
    ASSUME JiraType, NEW j \in Issue, NEW remove, NEW add, Edit(j, remove, add)
    PROVE  /\ labels'[j] = (labels[j] \ remove) \cup add
           /\ \A i \in Issue : i # j => labels'[i] = labels[i]
           /\ aged' \subseteq aged
BY DEF JiraType, Edit

(* The steps of the agents inside their locks keep the invariant.              *)
LEMMA AgentRouting ==
    ASSUME Typed, RoutingInv, Setting, NEW w \in Worker, NEW j \in Issue, IssueOf(w) = j, st[w] # "idle",
           \/ GiveUp(w) \/ PushError(w) \/ Clear(w) \/ AgentStep(w), ~Dispatch(w)
    PROVE  RoutingInv'
<1>0. /\ SlotInv /\ SlotOk(w) /\ SlotType /\ JiraType /\ IssueInv(j) /\ Typed
      /\ task[w] \in Task /\ ~task[w].user /\ Busy(w, j) /\ Carried(j) /\ Lone(j) /\ j \notin aged
      /\ "retry" \notin labels[j] /\ labels[j] \in Shapes /\ labels[j] \in Shapes \ {{"retry"}}
      /\ HasFix(j) => labels[j] \in Resting \cup {{"triaged"}}
      /\ w \in Triager => Relies(w, j)
      /\ w \in Fixer => HasFix(j)
  <2>1. SlotInv /\ SlotOk(w) /\ SlotType /\ JiraType /\ IssueInv(j)
    BY DEF RoutingInv, SlotInv, Typed
  <2>2. Busy(w, j) /\ Carried(j) /\ "retry" \notin labels[j] /\ j \notin aged /\ (w \in Triager => Relies(w, j))
        /\ (w \in Fixer => HasFix(j))
    BY <2>1, AtWork
  <2>3. task[w] \in Task /\ ~task[w].user
    BY <2>1, IssueType DEF Typed, SlotOk
  <2> QED
    BY <2>1, <2>2, <2>3 DEF IssueInv
<1>1. CASE GiveUp(w)
  <2>1. /\ st[w] = "giveup" /\ Goto(w, "error")
        /\ BestEffort(w, IF w \in Triager THEN {"in_progress", "manual"} ELSE {"triaged"}, {"errored"})
        /\ UNCHANGED <<redis, fet, task, cur, res, requeue, triggers>>
    BY <1>1 DEF GiveUp
  <2>2. Others(w) /\ UNCHANGED <<queue, lock, fet, task>>
    BY <1>0, <2>1 DEF Others, Goto, SlotType, redis
  <2>3. SlotOk(w)'
    BY <1>0, <2>1, <2>2, MoveOk DEF Positions, Outside
  <2>4. w \in Triager => ~HasFix(j) /\ labels[j] \in {{}, {"in_progress"}}
    BY <1>0, <2>1 DEF Relies, Relying
  <2>5. /\ \A i \in Issue : i # j => labels'[i] = labels[i]
        /\ aged' \subseteq aged
        /\ labels'[j] \in Shapes \ {{"retry"}}
        /\ HasFix(j) => labels'[j] \in Resting \cup {{"triaged"}}
    <3>1. CASE UNCHANGED jira
      BY <1>0, <3>1 DEF jira
    <3>2. CASE Edit(j, IF w \in Triager THEN {"in_progress", "manual"} ELSE {"triaged"}, {"errored"})
      <4>1. /\ labels'[j] = (labels[j] \ (IF w \in Triager THEN {"in_progress", "manual"} ELSE {"triaged"})) \cup {"errored"}
            /\ \A i \in Issue : i # j => labels'[i] = labels[i]
            /\ aged' \subseteq aged
        BY <1>0, <3>2, EditFrame
      <4>2. labels'[j] \in Resting
        <5>1. CASE w \in Triager
          <6>1. labels'[j] = {"errored"}
            BY <2>4, <4>1, <5>1
          <6> QED
            BY <6>1 DEF Resting
        <5>2. CASE w \notin Triager
          <6>1. labels[j] \in Resting \cup {{"triaged"}}
            BY <1>0, <5>2, Names
          <6>2. labels'[j] = (labels[j] \ {"triaged"}) \cup {"errored"}
            BY <4>1, <5>2
          <6>3. labels'[j] = {"errored"} \/ labels'[j] = {"outcome", "errored"}
            BY <6>1, <6>2 DEF Resting
          <6> QED
            BY <6>3 DEF Resting
        <5> QED
          BY <5>1, <5>2
      <4> QED
        BY <4>1, <4>2, ShapeFacts
    <3> QED
      BY <2>1, <3>1, <3>2 DEF BestEffort
  <2> QED
    BY <1>0, <2>1, <2>2, <2>3, <2>4, <2>5, LabelStep DEF Outside
<1>2. CASE PushError(w) \/ Clear(w) \/ TerminalLabelFails(w)
  <2>1. /\ st[w] \in {"error", "clear", "label"} /\ Goto(w, "release")
        /\ UNCHANGED <<jira, queue, lock, fet, task, cur, res, requeue>>
    BY <1>2 DEF PushError, Clear, TerminalLabelFails, redis
  <2>2. Others(w)
    BY <1>0, <2>1 DEF Others, Goto, SlotType
  <2>3. SlotOk(w)'
    BY <1>0, <2>1, MoveOk DEF Positions, Outside
  <2> QED
    BY <1>0, <2>1, <2>2, <2>3, LabelStep DEF Outside, Relying, jira
<1>3. CASE ReadIssue(w)
  <2>1. /\ w \in Triager /\ st[w] = "read" /\ cur' = [cur EXCEPT ![w] = labels[j]]
        /\ Goto(w, IF Duplicate(w, labels[j]) THEN "release" ELSE "stamp")
        /\ UNCHANGED <<jira, redis, fet, task, res, requeue, triggers>>
    BY <1>3 DEF ReadIssue, Proceed
  <2>2. Others(w) /\ cur'[w] = labels[j]
    BY <1>0, <2>1 DEF Others, Goto, SlotType
  <2>3. PICK pc \in {"release", "stamp"} : Goto(w, pc) /\ (pc = "stamp" => ~Duplicate(w, labels[j]))
    BY <2>1
  <2>4. SlotOk(w)'
    BY <1>0, <2>1, <2>3, Names, MoveOk DEF Positions, Outside, redis
  <2>5. ~Duplicate(w, labels[j]) => labels[j] \in {{}, {"in_progress"}}
    BY <1>0 DEF Duplicate, Shapes, Resting, Terminal, Label, InFlight
  <2>6. ~Duplicate(w, labels[j]) => ~HasFix(j)
    BY <1>0, <2>5 DEF Resting
  <2> QED
    BY <1>0, <2>1, <2>2, <2>3, <2>4, <2>5, <2>6, LabelStep DEF Outside, Relying, jira, redis
<1>4. CASE SkipClosed(w)
  <2>1. /\ st[w] = "read" /\ Goto(w, "release") /\ UNCHANGED <<jira, redis, fet, task, cur, res, requeue>>
    BY <1>0, <1>4 DEF SkipClosed
  <2>2. Others(w)
    BY <1>0, <2>1 DEF Others, Goto, SlotType
  <2>3. SlotOk(w)'
    BY <1>0, <2>1, MoveOk DEF Positions, Outside, redis
  <2> QED
    BY <1>0, <2>1, <2>2, <2>3, LabelStep DEF Outside, Relying, jira, redis
<1>5. CASE Stamp(w)
  <2>1. /\ w \in Triager /\ st[w] = "stamp" /\ Goto(w, "run") /\ cur' = [cur EXCEPT ![w] = {}]
        /\ Edit(j, cur[w] \ {"in_progress"}, {"in_progress"})
        /\ UNCHANGED <<redis, fet, task, res, requeue, bounds>>
    BY <1>5 DEF Stamp
  <2>2. Others(w)
    BY <1>0, <2>1 DEF Others, Goto, SlotType
  <2>3. SlotOk(w)'
    BY <1>0, <2>1, Names, MoveOk DEF Positions, Outside, redis
  <2>4. ~HasFix(j) /\ labels[j] = cur[w]
    BY <1>0, <2>1 DEF Relies, Relying
  <2>5. /\ labels'[j] = {"in_progress"}
        /\ \A i \in Issue : i # j => labels'[i] = labels[i]
        /\ aged' \subseteq aged
    BY <1>0, <2>1, <2>4, EditFrame
  <2>6. {"in_progress"} \in Shapes \ {{"retry"}}
    BY DEF Shapes
  <2> QED
    BY <1>0, <2>1, <2>2, <2>3, <2>4, <2>5, <2>6, LabelStep DEF Outside, redis
<1>6. CASE StampFails(w) \/ TriageFails(w)
  <2>1. /\ w \in Triager /\ st[w] \in {"stamp", "run"} /\ Fail(w)
        /\ UNCHANGED <<jira, redis, fet, task, cur, res>>
    BY <1>6 DEF StampFails, TriageFails
  <2>2. /\ SlotOk(w)'
        /\ \E pc \in {"release", "giveup"} : Goto(w, pc)
        /\ \A v \in Worker : v # w => requeue'[v] = requeue[v]
    BY <1>0, <2>1, FailOk DEF Outside, redis
  <2>3. PICK pc \in {"release", "giveup"} : Goto(w, pc)
    BY <2>2
  <2>4. Others(w)
    BY <1>0, <2>1, <2>2, <2>3 DEF Others, Goto, SlotType
  <2>5. ~HasFix(j) /\ labels[j] \in {{}, {"in_progress"}}
    BY <1>0, <2>1 DEF Relies, Relying
  <2> QED
    BY <1>0, <2>1, <2>2, <2>3, <2>4, <2>5, LabelStep DEF Outside, redis, jira
<1>7. ASSUME NEW r \in Resolutions, Triage(w, r) PROVE RoutingInv'
  <2>1. /\ w \in Triager /\ st[w] = "run"
        /\ UNCHANGED <<redis, fet, task, cur, requeue>>
    BY <1>7 DEF Triage
  <2>2. ~HasFix(j) /\ labels[j] = {"in_progress"}
    BY <1>0, <2>1 DEF Relies, Relying
  <2>3. CASE r = "hold"
    <3>1. Edit(j, {"in_progress"}, {"triaged", "manual"}) /\ Goto(w, "clear")
      BY <1>7, <2>3 DEF Triage
    <3>2. Others(w)
      BY <1>0, <2>1, <3>1 DEF Others, Goto, SlotType
    <3>3. SlotOk(w)'
      BY <1>0, <2>1, <3>1, Names, MoveOk DEF Positions, Outside, redis
    <3>4. /\ labels'[j] = {"triaged", "manual"}
          /\ \A i \in Issue : i # j => labels'[i] = labels[i]
          /\ aged' \subseteq aged
      BY <1>0, <2>2, <3>1, EditFrame
    <3>5. {"triaged", "manual"} \in Shapes \ {{"retry"}}
      BY DEF Shapes
    <3> QED
      BY <1>0, <2>1, <2>2, <3>1, <3>2, <3>3, <3>4, <3>5, LabelStep DEF Outside, Relying, redis
  <2>4. CASE r # "hold"
    <3>1. UNCHANGED jira /\ Goto(w, "label")
      BY <1>7, <2>4 DEF Triage
    <3>2. Others(w)
      BY <1>0, <2>1, <3>1 DEF Others, Goto, SlotType
    <3>3. SlotOk(w)'
      BY <1>0, <2>1, <3>1, Names, MoveOk DEF Positions, Outside, redis
    <3> QED
      BY <1>0, <2>1, <2>2, <3>1, <3>2, <3>3, LabelStep DEF Outside, Relying, jira, redis
  <2> QED
    BY <2>3, <2>4
<1>8. CASE TerminalLabel(w)
  <2>1. /\ st[w] = "label" /\ Goto(w, "dispatch") /\ UNCHANGED <<redis, fet, task, cur, res, requeue>>
    BY <1>8 DEF TerminalLabel
  <2>2. PICK remove \in {{"in_progress"}, {"in_progress", "manual"}}, l \in {"triaged", "outcome"} : Edit(j, remove, {l})
    BY <1>8 DEF TerminalLabel
  <2>3. w \in Triager
    BY <1>0, <2>1 DEF SlotOk, Worker
  <2>4. ~HasFix(j) /\ labels[j] = {"in_progress"}
    BY <1>0, <2>1, <2>3 DEF Relies, Relying
  <2>5. Others(w)
    BY <1>0, <2>1 DEF Others, Goto, SlotType
  <2>6. SlotOk(w)'
    BY <1>0, <2>1, <2>3, Names, MoveOk DEF Positions, Outside, redis
  <2>7. /\ labels'[j] = {l}
        /\ \A i \in Issue : i # j => labels'[i] = labels[i]
        /\ aged' \subseteq aged
    BY <1>0, <2>2, <2>4, EditFrame
  <2>8. {l} \in Shapes \ {{"retry"}}
    BY DEF Shapes, Resting
  <2> QED
    BY <1>0, <2>1, <2>3, <2>4, <2>5, <2>6, <2>7, <2>8, LabelStep DEF Outside, redis
<1>9. ASSUME NEW r \in FixOutcomes, Fix(w, r) PROVE RoutingInv'
  <2>1. /\ w \in Fixer /\ st[w] = "run" /\ UNCHANGED <<jira, redis, fet, task, cur, res>>
    BY <1>9 DEF Fix
  <2>2. PICK pc \in {"release", "done", "giveup"} :
            Goto(w, pc) /\ SlotOk(w)' /\ \A v \in Worker : v # w => requeue'[v] = requeue[v]
    <3>1. CASE r = "error"
      <4>1. Fail(w)
        BY <1>9, <3>1 DEF Fix
      <4> QED
        BY <1>0, <2>1, <4>1, FailOk DEF Outside, redis
    <3>2. CASE r # "error"
      <4>1. PICK pc \in {"done", "giveup"} : Goto(w, pc) /\ UNCHANGED requeue
        BY <1>9, <3>2, IssueRoutingAssumption DEF Fix, Setting
      <4>2. SlotOk(w)'
        BY <1>0, <2>1, <4>1, Names, MoveOk DEF Positions, Outside, redis
      <4> QED
        BY <4>1, <4>2
    <3> QED
      BY <3>1, <3>2
  <2>3. Others(w)
    BY <1>0, <2>1, <2>2 DEF Others, Goto, SlotType
  <2> QED
    BY <1>0, <2>1, <2>2, <2>3, Names, LabelStep DEF Outside, redis, jira
<1>10. CASE FixDone(w)
  <2>1. /\ st[w] = "done" /\ Goto(w, "clear") /\ BestEffort(w, {"triaged", "errored", "failed"}, {"outcome"})
        /\ UNCHANGED <<redis, fet, task, cur, res, requeue, triggers>>
    BY <1>10 DEF FixDone
  <2>2. w \in Fixer /\ w \notin Triager
    BY <1>0, <2>1, Names DEF SlotOk, Worker
  <2>3. Others(w)
    BY <1>0, <2>1 DEF Others, Goto, SlotType
  <2>4. SlotOk(w)'
    BY <1>0, <2>1, <2>2, MoveOk DEF Positions, Outside, redis
  <2>5. /\ \A i \in Issue : i # j => labels'[i] = labels[i]
        /\ aged' \subseteq aged
        /\ labels'[j] \in Resting \cup {{"triaged"}}
    <3>1. CASE UNCHANGED jira
      BY <1>0, <2>2, <3>1 DEF jira
    <3>2. CASE Edit(j, {"triaged", "errored", "failed"}, {"outcome"})
      <4>1. /\ labels'[j] = (labels[j] \ {"triaged", "errored", "failed"}) \cup {"outcome"}
            /\ \A i \in Issue : i # j => labels'[i] = labels[i]
            /\ aged' \subseteq aged
        BY <1>0, <3>2, EditFrame
      <4>2. labels'[j] = {"outcome"}
        BY <1>0, <2>2, <4>1 DEF Resting
      <4> QED
        BY <4>1, <4>2 DEF Resting
    <3> QED
      BY <2>1, <3>1, <3>2 DEF BestEffort
  <2>6. labels'[j] \in Shapes \ {{"retry"}}
    BY <2>5, ShapeFacts DEF Shapes
  <2> QED
    BY <1>0, <2>1, <2>2, <2>3, <2>4, <2>5, <2>6, LabelStep DEF Outside, redis
<1>11. ~FixFailed(w) /\ ~ReadFails(w)
  BY <1>0 DEF FixFailed, ReadFails, Fault, Setting, SlotOk
<1> QED
  BY <1>1, <1>2, <1>3, <1>4, <1>5, <1>6, <1>7, <1>8, <1>9, <1>10, <1>11 DEF AgentStep

(* Dispatching a fix keeps the invariant: the agent relied on there being none.*)
LEMMA DispatchRouting ==
    ASSUME Typed, RoutingInv, NEW w \in Worker, NEW j \in Issue, IssueOf(w) = j, Dispatch(w)
    PROVE  RoutingInv'
<1>1. /\ st[w] = "dispatch" /\ Goto(w, "clear") /\ UNCHANGED <<jira, lock, fet, task, cur, requeue>>
  BY DEF Dispatch
<1>2. /\ SlotInv /\ SlotOk(w) /\ SlotType /\ IssueInv(j) /\ QueueInv /\ st[w] # "idle"
      /\ queue \in [Kind -> [Task -> Nat]]
  BY <1>1 DEF RoutingInv, SlotInv, Typed, RedisType
<1>3. w \in Triager
  BY <1>1, <1>2 DEF SlotOk, Worker
<1>4. /\ Busy(w, j) /\ Carried(j) /\ "retry" \notin labels[j] /\ j \notin aged
      /\ ~HasFix(j) /\ labels[j] \in {{"triaged"}, {"outcome"}}
      /\ task[w] \in Task /\ ~task[w].user
  <2>1. Busy(w, j) /\ Carried(j) /\ "retry" \notin labels[j] /\ j \notin aged /\ Relies(w, j)
    BY <1>2, <1>3, AtWork
  <2>2. task[w] \in Task /\ ~task[w].user
    BY <1>2, IssueType DEF Typed, SlotOk
  <2> QED
    BY <1>1, <2>1, <2>2 DEF Relies, Relying
<1>5. Others(w) /\ st'[w] = "clear"
  BY <1>1, <1>2 DEF Others, Goto, SlotType
<1>6. SlotOk(w)'
  BY <1>1, <1>2, <1>3, Names, MoveOk DEF Positions, Outside
<1>7. CASE UNCHANGED queue
  <2>1. labels[j] \in Shapes \ {{"retry"}}
    BY <1>2, <1>4 DEF IssueInv
  <2> QED
    BY <1>1, <1>2, <1>3, <1>4, <1>5, <1>6, <1>7, <2>1, LabelStep DEF Outside, Relying, jira
<1>8. CASE Push("fix", [issue |-> j, user |-> task[w].user, attempts |-> 0])
  <2> DEFINE t == [issue |-> j, user |-> task[w].user, attempts |-> 0]
  <2>1. t \in Task /\ t.issue = j /\ ~t.user
    BY <1>4, IssueRoutingAssumption DEF Task
  <2> HIDE DEF t
  <2>2. Push("fix", t)
    BY <1>8 DEF t
  <2>3. QueueInv' /\ \A m \in Kind : \A u \in Task : u # t => queue'[m][u] = queue[m][u]
    BY <1>2, <2>1, <2>2, Names, PushOk
  <2>4. SlotInv'
    BY <1>1, <1>2, <1>5, <1>6, <2>3, SlotsKept DEF Others
  <2>5. \A v \in Worker : Busy(v, j)' <=> Busy(v, j)
    <3>1. task' = task /\ st' = [st EXCEPT ![w] = "clear"] /\ st \in [Worker -> Positions]
      BY <1>1, <1>2 DEF Goto, SlotType
    <3> QED
      BY <1>2, <3>1 DEF Busy, IssueOf
  <2>6. \A u \in Task : u.issue = j => queue["fix"][u] = 0
    <3>1. ~Queued("fix", j) /\ \A u \in Task : queue["fix"][u] \in Nat
      BY <1>2, <1>4, Names DEF HasFix
    <3> QED
      BY <3>1 DEF Queued
  <2>7. \A u \in Task : queue'["fix"][u] = IF u = t THEN queue["fix"][u] + 1 ELSE queue["fix"][u]
    BY <1>2, <2>1, <2>2, Names DEF Push
  <2>8. \A v \in Fixer : ~Busy(v, j)'
    BY <1>4, <2>5, Names DEF HasFix
  <2>9. Lone(j)'
    <3>1. (\A u, v \in Task : u.issue = j /\ v.issue = j /\ queue["fix"][u] > 0 /\ queue["fix"][v] > 0 => u = v)'
      BY <2>6, <2>7
    <3>2. (\A u \in Task : u.issue = j => queue["fix"][u] <= 1)'
      BY <2>6, <2>7
    <3> QED
      BY <2>8, <3>1, <3>2 DEF Lone
  <2>10. labels' = labels /\ aged' = aged
    BY <1>1 DEF jira
  <2>11. ASSUME NEW v \in Triager, Busy(v, j)' PROVE Relies(v, j)'
    <3>1. CASE v = w
      BY <1>5, <3>1 DEF Relies, Relying
    <3>2. CASE v # w
      <4>1. st[v] \notin Relying
        BY <1>1, <1>2, <2>5, <2>11, <3>2, Names, OneAtWork DEF Outside
      <4>2. st'[v] \notin Relying
        BY <1>5, <3>2, <4>1, Names DEF Others
      <4> QED
        BY <4>2 DEF Relies, Relying
    <3> QED
      BY <3>1, <3>2
  <2>12. labels'[j] \in Resting \cup {{"triaged"}}
    BY <1>4, <2>10 DEF Resting
  <2>13. IssueInv(j)'
    BY <1>2, <1>4, <2>9, <2>10, <2>11, <2>12 DEF IssueInv
  <2>14. \A m \in Kind : \A u \in Task : u.issue # j => queue'[m][u] = queue[m][u]
    BY <2>1, <2>3
  <2>15. IssueOf(w)' = j
    BY <1>1 DEF IssueOf
  <2>16. /\ UNCHANGED fet /\ \A i \in Issue : i # j => labels'[i] = labels[i]
         /\ \A v \in Worker : v # w => st'[v] = st[v] /\ task'[v] = task[v] /\ cur'[v] = cur[v]
    BY <1>1, <1>5, <2>10 DEF Others
  <2> QED
    BY <1>4, <2>4, <2>10, <2>13, <2>14, <2>15, <2>16, WorkerStep
<1> QED
  BY <1>7, <1>8 DEF Dispatch

(* What a step of a fetcher leaves alone of the other fetchers.                *)
OtherSweeps(f) == \A g \in Fetcher : g # f => fet'[g] = fet[g]

(* A fetcher touches no task in a slot.                                        *)
LEMMA FetcherSame ==
    ASSUME UNCHANGED slots, NEW i \in Issue, labels'[i] = labels[i], i \in aged' => i \in aged,
           \A k \in Kind : \A t \in Task : t.issue = i => queue'[k][t] = queue[k][t]
    PROVE  Same(i)
<1>1. \A w \in Worker : (Busy(w, i)' <=> Busy(w, i)) /\ st'[w] = st[w] /\ cur'[w] = cur[w]
  BY DEF slots, Busy, IssueOf
<1> QED
  BY <1>1 DEF Same

(* It carries no more issues, unless it is about to push one.                  *)
LEMMA FetcherCarries ==
    ASSUME NEW f \in Fetcher, OtherSweeps(f), NEW i \in Issue, Same(i),
           fet'[f].pc = "enqueue" /\ i \in fet'[f].unread => Carried(i)
    PROVE  Carried(i)' => Carried(i)
<1>1. \A k \in Kind : Queued(k, i)' <=> Queued(k, i)
  BY SamePlaces
<1>2. \A w \in Worker : (st[w] # "idle" /\ IssueOf(w) = i)' <=> (st[w] # "idle" /\ IssueOf(w) = i)
  BY DEF Same, Busy
<1>3. ASSUME NEW g \in Fetcher, fet'[g].pc = "enqueue" /\ i \in fet'[g].unread PROVE Carried(i)
  <2>1. CASE g = f
    BY <1>3, <2>1
  <2>2. CASE g # f
    BY <1>3, <2>2 DEF OtherSweeps, Carried
  <2> QED
    BY <2>1, <2>2
<1> QED
  BY <1>1, <1>2, <1>3 DEF Carried

(* A step of a fetcher that only changes its sweep.                            *)
LEMMA Quiet ==
    ASSUME RoutingInv, NEW f \in Fetcher, UNCHANGED <<jira, redis, slots>>, OtherSweeps(f), fet'[f].pc # "enqueue"
    PROVE  /\ SweepOk(f)' => RoutingInv'
           /\ \A i \in Issue : Carried(i)' => Carried(i)
<1>1. ASSUME NEW i \in Issue PROVE Same(i) /\ (Carried(i)' => Carried(i))
  <2>1. Same(i)
    BY FetcherSame DEF jira, redis
  <2> QED
    BY <2>1, FetcherCarries
<1>2. \A i \in Issue : IssueInv(i)'
  BY <1>1, SameIssue DEF RoutingInv
<1>3. SlotInv'
  BY DEF RoutingInv, SlotInv, QueueInv, SlotOk, redis, slots, IssueOf
<1>4. ASSUME NEW g \in Fetcher, g # f PROVE SweepOk(g)'
  <2>1. fet'[g] = fet[g] /\ SweepOk(g)
    BY <1>4 DEF OtherSweeps, RoutingInv, SweepInv
  <2>2. \A i \in Issue : Sees(g, i) => Sees(g, i)'
    <3> SUFFICES ASSUME NEW i \in Issue, Sees(g, i) PROVE Sees(g, i)'
      OBVIOUS
    <3>1. (Unmarked(g, i)' <=> Unmarked(g, i)) /\ (Unpushed(g, i)' <=> Unpushed(g, i))
      BY <2>1 DEF Unmarked, Unpushed
    <3> QED
      BY <1>1, <2>1, <3>1 DEF Sees, jira
  <2> QED
    BY <2>1, <2>2 DEF SweepOk
<1> QED
  BY <1>1, <1>2, <1>3, <1>4 DEF RoutingInv, SweepInv

(* A sweep at rest is in order.                                                *)
LEMMA IdleOk ==
    ASSUME NEW f \in Fetcher, fet'[f] = Idle
    PROVE  SweepOk(f)'
<1>1. /\ fet'[f].pc = "idle" /\ fet'[f].user = {} /\ fet'[f].found = {}
  BY DEF Idle
<1> QED
  BY <1>1 DEF SweepOk, Sees, Unmarked, Unpushed

(* The steps of a sweep that only read keep the invariant.                     *)
LEMMA ScanRouting ==
    ASSUME Typed, RoutingInv, NEW f \in Fetcher,
           \/ Search(f) \/ ReadDepth(f) \/ ReadQueue(f) \/ ReadQueueFails(f) \/ ReadLocks(f)
           \/ Marked(f) \/ EndSweep(f) \/ FetcherDies(f)
    PROVE  RoutingInv'
<1>0. /\ FetType /\ fet[f] \in Sweeping /\ SweepOk(f) /\ UNCHANGED <<jira, redis, slots>>
      /\ \A i \in Issue : IssueInv(i)
  BY DEF Typed, FetType, RoutingInv, SweepInv,
         Search, ReadDepth, ReadQueue, ReadQueueFails, ReadLocks, Marked, EndSweep, FetcherDies
<1> SUFFICES /\ OtherSweeps(f) /\ fet'[f].pc # "enqueue"
             /\ (\A i \in Issue : Carried(i)' => Carried(i)) => SweepOk(f)'
  BY <1>0, Quiet
<1>1. ASSUME fet' = [fet EXCEPT ![f] = Idle]
      PROVE  OtherSweeps(f) /\ fet'[f].pc # "enqueue" /\ SweepOk(f)'
  <2>1. fet'[f] = Idle /\ OtherSweeps(f) /\ Idle.pc = "idle"
    BY <1>0, <1>1 DEF FetType, OtherSweeps, Idle
  <2> QED
    BY <2>1, IdleOk
<1>2. CASE EndSweep(f) \/ FetcherDies(f)
  BY <1>1, <1>2 DEF EndSweep, FetcherDies
<1>3. CASE Search(f)
  <2> DEFINE found == IF f \in TodoFetcher THEN {i \in Issue : "todo" \in labels[i]} ELSE Issue
  <2>1. fet' = [fet EXCEPT ![f] = [Idle EXCEPT !.pc = "depth", !.seen = labels, !.stale = aged, !.found = found]]
    BY <1>3 DEF Search
  <2>2. OtherSweeps(f)
    BY <1>0, <2>1 DEF FetType, OtherSweeps
  <2>3. /\ fet'[f].pc = "depth" /\ fet'[f].seen = labels /\ fet'[f].stale = aged /\ fet'[f].found = found
        /\ fet'[f].user = {} /\ fet'[f].retry = {}
    BY <1>0, <2>1 DEF FetType, Idle
  <2>4. f \in TodoFetcher => found = {}
    BY <1>0, ShapeFacts DEF IssueInv
  <2>5. labels' = labels /\ aged' = aged
    BY <1>0 DEF jira
  <2>6. ASSUME NEW i \in Issue, Carried(i)' => Carried(i) PROVE Sees(f, i)'
    <3>1. ~Unpushed(f, i)'
      BY <2>3 DEF Unpushed
    <3>2. /\ labels[i] \in Shapes
          /\ "retry" \in labels[i] => labels[i] = {"retry"} /\ ~Carried(i)
          /\ i \in aged => ~Carried(i)
      BY <1>0, ShapeFacts DEF IssueInv
    <3> QED
      BY <2>3, <2>5, <2>6, <3>1, <3>2 DEF Sees
  <2> QED
    BY <2>2, <2>3, <2>4, <2>6 DEF SweepOk
<1>4. CASE ReadDepth(f)
  <2>1. fet[f].pc = "depth"
    BY <1>4 DEF ReadDepth
  <2>2. CASE fet' = [fet EXCEPT ![f] = Idle]
    BY <1>1, <2>2
  <2>3. CASE fet' # [fet EXCEPT ![f] = Idle]
    <3>1. PICK cap : /\ fet[f].found # {}
                     /\ fet' = [fet EXCEPT ![f] = [@ EXCEPT !.pc = "scan", !.cap = cap, !.unread = Kind \cup {"parked"}]]
      BY <1>4, <2>3 DEF ReadDepth
    <3>2. f \notin TodoFetcher
      BY <1>0, <3>1 DEF SweepOk
    <3>3. OtherSweeps(f)
      BY <1>0, <3>1 DEF FetType, OtherSweeps
    <3>4. /\ fet'[f].pc = "scan" /\ fet'[f].seen = fet[f].seen /\ fet'[f].stale = fet[f].stale
          /\ fet'[f].user = fet[f].user /\ fet'[f].retry = fet[f].retry /\ fet'[f].found = fet[f].found
      BY <1>0, <3>1 DEF FetType, Sweeping
    <3>5. ASSUME NEW i \in Issue, Carried(i)' => Carried(i) PROVE Sees(f, i)'
      <4>1. ~Unpushed(f, i)' /\ Unmarked(f, i) /\ Sees(f, i)
        BY <1>0, <2>1, <3>2, <3>4 DEF Unpushed, Unmarked, SweepOk
      <4> QED
        BY <1>0, <3>4, <3>5, <4>1 DEF Sees, jira
    <3> QED
      BY <1>0, <2>1, <3>2, <3>3, <3>4, <3>5 DEF SweepOk
  <2> QED
    BY <2>2, <2>3
<1>5. CASE ReadQueue(f) \/ ReadQueueFails(f)
  <2>1. fet[f].pc = "scan" /\ f \notin TodoFetcher
    BY <1>0, <1>5 DEF ReadQueue, ReadQueueFails, SweepOk
  <2>2. /\ OtherSweeps(f)
        /\ fet'[f].pc = "scan" /\ fet'[f].seen = fet[f].seen /\ fet'[f].stale = fet[f].stale
        /\ fet'[f].user = fet[f].user /\ fet'[f].retry = fet[f].retry /\ fet'[f].found = fet[f].found
    <3>1. CASE ReadQueue(f)
      <4>1. PICK q \in fet[f].unread :
                fet' = [fet EXCEPT ![f] = [fet[f] EXCEPT !.unread = @ \ {q}, !.existing = @ \cup KeysIn(q)]]
        BY <3>1 DEF ReadQueue
      <4> QED
        BY <1>0, <2>1, <4>1 DEF FetType, Sweeping, OtherSweeps
    <3>2. CASE ReadQueueFails(f)
      <4>1. PICK q \in fet[f].unread : fet' = [fet EXCEPT ![f].unread = @ \ {q}]
        BY <3>2 DEF ReadQueueFails
      <4> QED
        BY <1>0, <2>1, <4>1 DEF FetType, Sweeping, OtherSweeps
    <3> QED
      BY <1>5, <3>1, <3>2
  <2>3. ASSUME NEW i \in Issue, Carried(i)' => Carried(i) PROVE Sees(f, i)'
    <3>1. ~Unpushed(f, i)' /\ Unmarked(f, i) /\ Sees(f, i)
      BY <1>0, <2>1, <2>2 DEF Unpushed, Unmarked, SweepOk
    <3> QED
      BY <1>0, <2>2, <2>3, <3>1 DEF Sees, jira
  <2> QED
    BY <1>0, <2>1, <2>2, <2>3 DEF SweepOk
<1>6. CASE ReadLocks(f)
  <2>1. fet[f].pc = "scan" /\ f \notin TodoFetcher /\ fet[f].found = Issue
    BY <1>0, <1>6 DEF ReadLocks, SweepOk
  <2>2. /\ OtherSweeps(f)
        /\ fet'[f].pc = "mark" /\ fet'[f].seen = fet[f].seen /\ fet'[f].stale = fet[f].stale
        /\ fet'[f].user = fet[f].user /\ fet'[f].retry = fet[f].retry /\ fet'[f].found = fet[f].found
        /\ fet'[f].left = fet[f].found
    BY <1>0, <1>6 DEF ReadLocks, FetType, Sweeping, OtherSweeps
  <2>3. ASSUME NEW i \in Issue, Carried(i)' => Carried(i) PROVE Sees(f, i)'
    <3>1. ~Unpushed(f, i)' /\ Unmarked(f, i) /\ Sees(f, i)
      BY <1>0, <2>1, <2>2 DEF Unpushed, Unmarked, SweepOk
    <3> QED
      BY <1>0, <2>2, <2>3, <3>1 DEF Sees, jira
  <2> QED
    BY <1>0, <2>1, <2>2, <2>3 DEF SweepOk
<1>7. CASE Marked(f)
  <2>1. fet[f].pc = "mark" /\ fet[f].left = {} /\ f \notin TodoFetcher
    BY <1>0, <1>7 DEF Marked, SweepOk
  <2>2. /\ OtherSweeps(f)
        /\ fet'[f].pc = "push" /\ fet'[f].existing = fet[f].existing
        /\ fet'[f].user = fet[f].user /\ fet'[f].retry = fet[f].retry /\ fet'[f].found = fet[f].found
    BY <1>0, <1>7 DEF Marked, FetType, Sweeping, OtherSweeps
  <2>3. ASSUME NEW i \in Issue, Carried(i)' => Carried(i) PROVE Sees(f, i)'
    <3>1. ~Unmarked(f, i)' /\ Unpushed(f, i) /\ Sees(f, i)
      BY <1>0, <2>1, <2>2 DEF Unpushed, Unmarked, SweepOk
    <3> QED
      BY <1>0, <2>2, <2>3, <3>1 DEF Sees, jira
  <2> QED
    BY <1>0, <2>1, <2>2, <2>3 DEF SweepOk
<1> QED
  BY <1>2, <1>3, <1>4, <1>5, <1>6, <1>7

(* An issue an unfinished sweep has not marked yet has no user's label.        *)
LEMMA MarkFacts ==
    ASSUME RoutingInv, NEW f \in Fetcher, NEW i \in Issue, Marking(f, i)
    PROVE  /\ f \notin TodoFetcher /\ Unmarked(f, i) /\ Sees(f, i) /\ fet[f].seen[i] \in Shapes
           /\ ~Todo(f, i) /\ i \notin fet[f].retry /\ IssueInv(i) /\ fet[f].found = Issue /\ fet[f].user = {}
<1>1. SweepOk(f) /\ IssueInv(i)
  BY DEF RoutingInv, SweepInv
<1>2. f \notin TodoFetcher /\ Unmarked(f, i)
  BY <1>1 DEF SweepOk, Marking, Unmarked
<1>3. Sees(f, i) /\ fet[f].found = Issue /\ fet[f].user = {}
  BY <1>1, <1>2 DEF SweepOk, Marking
<1>4. fet[f].seen[i] \in Shapes /\ i \notin fet[f].retry
  BY <1>2, <1>3 DEF Sees
<1> QED
  BY <1>1, <1>2, <1>3, <1>4, ShapeFacts DEF Todo

(* A sweep after marking an issue, or skipping it: the other issues are seen   *)
(* as before.                                                                  *)
Advances(f, i) ==
    /\ OtherSweeps(f)
    /\ fet'[f].pc = fet[f].pc /\ fet'[f].seen = fet[f].seen /\ fet'[f].stale = fet[f].stale
    /\ fet'[f].user = fet[f].user /\ fet'[f].found = fet[f].found
    /\ fet'[f].left = fet[f].left \ {i}
    /\ \A j \in Issue \ {i} : (j \in fet'[f].retry <=> j \in fet[f].retry) /\ (j \in fet'[f].existing <=> j \in fet[f].existing)

(* So they stay in order.                                                      *)
LEMMA AdvanceSees ==
    ASSUME NEW f \in Fetcher, NEW i \in Issue, Advances(f, i), NEW j \in Issue, j # i, Sees(f, j),
           labels'[j] = labels[j], j \in aged' => j \in aged, Carried(j)' => Carried(j)
    PROVE  Sees(f, j)'
<1>1. (Unmarked(f, j)' <=> Unmarked(f, j)) /\ (Unpushed(f, j)' <=> Unpushed(f, j))
  BY DEF Advances, Unmarked, Unpushed
<1> QED
  BY <1>1 DEF Advances, Sees

(* Marking an issue without writing its labels keeps the invariant.            *)
LEMMA MarkRouting ==
    ASSUME Typed, RoutingInv, NEW f \in Fetcher, NEW i \in Issue, MarkByLabels(f, i) \/ MarkAbandonedFails(f, i)
    PROVE  RoutingInv'
<1>0. /\ FetType /\ fet[f] \in Sweeping /\ SweepOk(f) /\ UNCHANGED <<jira, redis, slots>> /\ Marking(f, i)
      /\ f \notin TodoFetcher /\ Sees(f, i) /\ Unmarked(f, i) /\ fet[f].seen[i] \in Shapes /\ i \notin fet[f].retry /\ IssueInv(i)
  BY MarkFacts DEF Typed, FetType, RoutingInv, SweepInv, MarkByLabels, MarkAbandonedFails
<1>1. /\ Advances(f, i)
      /\ \/ i \in fet'[f].existing
         \/ fet[f].seen[i] = {} /\ fet'[f].retry = fet[f].retry /\ ~Abandoned(f, i)
         \/ "retry" \in fet[f].seen[i] /\ i \in fet'[f].retry
      /\ i \in fet'[f].retry => "retry" \in fet[f].seen[i]
  <2>1. CASE Mark(f, i, "existing")
    BY <1>0, <2>1 DEF Mark, Advances, OtherSweeps, FetType, Sweeping
  <2>2. CASE Mark(f, i, "retry") /\ "retry" \in fet[f].seen[i]
    BY <1>0, <2>2 DEF Mark, Advances, OtherSweeps, FetType, Sweeping
  <2>3. CASE fet' = [fet EXCEPT ![f].left = @ \ {i}] /\ fet[f].seen[i] = {} /\ ~Abandoned(f, i)
    BY <1>0, <2>3 DEF Advances, OtherSweeps, FetType, Sweeping
  <2> QED
    BY <2>1, <2>2, <2>3 DEF MarkByLabels, MarkAbandonedFails
<1>2. fet'[f].pc # "enqueue"
  BY <1>0, <1>1 DEF Advances, Marking
<1>3. \A j \in Issue : Carried(j)' => Carried(j)
  BY <1>0, <1>1, <1>2, Quiet DEF Advances
<1>4. Sees(f, i)'
  <2>1. ~Unmarked(f, i)'
    BY <1>0, <1>1 DEF Advances, Unmarked, Marking
  <2>2. labels' = labels /\ aged' = aged
    BY <1>0 DEF jira
  <2>3. i \in fet'[f].retry => labels[i] = {"retry"} /\ ~Carried(i)
    BY <1>0, <1>1 DEF Sees
  <2>4. "retry" \in labels[i] \/ i \in aged => i \in fet'[f].existing \cup fet'[f].retry
    <3>1. CASE i \in fet'[f].existing \cup fet'[f].retry
      BY <3>1
    <3>2. CASE fet[f].seen[i] = {}
      <4>1. "retry" \notin labels[i]
        BY <1>0, <3>2 DEF Sees
      <4>2. i \notin aged
        BY <1>0, <3>2 DEF Sees, IssueInv
      <4> QED
        BY <4>1, <4>2
    <3> QED
      BY <1>1, <3>1, <3>2
  <2> QED
    BY <1>3, <2>1, <2>2, <2>3, <2>4 DEF Sees
<1>5. SweepOk(f)'
  <2>1. ASSUME NEW j \in Issue PROVE Sees(f, j)'
    <3>1. CASE j = i
      BY <1>4, <3>1
    <3>2. CASE j # i
      BY <1>0, <1>1, <1>3, <3>2, AdvanceSees DEF SweepOk, jira
    <3> QED
      BY <3>1, <3>2
  <2> QED
    BY <1>0, <1>1, <2>1 DEF SweepOk, Advances
<1> QED
  BY <1>0, <1>1, <1>2, <1>5, Quiet DEF Advances

(* Skipping an issue in the second loop keeps it.                              *)
LEMMA SkipRouting ==
    ASSUME Typed, RoutingInv, NEW f \in Fetcher, NEW i \in Issue, SkipIssue(f, i) \/ ConsumeFails(f, i)
    PROVE  RoutingInv'
<1>0. /\ FetType /\ fet[f] \in Sweeping /\ SweepOk(f) /\ UNCHANGED <<jira, redis, slots>> /\ fet[f].pc = "push"
      /\ f \notin TodoFetcher
  BY DEF Typed, FetType, RoutingInv, SweepInv, SkipIssue, ConsumeFails, Pushing, SweepOk
<1>1. Advances(f, i)
  <2>1. fet' = [fet EXCEPT ![f].left = @ \ {i}]
    BY DEF SkipIssue, ConsumeFails
  <2> QED
    BY <1>0, <2>1 DEF Advances, OtherSweeps, FetType, Sweeping
<1>2. fet'[f].pc = "push"
  BY <1>0, <1>1 DEF Advances
<1>3. \A j \in Issue : Carried(j)' => Carried(j)
  BY <1>0, <1>1, <1>2, Quiet DEF Advances
<1>4. Sees(f, i)'
  BY <1>1, <1>2 DEF Sees, Unmarked, Unpushed, Advances
<1>5. SweepOk(f)'
  <2>1. ASSUME NEW j \in Issue PROVE Sees(f, j)'
    <3>1. CASE j = i
      BY <1>4, <3>1
    <3>2. CASE j # i
      BY <1>0, <1>1, <1>3, <3>2, AdvanceSees DEF SweepOk, jira
    <3> QED
      BY <3>1, <3>2
  <2> QED
    BY <1>0, <1>1, <1>2, <2>1 DEF SweepOk, Advances
<1> QED
  BY <1>0, <1>1, <1>2, <1>5, Quiet DEF Advances

(* A step of the one sweeping fetcher that is about issue i.                   *)
LEMMA SweepStep ==
    ASSUME RoutingInv, Setting, NEW f \in Fetcher, f \notin TodoFetcher, NEW i \in Issue, OtherSweeps(f), UNCHANGED slots,
           \A j \in Issue : j # i => labels'[j] = labels[j],
           aged' \subseteq aged,
           \A k \in Kind : \A t \in Task : t.issue # i => queue'[k][t] = queue[k][t],
           \A j \in Issue : fet'[f].pc = "enqueue" /\ j \in fet'[f].unread => j = i \/ Carried(j),
           SlotInv', IssueInv(i)',
           (\A j \in Issue : j # i => (Carried(j)' => Carried(j))) => SweepOk(f)'
    PROVE  RoutingInv'
<1>1. ASSUME NEW j \in Issue, j # i PROVE Same(j) /\ (Carried(j)' => Carried(j))
  <2>1. Same(j)
    BY <1>1, FetcherSame
  <2> QED
    BY <1>1, <2>1, FetcherCarries
<1>2. \A j \in Issue : IssueInv(j)'
  BY <1>1, SameIssue DEF RoutingInv
<1>3. ASSUME NEW g \in Fetcher, g # f PROVE SweepOk(g)'
  <2>1. fet'[g] = fet[g] /\ SweepOk(g) /\ g \in TodoFetcher
    BY <1>3 DEF OtherSweeps, RoutingInv, SweepInv, Setting
  <2> QED
    BY <2>1 DEF SweepOk
<1> QED
  BY <1>1, <1>2, <1>3 DEF RoutingInv, SweepInv

(* Nobody carries an issue: no slot and no queue has it.                       *)
LEMMA Nobody ==
    ASSUME NEW i \in Issue, ~Carried(i)
    PROVE  ~HasFix(i) /\ \A w \in Worker : ~Busy(w, i)
BY Names DEF Carried, HasFix, Busy

(* The safety net keeps the invariant: it writes only where nobody is at work. *)
LEMMA AbandonedRouting ==
    ASSUME Typed, RoutingInv, Setting, NEW f \in Fetcher, NEW i \in Issue, MarkAbandoned(f, i)
    PROVE  RoutingInv'
<1>0. /\ FetType /\ JiraType /\ fet[f] \in Sweeping /\ SweepOk(f) /\ UNCHANGED <<redis, slots>> /\ Marking(f, i)
      /\ f \notin TodoFetcher /\ Sees(f, i) /\ Unmarked(f, i) /\ fet[f].seen[i] \in Shapes /\ IssueInv(i) /\ SlotInv
  BY MarkFacts DEF Typed, FetType, RoutingInv, SweepInv, MarkAbandoned
<1>1. PICK l \in Stale(fet[f].seen[i], TRUE) : Edit(i, {l}, {"retry"})
  BY DEF MarkAbandoned
<1>2. i \in fet[f].stale
  BY DEF MarkAbandoned, Abandoned, Stale
<1>3. labels[i] = fet[f].seen[i] /\ ~Carried(i)
  BY <1>0, <1>2 DEF Sees
<1>4. /\ labels'[i] = {"retry"}
      /\ \A j \in Issue : j # i => labels'[j] = labels[j]
      /\ aged' \subseteq aged /\ i \notin aged'
  <2>1. /\ labels'[i] = (labels[i] \ {l}) \cup {"retry"}
        /\ \A j \in Issue : j # i => labels'[j] = labels[j]
        /\ aged' \subseteq aged
    BY <1>0, <1>1, EditFrame
  <2>2. i \notin aged'
    BY <1>1 DEF Edit
  <2>3. labels[i] = {l}
    BY <1>0, <1>1, <1>3 DEF Stale, Ignorable, Shapes, Resting, InFlight
  <2> QED
    BY <2>1, <2>2, <2>3
<1>5. /\ Advances(f, i) /\ i \in fet'[f].retry
  <2>1. Mark(f, i, "retry")
    BY DEF MarkAbandoned
  <2> QED
    BY <1>0, <2>1 DEF Mark, Advances, OtherSweeps, FetType, Sweeping
<1>6. fet'[f].pc = "mark" /\ OtherSweeps(f)
  BY <1>0, <1>5 DEF Advances, Marking
<1>7. /\ \A w \in Worker : Busy(w, i)' <=> Busy(w, i)
      /\ HasFix(i)' <=> HasFix(i)
      /\ Lone(i)'
  BY <1>0, Names DEF slots, redis, Busy, IssueOf, HasFix, Queued, Lone, IssueInv
<1>8. ~Carried(i)'
  <2>1. \A k \in Kind : Queued(k, i)' <=> Queued(k, i)
    BY <1>0 DEF redis, Queued
  <2>2. \A g \in Fetcher : fet'[g].pc = "enqueue" /\ i \in fet'[g].unread => fet[g].pc = "enqueue" /\ i \in fet[g].unread
    BY <1>6 DEF OtherSweeps
  <2>3. \A w \in Worker : (st[w] # "idle" /\ IssueOf(w) = i)' <=> (st[w] # "idle" /\ IssueOf(w) = i)
    BY <1>7 DEF Busy
  <2> QED
    BY <1>3, <2>1, <2>2, <2>3 DEF Carried
<1>9. IssueInv(i)'
  <2>1. ~HasFix(i)' /\ \A w \in Worker : ~Busy(w, i)'
    BY <1>3, <1>7, Nobody
  <2>2. labels'[i] \in Shapes
    BY <1>4 DEF Shapes
  <2> QED
    BY <1>4, <1>7, <1>8, <2>1, <2>2, Names DEF IssueInv
<1>10. SlotInv'
  BY <1>0 DEF SlotInv, QueueInv, SlotOk, redis, slots, IssueOf
<1>11. (\A j \in Issue : j # i => (Carried(j)' => Carried(j))) => SweepOk(f)'
  <2> SUFFICES ASSUME \A j \in Issue : j # i => (Carried(j)' => Carried(j)) PROVE SweepOk(f)'
    OBVIOUS
  <2>1. ASSUME NEW j \in Issue PROVE Sees(f, j)'
    <3>1. CASE j = i
      BY <1>4, <1>5, <1>6, <1>8, <3>1 DEF Sees, Advances, Unmarked
    <3>2. CASE j # i
      BY <1>0, <1>4, <1>5, <3>2, AdvanceSees DEF SweepOk
    <3> QED
      BY <3>1, <3>2
  <2> QED
    BY <1>0, <1>5, <1>6, <2>1 DEF SweepOk, Advances, Marking
<1> QED
  BY <1>0, <1>4, <1>6, <1>9, <1>10, <1>11, SweepStep DEF redis

(* Consuming the trigger keeps it: the issue becomes in progress again.        *)
LEMMA ConsumeRouting ==
    ASSUME Typed, RoutingInv, Setting, NEW f \in Fetcher, NEW i \in Issue, Consume(f, i)
    PROVE  RoutingInv'
<1>0. /\ FetType /\ JiraType /\ fet[f] \in Sweeping /\ SweepOk(f) /\ UNCHANGED <<redis, slots>>
      /\ fet[f].pc = "push" /\ i \in fet[f].left /\ fet[f].user = {} /\ ~Skipped(f, i)
      /\ IssueInv(i) /\ SlotInv
  BY DEF Typed, FetType, RoutingInv, SweepInv, Consume, Pushing, SweepOk
<1>1. f \notin TodoFetcher /\ Sees(f, i) /\ Unpushed(f, i)
  BY <1>0 DEF SweepOk, Unpushed
<1>2. /\ OtherSweeps(f) /\ fet'[f].pc \in {"push", "enqueue"} /\ fet'[f].left = fet[f].left \ {i}
      /\ fet'[f].unread \subseteq {i}
      /\ fet'[f].retry = fet[f].retry /\ fet'[f].existing = fet[f].existing
      /\ fet'[f].user = fet[f].user /\ fet'[f].found = fet[f].found
  <2>1. Consumed(f, i)
    BY DEF Consume
  <2> QED
    BY <1>0, <2>1 DEF Consumed, OtherSweeps, FetType, Sweeping
<1>3. /\ \A w \in Worker : (Busy(w, i)' <=> Busy(w, i)) /\ st'[w] = st[w] /\ cur'[w] = cur[w]
      /\ HasFix(i)' <=> HasFix(i)
      /\ Lone(i)'
  BY <1>0, Names DEF slots, redis, Busy, IssueOf, HasFix, Queued, Lone, IssueInv
<1>4. /\ \A j \in Issue : j # i => labels'[j] = labels[j]
      /\ aged' \subseteq aged
      /\ IssueInv(i)'
  <2>1. CASE i \in fet[f].retry
    <3>1. labels[i] = {"retry"} /\ ~Carried(i)
      BY <1>1, <2>1 DEF Sees
    <3>2. Edit(i, {"retry"}, {"in_progress"})
      BY <1>0, <2>1 DEF Consume, Rerun
    <3>3. /\ labels'[i] = {"in_progress"}
          /\ \A j \in Issue : j # i => labels'[j] = labels[j]
          /\ aged' \subseteq aged
      BY <1>0, <3>1, <3>2, EditFrame
    <3>4. i \notin aged'
      BY <3>2 DEF Edit
    <3>5. ~HasFix(i)' /\ \A w \in Worker : ~Busy(w, i)'
      BY <1>3, <3>1, Nobody
    <3>6. labels'[i] \in Shapes
      BY <3>3 DEF Shapes
    <3>7. IssueInv(i)'
      BY <1>3, <3>3, <3>4, <3>5, <3>6, Names DEF IssueInv
    <3> QED
      BY <3>3, <3>7
  <2>2. CASE i \notin fet[f].retry
    <3>1. UNCHANGED jira
      BY <1>0, <2>2 DEF Consume, Rerun
    <3>2. i \notin fet[f].existing
      BY <1>0, <2>2 DEF Skipped, Rerun
    <3>3. "retry" \notin labels[i] /\ i \notin aged
      BY <1>1, <2>2, <3>2 DEF Sees
    <3>4. ASSUME NEW w \in Triager, Busy(w, i)' PROVE Relies(w, i)'
      <4>1. Busy(w, i) /\ Relies(w, i) /\ st'[w] = st[w] /\ cur'[w] = cur[w]
        BY <1>0, <1>3, <3>4, Names DEF IssueInv
      <4> QED
        BY <1>3, <3>1, <4>1 DEF Relies, jira
    <3>5. IssueInv(i)'
      BY <1>0, <1>3, <3>1, <3>3, <3>4 DEF IssueInv, jira
    <3> QED
      BY <3>1, <3>5 DEF jira
  <2> QED
    BY <2>1, <2>2
<1>5. SlotInv'
  BY <1>0 DEF SlotInv, QueueInv, SlotOk, redis, slots, IssueOf
<1>6. (\A j \in Issue : j # i => (Carried(j)' => Carried(j))) => SweepOk(f)'
  <2> SUFFICES ASSUME \A j \in Issue : j # i => (Carried(j)' => Carried(j)) PROVE SweepOk(f)'
    OBVIOUS
  <2>1. ASSUME NEW j \in Issue PROVE Sees(f, j)'
    <3>1. ~Unmarked(f, j)'
      BY <1>2 DEF Unmarked
    <3>2. CASE j = i
      BY <1>2, <3>1, <3>2 DEF Sees, Unpushed
    <3>3. CASE j # i
      <4>1. Unpushed(f, j)' => Unpushed(f, j)
        BY <1>0, <1>2 DEF Unpushed
      <4>2. Sees(f, j)
        BY <1>0, <1>1 DEF SweepOk
      <4> QED
        BY <1>2, <1>4, <3>1, <3>3, <4>1, <4>2 DEF Sees
    <3> QED
      BY <3>2, <3>3
  <2> QED
    BY <1>0, <1>1, <1>2, <2>1 DEF SweepOk
<1> QED
  BY <1>0, <1>1, <1>2, <1>4, <1>5, <1>6, SweepStep DEF redis

(* Pushing the task keeps it: the issue is carried before and after.           *)
LEMMA EnqueueRouting ==
    ASSUME Typed, RoutingInv, Setting, NEW f \in Fetcher, Enqueue(f)
    PROVE  RoutingInv'
<1>0. /\ FetType /\ fet[f] \in Sweeping /\ SweepOk(f) /\ UNCHANGED <<jira, lock, slots>>
      /\ fet[f].pc = "enqueue" /\ fet[f].user = {} /\ fet[f].unread \subseteq Issue
      /\ SlotInv /\ QueueInv /\ queue \in [Kind -> [Task -> Nat]]
  BY DEF Typed, FetType, Pending, RedisType, RoutingInv, SweepInv, SlotInv, Enqueue, SweepOk
<1>1. PICK i \in fet[f].unread : Push("triage", [issue |-> i, user |-> i \in fet[f].user, attempts |-> 0])
  BY DEF Enqueue
<1> DEFINE t == [issue |-> i, user |-> i \in fet[f].user, attempts |-> 0]
<1>2. i \in Issue /\ t \in Task /\ t.issue = i /\ ~t.user
  <2>1. i \in Issue /\ (i \in fet[f].user) = FALSE
    BY <1>0, <1>1
  <2>2. 0 \in 0 .. MaxRetries - 1
    BY IssueRoutingAssumption
  <2>3. t = [issue |-> i, user |-> FALSE, attempts |-> 0]
    BY <2>1
  <2> HIDE DEF t
  <2> QED
    BY <2>1, <2>2, <2>3 DEF Task
<1>3. IssueInv(i) /\ Carried(i) /\ f \notin TodoFetcher /\ Sees(f, i)
  BY <1>0, <1>1, <1>2 DEF RoutingInv, Carried, SweepOk
<1>4. Push("triage", t)
  BY <1>1
<1> HIDE DEF t
<1>5. QueueInv' /\ \A k \in Kind : \A u \in Task : u # t => queue'[k][u] = queue[k][u]
  BY <1>0, <1>2, <1>4, Names, PushOk
<1>6. queue'["fix"] = queue["fix"]
  BY <1>0, <1>4, Names DEF Push
<1>7. /\ \A w \in Worker : (Busy(w, i)' <=> Busy(w, i)) /\ st'[w] = st[w] /\ cur'[w] = cur[w]
      /\ HasFix(i)' <=> HasFix(i)
      /\ Lone(i)'
  BY <1>0, <1>3, <1>6, Names DEF slots, Busy, IssueOf, HasFix, Queued, Lone, IssueInv
<1>8. IssueInv(i)'
  BY <1>0, <1>2, <1>3, <1>7, LabelsStay, Names DEF jira
<1>9. SlotInv'
  BY <1>0, <1>5 DEF SlotInv, SlotOk, slots, IssueOf
<1>10. /\ OtherSweeps(f) /\ fet'[f].pc = "push" /\ fet'[f].left = fet[f].left
       /\ fet'[f].retry = fet[f].retry /\ fet'[f].existing = fet[f].existing
       /\ fet'[f].user = fet[f].user /\ fet'[f].found = fet[f].found
  <2>1. fet' = [fet EXCEPT ![f] = [fet[f] EXCEPT !.pc = "push", !.unread = {}, !.cap = @ - 1]]
    BY DEF Enqueue
  <2> QED
    BY <1>0, <2>1 DEF OtherSweeps, FetType, Sweeping
<1>11. (\A j \in Issue : j # i => (Carried(j)' => Carried(j))) => SweepOk(f)'
  <2> SUFFICES ASSUME \A j \in Issue : j # i => (Carried(j)' => Carried(j)) PROVE SweepOk(f)'
    OBVIOUS
  <2>1. ASSUME NEW j \in Issue PROVE Sees(f, j)'
    <3>1. ~Unmarked(f, j)' /\ (Unpushed(f, j)' <=> Unpushed(f, j)) /\ Sees(f, j)
      BY <1>0, <1>3, <1>10 DEF Unmarked, Unpushed, SweepOk
    <3>2. j = i => j \notin fet[f].retry \/ ~Unpushed(f, j)
      BY <1>3 DEF Sees
    <3> QED
      BY <1>0, <1>10, <3>1, <3>2 DEF Sees, jira
  <2> QED
    BY <1>0, <1>3, <1>10, <2>1 DEF SweepOk
<1>12. \A k \in Kind : \A u \in Task : u.issue # i => queue'[k][u] = queue[k][u]
  BY <1>2, <1>5
<1> QED
  BY <1>0, <1>2, <1>3, <1>8, <1>9, <1>10, <1>11, <1>12, SweepStep DEF jira

(* Every step of a fetcher keeps the invariant.                                *)
LEMMA FetcherRouting ==
    ASSUME Typed, RoutingInv, Setting, NEW f \in Fetcher, FetcherStep(f)
    PROVE  RoutingInv'
<1>1. CASE \/ Search(f) \/ ReadDepth(f) \/ ReadQueue(f) \/ ReadQueueFails(f) \/ ReadLocks(f)
           \/ Marked(f) \/ EndSweep(f) \/ FetcherDies(f)
  BY <1>1, ScanRouting
<1>2. CASE Enqueue(f)
  BY <1>2, EnqueueRouting
<1>3. ASSUME NEW i \in Issue, MarkTodo(f, i) \/ MarkUnverified(f, i) PROVE FALSE
  BY <1>3, MarkFacts DEF MarkTodo, MarkUnverified
<1>4. ASSUME NEW i \in Issue, MarkByLabels(f, i) \/ MarkAbandonedFails(f, i) PROVE RoutingInv'
  BY <1>4, MarkRouting
<1>5. ASSUME NEW i \in Issue, SkipIssue(f, i) \/ ConsumeFails(f, i) PROVE RoutingInv'
  BY <1>5, SkipRouting
<1>6. ASSUME NEW i \in Issue, MarkAbandoned(f, i) \/ Consume(f, i) PROVE RoutingInv'
  BY <1>6, AbandonedRouting, ConsumeRouting
<1> QED
  BY <1>1, <1>2, <1>3, <1>4, <1>5, <1>6 DEF FetcherStep, Sweep

(* People and time keep it: a label is aged only when nobody carries its issue.*)
LEMMA WorldRouting ==
    ASSUME Typed, RoutingInv, Setting, NEW i \in Issue, WorldStep(i)
    PROVE  RoutingInv'
<1>0. SlotInv /\ SweepInv /\ IssueInv(i)
  BY DEF RoutingInv
<1>1. ~\E l \in Triggers : AddLabel(i, l)
  BY DEF Setting
<1>2. ASSUME UNCHANGED <<labels, queue, fet, slots>>,
             \A j \in Issue : j \in aged' => j \in aged \/ (\A f \in Fetcher : fet[f].pc = "idle"),
             \A j \in Issue : j \in aged' => j \in aged \/ (~Carried(j) /\ labels[j] \cap InFlight # {}),
             SlotInv'
      PROVE  RoutingInv'
  <2>1. ASSUME NEW j \in Issue PROVE (Carried(j)' <=> Carried(j)) /\ (HasFix(j)' <=> HasFix(j)) /\ (Lone(j)' <=> Lone(j))
    BY <1>2, Names DEF slots, Carried, HasFix, Lone, Queued, Busy, IssueOf
  <2>2. ASSUME NEW j \in Issue PROVE IssueInv(j)'
    <3>1. IssueInv(j)
      BY DEF RoutingInv
    <3>2. ASSUME NEW w \in Triager, Busy(w, j)' PROVE Relies(w, j)'
      <4>1. Busy(w, j) /\ Relies(w, j)
        BY <1>2, <3>1, <3>2 DEF slots, Busy, IssueOf, IssueInv
      <4> QED
        BY <1>2, <2>1, <4>1 DEF slots, Relies
    <3> QED
      BY <1>2, <2>1, <3>1, <3>2 DEF IssueInv
  <2>3. ASSUME NEW f \in Fetcher PROVE SweepOk(f)'
    <3>1. SweepOk(f) /\ fet' = fet
      BY <1>0, <1>2 DEF SweepInv
    <3>2. ASSUME NEW j \in Issue, Sees(f, j) PROVE Sees(f, j)'
      <4>1. (Unmarked(f, j)' <=> Unmarked(f, j)) /\ (Unpushed(f, j)' <=> Unpushed(f, j))
        BY <3>1 DEF Unmarked, Unpushed
      <4>2. Unmarked(f, j) \/ Unpushed(f, j) => fet[f].pc # "idle"
        BY DEF Unmarked, Unpushed
      <4>3. Unmarked(f, j) \/ Unpushed(f, j) => (j \in aged' => j \in aged)
        BY <1>2, <4>2
      <4> QED
        BY <1>2, <2>1, <3>1, <3>2, <4>1, <4>3 DEF Sees
    <3> QED
      BY <3>1, <3>2 DEF SweepOk
  <2> QED
    BY <1>2, <2>2, <2>3 DEF RoutingInv, SweepInv
<1>3. CASE Close(i)
  <2>1. UNCHANGED <<labels, queue, lock, fet, slots>> /\ aged' \subseteq aged
    BY <1>3 DEF Close, redis
  <2>2. SlotInv'
    BY <1>0, <2>1 DEF SlotInv, QueueInv, SlotOk, slots, IssueOf
  <2> QED
    BY <1>2, <2>1, <2>2
<1>4. CASE Age(i)
  <2>1. UNCHANGED <<labels, queue, lock, fet, slots>> /\ aged' = aged \cup {i}
    BY <1>4 DEF Age, redis
  <2>2. SlotInv'
    BY <1>0, <2>1 DEF SlotInv, QueueInv, SlotOk, slots, IssueOf
  <2>3. ~Carried(i) /\ labels[i] \cap InFlight # {} /\ \A f \in Fetcher : fet[f].pc = "idle"
    BY <1>4 DEF Age, Setting, Carried
  <2> QED
    BY <1>2, <2>1, <2>2, <2>3
<1>5. ASSUME NEW k \in Kind, Expire(k, i) PROVE RoutingInv'
  <2>1. /\ UNCHANGED <<labels, aged, queue, fet, slots>>
        /\ lock[k][i] = "ghost" /\ lock' = [lock EXCEPT ![k][i] = NoWorker]
    BY <1>5 DEF Expire, jira
  <2>2. ASSUME NEW w \in Worker PROVE SlotOk(w)'
    <3>1. SlotOk(w) /\ UNCHANGED <<st, task, requeue>> /\ IssueOf(w)' = IssueOf(w)
      BY <1>0, <2>1 DEF SlotInv, slots, IssueOf
    <3>2. st[w] \notin Outside => lock'[KindOf(w)][IssueOf(w)] = w
      <4> SUFFICES ASSUME st[w] \notin Outside PROVE lock'[KindOf(w)][IssueOf(w)] = w
        OBVIOUS
      <4>1. lock[KindOf(w)][IssueOf(w)] = w /\ w # "ghost"
        BY <3>1, Names DEF SlotOk
      <4>2. /\ KindOf(w) \in Kind /\ IssueOf(w) \in Issue
            /\ lock \in [Kind -> [Issue -> Worker \cup {NoWorker, "ghost"}]]
        BY IssueType, Names DEF Typed, RedisType, Outside
      <4>3. ~(KindOf(w) = k /\ IssueOf(w) = i)
        BY <2>1, <4>1
      <4> QED
        BY <2>1, <4>1, <4>2, <4>3
    <3> QED
      BY <3>1, <3>2 DEF SlotOk
  <2>3. SlotInv'
    BY <1>0, <2>1, <2>2 DEF SlotInv, QueueInv
  <2> QED
    BY <1>2, <2>1, <2>3
<1> QED
  BY <1>1, <1>3, <1>4, <1>5 DEF WorldStep

(* The initial states have it.                                                 *)
LEMMA InitRouting == Init => RoutingInv
<1> SUFFICES ASSUME Init PROVE RoutingInv
  OBVIOUS
<1>1. SlotInv
  BY DEF Init, SlotInv, QueueInv, SlotOk, Outside
<1>2. SweepInv
  BY DEF Init, SweepInv, SweepOk, Sees, Unmarked, Unpushed, Idle
<1>3. ASSUME NEW i \in Issue PROVE IssueInv(i)
  <2>1. /\ labels[i] = {} /\ aged = {} /\ \A k \in Kind : \A t \in Task : queue[k][t] = 0
        /\ \A w \in Worker : st[w] = "idle"
    BY DEF Init
  <2>2. ~HasFix(i) /\ Lone(i) /\ \A w \in Worker : ~Busy(w, i)
    BY <2>1, Names DEF HasFix, Lone, Queued, Busy
  <2>3. {} \in Shapes
    BY DEF Shapes
  <2> QED
    BY <2>1, <2>2, <2>3, Names DEF IssueInv
<1> QED
  BY <1>1, <1>2, <1>3 DEF RoutingInv

(* Every step keeps it.                                                        *)
LEMMA NextRouting ==
    ASSUME Typed, RoutingInv, Setting, [Next]_vars
    PROVE  RoutingInv'
<1>1. CASE UNCHANGED vars
  <2>1. UNCHANGED <<labels, aged, queue, lock, fet, slots>>
    BY <1>1 DEF vars, jira, redis
  <2>2. SlotInv'
    BY <2>1 DEF RoutingInv, SlotInv, QueueInv, SlotOk, slots, IssueOf
  <2>3. \A f \in Fetcher : SweepOk(f)'
    BY <2>1 DEF RoutingInv, SweepInv, SweepOk, Sees, Unmarked, Unpushed, Carried, Queued, slots, IssueOf
  <2>4. \A i \in Issue : IssueInv(i)'
    <3> SUFFICES ASSUME NEW i \in Issue PROVE IssueInv(i)'
      OBVIOUS
    <3>1. Same(i) /\ (Carried(i)' => Carried(i))
      BY <2>1, FetcherSame DEF slots, Carried, Queued, IssueOf
    <3> QED
      BY <3>1, SameIssue DEF RoutingInv
  <2> QED
    BY <2>2, <2>3, <2>4 DEF RoutingInv, SweepInv
<1>2. ASSUME NEW i \in Issue, WorldStep(i) PROVE RoutingInv'
  BY <1>2, WorldRouting
<1>3. ASSUME NEW f \in Fetcher, FetcherStep(f) PROVE RoutingInv'
  BY <1>3, FetcherRouting
<1>4. ASSUME NEW w \in Worker, QueueStep(w) \/ AgentStep(w) PROVE RoutingInv'
  <2>1. CASE Take(w)
    BY <2>1, TakeRouting
  <2>2. CASE ~Take(w)
    <3>1. st[w] # "idle"
      BY <1>4, <2>2 DEF QueueStep, AgentStep, Acquire, DropDuplicate, Release, Requeue, GiveUp, PushError, Clear, Stop, Crash,
           ReadIssue, ReadFails, SkipClosed, Stamp, StampFails, TriageFails, TerminalLabel, TerminalLabelFails,
           Dispatch, FixDone, FixFailed, Triage, Fix
    <3>2. PICK j \in Issue : IssueOf(w) = j
      BY <3>1, IssueType DEF Typed
    <3> QED
      BY <1>4, <2>2, <3>1, <3>2, QueueRouting, AgentRouting, DispatchRouting DEF QueueStep
  <2> QED
    BY <2>1, <2>2
<1> QED
  BY <1>1, <1>2, <1>3, <1>4, StepCases

-----------------------------------------------------------------------------
(* A set of which any two elements are equal has at most one.                  *)
LEMMA AtMostOne ==
    ASSUME NEW S, \A x, y \in S : x = y
    PROVE  Cardinality(S) <= 1
<1>1. CASE S = {}
  BY <1>1, FS_EmptySet
<1>2. CASE S # {}
  <2>1. PICK x : S = {x}
    BY <1>2
  <2> QED
    BY <2>1, FS_Singleton
<1> QED
  BY <1>1, <1>2

(* The fix tasks of an issue are the places the invariant speaks of.           *)
LEMMA FixPlaces ==
    ASSUME Typed, NEW i \in Issue, NEW x \in FixTasks(i)
    PROVE  /\ \/ \E t \in Task : \E n \in 1 .. queue["fix"][t] : t.issue = i /\ queue["fix"][t] > 0 /\ x = <<t, n>>
              \/ x \in Fixer /\ Busy(x, i)
           /\ HasFix(i)
<1>0. \A t \in Task : queue["fix"][t] \in Nat
  BY Names DEF Typed, RedisType
<1>1. ASSUME NEW t \in Task, t.issue = i, x \in Copies("fix", t)
      PROVE  \E n \in 1 .. queue["fix"][t] : queue["fix"][t] > 0 /\ x = <<t, n>>
  BY <1>0, <1>1 DEF Copies
<1>2. ASSUME x \in Worker, KindOf(x) = "fix", st[x] # "idle", task[x].issue = i
      PROVE  x \in Fixer /\ Busy(x, i)
  BY <1>2 DEF KindOf, Worker, Busy, IssueOf
<1>3. \/ \E t \in Task : t.issue = i /\ x \in Copies("fix", t)
      \/ x \in Worker /\ KindOf(x) = "fix" /\ st[x] # "idle" /\ task[x].issue = i
  <2> DEFINE ts == {t \in Task : t.issue = i}
  <2>1. x \in Tasks("fix", ts)
    BY DEF FixTasks
  <2>2. \A t \in ts : t \in Task /\ t.issue = i
    OBVIOUS
  <2> HIDE DEF ts
  <2> QED
    BY <2>1, <2>2 DEF Tasks
<1> QED
  BY <1>1, <1>2, <1>3 DEF HasFix, Queued

(* The invariant makes the stages exclude each other.                          *)
LEMMA RoutingExcludes == ASSUME Typed, RoutingInv PROVE StagesExclude
<1>1. OneFix
  <2> SUFFICES ASSUME NEW i \in Issue, NEW x \in FixTasks(i), NEW y \in FixTasks(i) PROVE x = y
    BY AtMostOne DEF OneFix
  <2>0. Lone(i) /\ \A t \in Task : queue["fix"][t] \in Nat
    BY Names DEF RoutingInv, IssueInv, Typed, RedisType
  <2> DEFINE Copy(z, t, n) == t.issue = i /\ queue["fix"][t] > 0 /\ z = <<t, n>>
  <2>1. /\ (\E t \in Task : \E n \in 1 .. queue["fix"][t] : Copy(x, t, n)) \/ (x \in Fixer /\ Busy(x, i))
        /\ (\E t \in Task : \E n \in 1 .. queue["fix"][t] : Copy(y, t, n)) \/ (y \in Fixer /\ Busy(y, i))
    BY FixPlaces
  <2>2. CASE x \in Fixer /\ Busy(x, i) /\ y \in Fixer /\ Busy(y, i)
    BY <2>0, <2>2 DEF Lone
  <2>3. ASSUME NEW t \in Task, NEW n \in 1 .. queue["fix"][t], Copy(x, t, n),
               NEW u \in Task, NEW m \in 1 .. queue["fix"][u], Copy(y, u, m)
        PROVE  x = y
    <3>1. t = u /\ queue["fix"][t] <= 1
      BY <2>0, <2>3 DEF Lone
    <3>2. n = 1 /\ m = 1
      BY <2>0, <3>1
    <3> QED
      BY <2>3, <3>1, <3>2
  <2>4. ASSUME NEW t \in Task, NEW n \in 1 .. queue["fix"][t], Copy(x, t, n) \/ Copy(y, t, n)
        PROVE  \A w \in Fixer : ~Busy(w, i)
    BY <2>0, <2>4 DEF Lone, Queued
  <2> HIDE DEF Copy
  <2> QED
    BY <2>1, <2>2, <2>3, <2>4
<1>2. TriageBeforeFix
  <2> SUFFICES ASSUME NEW i \in Issue, NEW w \in Triager, st[w] \in {"run", "label"}, IssueOf(w) = i, FixTasks(i) # {}
               PROVE  FALSE
    BY DEF TriageBeforeFix
  <2>1. HasFix(i)
    BY FixPlaces
  <2>2. Relies(w, i)
    BY DEF RoutingInv, IssueInv, Busy
  <2> QED
    BY <2>1, <2>2 DEF Relies, Relying
<1> QED
  BY <1>1, <1>2 DEF StagesExclude

(* For any numbers of issues, slots, attempts and faults, stages of an issue do *)
(* not overlap: at most one fix task, wherever it is, and no triage beside it. *)
THEOREM RoutingIsExclusive ==
    ASSUME Setting
    PROVE  Spec => []StagesExclude
<1>1. Init => Typed /\ RoutingInv
  BY InitTyped, InitRouting
<1>2. Typed /\ RoutingInv /\ [Next]_vars => (Typed /\ RoutingInv)'
  BY NextTyped, NextRouting
<1>3. Typed /\ RoutingInv => StagesExclude
  BY RoutingExcludes
<1> QED
  BY <1>1, <1>2, <1>3, PTL DEF Spec

-----------------------------------------------------------------------------
(* The other workers on the issue of one that writes its labels are neither    *)
(* giving it up nor dispatching it.                                            *)
LEMMA AloneAtWork ==
    ASSUME Typed, RoutingInv, NEW w \in Worker, NEW j \in Issue, Busy(w, j), st[w] \notin Outside,
           w \in Fixer \/ st[w] \in Relying, NEW v \in Worker, v # w, Busy(v, j)
    PROVE  st[v] \notin {"error", "dispatch"}
<1>1. SlotInv /\ SlotOk(v) /\ IssueInv(j) /\ IssueOf(w) = j /\ st[w] # "idle"
  BY DEF RoutingInv, SlotInv, Busy
<1>2. CASE v \in Triager
  BY <1>1, <1>2, OneAtWork DEF Relying
<1>3. CASE v \in Fixer /\ w \in Fixer
  BY <1>1, <1>3 DEF IssueInv, Lone
<1>4. CASE v \in Fixer /\ w \notin Fixer
  <2>1. Relies(w, j) /\ HasFix(j) /\ st[w] \in Relying
    BY <1>1, <1>4, Names DEF IssueInv, HasFix
  <2> QED
    BY <2>1 DEF Relies
<1> QED
  BY <1>2, <1>3, <1>4 DEF Worker

(* A step of a worker on issue j keeps the lists and the labels in agreement.  *)
LEMMA ParkedStep ==
    ASSUME Typed, RoutingInv, ParkedInv, NEW w \in Worker, NEW j \in Issue, Busy(w, j),
           \A i \in Issue : i # j => labels'[i] = labels[i] /\ parked'[i] = parked[i],
           Others(w), \A v \in Worker : v # w => res'[v] = res[v],
           st'[w] # "idle" => IssueOf(w)' = j,
           parked'[j] # {} => labels'[j] \in Resting,
           st'[w] = "error" => labels'[j] \in Resting,
           st'[w] = "dispatch" /\ res'[w] = "clarify" => labels'[j] = {"outcome"},
           labels'[j] = labels[j] \/ (st[w] \notin Outside /\ (w \in Fixer \/ st[w] \in Relying))
    PROVE  ParkedInv'
<1> SUFFICES ASSUME NEW i \in Issue PROVE ParkedOk(i)'
  BY DEF ParkedInv
<1>1. ParkedOk(i)
  BY DEF ParkedInv
<1>2. ASSUME NEW v \in Worker, v # w, Busy(v, i)' PROVE Busy(v, i) /\ st'[v] = st[v] /\ res'[v] = res[v]
  BY <1>2 DEF Others, Busy, IssueOf
<1>3. CASE i # j
  <2>1. ASSUME NEW v \in Worker, Busy(v, i)'
        PROVE  (st'[v] = "error" => labels'[i] \in Resting) /\ (st'[v] = "dispatch" /\ res'[v] = "clarify" => labels'[i] = {"outcome"})
    <3>1. v # w
      BY <1>3, <2>1 DEF Busy
    <3> QED
      BY <1>1, <1>2, <1>3, <2>1, <3>1 DEF ParkedOk
  <2> QED
    BY <1>1, <1>3, <2>1 DEF ParkedOk
<1>4. CASE i = j
  <2>1. ASSUME NEW v \in Worker, Busy(v, j)'
        PROVE  (st'[v] = "error" => labels'[j] \in Resting) /\ (st'[v] = "dispatch" /\ res'[v] = "clarify" => labels'[j] = {"outcome"})
    <3>1. CASE v = w
      BY <3>1
    <3>2. CASE v # w /\ labels'[j] = labels[j]
      BY <1>1, <1>2, <1>4, <2>1, <3>2 DEF ParkedOk
    <3>3. CASE v # w /\ labels'[j] # labels[j]
      <4>1. Busy(v, j) /\ st'[v] = st[v]
        BY <1>2, <1>4, <2>1, <3>3
      <4>2. st[v] \notin {"error", "dispatch"}
        BY <3>3, <4>1, AloneAtWork
      <4> QED
        BY <4>1, <4>2
    <3> QED
      BY <3>1, <3>2, <3>3
  <2> QED
    BY <1>4, <2>1 DEF ParkedOk
<1> QED
  BY <1>3, <1>4

(* A step of a worker touches its own slot.                                    *)
LEMMA OthersKept ==
    ASSUME SlotType, NEW w \in Worker, QueueStep(w) \/ AgentStep(w)
    PROVE  Others(w) /\ \A v \in Worker : v # w => res'[v] = res[v]
<1>1. ASSUME NEW pc, Goto(w, pc) PROVE \A v \in Worker : v # w => st'[v] = st[v]
  BY <1>1 DEF Goto, SlotType
<1>2. CASE AtEnd(w) /\ QueueStep(w)
  BY <1>2 DEF AtEnd, Goto, SlotType, Others
<1>3. ASSUME Fail(w), UNCHANGED <<task, cur, res>> PROVE Others(w) /\ \A v \in Worker : v # w => res'[v] = res[v]
  BY <1>3 DEF Fail, Goto, SlotType, Others
<1>4. CASE Take(w)
  BY <1>4 DEF Take, Goto, SlotType, Others
<1>5. CASE Acquire(w) \/ GiveUp(w) \/ PushError(w) \/ Clear(w) \/ (Release(w) /\ ~AtEnd(w))
  BY <1>5 DEF Acquire, GiveUp, PushError, Clear, Release, Goto, SlotType, Others
<1>6. CASE DropDuplicate(w) \/ (Release(w) /\ AtEnd(w)) \/ Requeue(w) \/ Stop(w) \/ Crash(w)
  BY <1>2, <1>6 DEF DropDuplicate, Release, Requeue, Stop, Crash, QueueStep
<1>7. CASE ReadIssue(w) \/ ReadFails(w)
  BY <1>7 DEF ReadIssue, ReadFails, Proceed, Goto, SlotType, Others
<1>8. CASE SkipClosed(w) \/ Stamp(w) \/ TerminalLabel(w) \/ TerminalLabelFails(w) \/ Dispatch(w) \/ FixDone(w)
  BY <1>8 DEF SkipClosed, Stamp, TerminalLabel, TerminalLabelFails, Dispatch, FixDone, Goto, SlotType, Others
<1>9. CASE StampFails(w) \/ TriageFails(w) \/ FixFailed(w)
  BY <1>3, <1>9 DEF StampFails, TriageFails, FixFailed
<1>10. ASSUME NEW r \in Resolutions, Triage(w, r) PROVE Others(w) /\ \A v \in Worker : v # w => res'[v] = res[v]
  BY <1>10 DEF Triage, Goto, SlotType, Others
<1>11. ASSUME NEW r \in FixOutcomes, Fix(w, r) PROVE Others(w) /\ \A v \in Worker : v # w => res'[v] = res[v]
  <2>1. CASE Fail(w)
    BY <1>3, <1>11, <2>1 DEF Fix
  <2>2. CASE ~Fail(w)
    BY <1>11, <2>2 DEF Fix, Goto, SlotType, Others
  <2> QED
    BY <2>1, <2>2
<1> QED
  BY <1>4, <1>5, <1>6, <1>7, <1>8, <1>9, <1>10, <1>11 DEF QueueStep, AgentStep

(* Taking a task from a queue changes no label and no list.                    *)
LEMMA TakeParked ==
    ASSUME Typed, ParkedInv, NEW w \in Worker, Take(w)
    PROVE  ParkedInv'
<1> SUFFICES ASSUME NEW i \in Issue PROVE ParkedOk(i)'
  BY DEF ParkedInv
<1>1. ParkedOk(i) /\ UNCHANGED <<labels, parked, res>> /\ st'[w] = "lock" /\ Others(w)
  <2>1. Others(w)
    BY OthersKept DEF Typed, QueueStep
  <2> QED
    BY <2>1 DEF ParkedInv, Take, jira, Goto, Typed, SlotType
<1>2. ASSUME NEW v \in Worker, v # w, Busy(v, i)' PROVE Busy(v, i) /\ st'[v] = st[v]
  BY <1>1, <1>2 DEF Others, Busy, IssueOf
<1> QED
  BY <1>1, <1>2 DEF ParkedOk

(* What a worker at work has, and what its step leaves to show.                *)
AtStep(w, j) ==
    /\ Typed /\ RoutingInv /\ ParkedInv
    /\ w \in Worker /\ j \in Issue /\ Busy(w, j)
    /\ Others(w) /\ \A v \in Worker : v # w => res'[v] = res[v]

(* Steps that write neither labels nor lists, and give nothing up.             *)
LEMMA QuietParked ==
    ASSUME NEW w, NEW j, AtStep(w, j), UNCHANGED <<labels, parked>>,
           st'[w] \notin {"error", "dispatch"}, st'[w] # "idle" => IssueOf(w)' = j
    PROVE  ParkedInv'
<1>1. parked'[j] # {} => labels'[j] \in Resting
  BY DEF AtStep, ParkedInv, ParkedOk
<1> QED
  BY <1>1, ParkedStep DEF AtStep

(* A step within a task of a worker: where it stands, whose task it has.       *)
LEMMA Stands ==
    ASSUME SlotType, NEW w \in Worker, NEW pc, Goto(w, pc)
    PROVE  st'[w] = pc /\ (UNCHANGED task => IssueOf(w)' = IssueOf(w))
BY DEF SlotType, Goto, IssueOf

(* The steps on the way of a task in and out of its slot.                      *)
LEMMA WayParked ==
    ASSUME NEW w, NEW j, AtStep(w, j),
           \/ Acquire(w) \/ DropDuplicate(w) \/ Release(w) \/ Requeue(w) \/ Stop(w) \/ Crash(w)
    PROVE  ParkedInv'
<1>0. w \in Worker /\ SlotType /\ IssueOf(w) = j
  BY DEF AtStep, Typed, Busy
<1>1. UNCHANGED <<labels, parked>>
  BY DEF Acquire, DropDuplicate, Release, Requeue, Stop, Crash, jira, redis
<1>2. CASE AtEnd(w)
  <2>1. st'[w] = "idle"
    BY <1>0, <1>2 DEF AtEnd, Goto, SlotType
  <2> QED
    BY <1>1, <2>1, QuietParked
<1>3. CASE ~AtEnd(w)
  <2>1. UNCHANGED task /\ \E pc \in {"read", "run", "requeue"} : Goto(w, pc)
    BY <1>3 DEF Acquire, DropDuplicate, Release, Requeue, Stop, Crash
  <2>2. st'[w] \notin {"error", "dispatch"} /\ IssueOf(w)' = j
    BY <1>0, <2>1, Stands
  <2> QED
    BY <1>1, <2>2, QuietParked
<1> QED
  BY <1>2, <1>3

(* Giving up: the issue is labelled as errored before it is put in the list.   *)
LEMMA GiveUpParked ==
    ASSUME NEW w, NEW j, AtStep(w, j), "swallow" \notin FaultKinds, GiveUp(w)
    PROVE  ParkedInv'
<1>0. w \in Worker /\ j \in Issue /\ SlotType /\ JiraType /\ IssueOf(w) = j /\ IssueInv(j) /\ Busy(w, j)
  BY DEF AtStep, Typed, Busy, RoutingInv
<1>1. /\ st[w] = "giveup" /\ Goto(w, "error") /\ UNCHANGED <<parked, task>>
      /\ Edit(j, IF w \in Triager THEN {"in_progress", "manual"} ELSE {"triaged"}, {"errored"})
  BY <1>0 DEF GiveUp, redis, BestEffort, Fault
<1>2. /\ labels'[j] = (labels[j] \ (IF w \in Triager THEN {"in_progress", "manual"} ELSE {"triaged"})) \cup {"errored"}
      /\ \A i \in Issue : i # j => labels'[i] = labels[i]
  BY <1>0, <1>1, EditFrame
<1>3. labels'[j] \in Resting
  <2>1. CASE w \in Triager
    <3>1. labels[j] \in {{}, {"in_progress"}}
      BY <1>0, <1>1, <2>1 DEF IssueInv, Relies
    <3>2. labels'[j] = {"errored"}
      BY <1>2, <2>1, <3>1
    <3> QED
      BY <3>2 DEF Resting
  <2>2. CASE w \notin Triager
    <3>1. labels[j] \in Resting \cup {{"triaged"}}
      BY <1>0, <2>2 DEF IssueInv, HasFix, Worker
    <3>2. labels'[j] = (labels[j] \ {"triaged"}) \cup {"errored"}
      BY <1>2, <2>2
    <3>3. labels'[j] = {"errored"} \/ labels'[j] = {"outcome", "errored"}
      BY <3>1, <3>2 DEF Resting
    <3> QED
      BY <3>3 DEF Resting
  <2> QED
    BY <2>1, <2>2
<1>4. st'[w] = "error" /\ IssueOf(w)' = j
  BY <1>0, <1>1, Stands
<1> QED
  BY <1>0, <1>1, <1>2, <1>3, <1>4, ParkedStep DEF AtStep, Relying, Outside

(* The lists are written when the labels are at rest, and cleared.             *)
LEMMA ListParked ==
    ASSUME NEW w, NEW j, AtStep(w, j), PushError(w) \/ Clear(w)
    PROVE  ParkedInv'
<1>0. w \in Worker /\ j \in Issue /\ SlotType /\ RedisType /\ IssueOf(w) = j /\ Busy(w, j) /\ ParkedOk(j)
  BY DEF AtStep, Typed, Busy, ParkedInv
<1>1. Goto(w, "release") /\ UNCHANGED <<labels, task>>
  BY DEF PushError, Clear, jira
<1>2. /\ \A i \in Issue : i # j => parked'[i] = parked[i]
      /\ parked'[j] # {} => labels[j] \in Resting
  <2>1. CASE PushError(w)
    BY <1>0, <2>1 DEF PushError, ParkedOk, RedisType
  <2>2. CASE Clear(w)
    BY <1>0, <2>2 DEF Clear, ParkedOk, RedisType
  <2> QED
    BY <2>1, <2>2
<1>3. st'[w] = "release" /\ IssueOf(w)' = j
  BY <1>0, <1>1, Stands
<1> QED
  BY <1>0, <1>1, <1>2, <1>3, ParkedStep DEF AtStep

(* The steps of an agent that write no label.                                  *)
LEMMA ThinkParked ==
    ASSUME NEW w, NEW j, AtStep(w, j), Setting,
           \/ ReadIssue(w) \/ ReadFails(w) \/ SkipClosed(w) \/ StampFails(w) \/ TriageFails(w) \/ TerminalLabelFails(w)
           \/ \E r \in FixOutcomes : Fix(w, r)
    PROVE  ParkedInv'
<1>0. w \in Worker /\ SlotType /\ IssueOf(w) = j /\ ~task[w].user
  BY DEF AtStep, Typed, Busy, RoutingInv, SlotInv, SlotOk
<1>1. UNCHANGED <<labels, parked, task>>
  BY <1>0 DEF ReadIssue, ReadFails, SkipClosed, StampFails, TriageFails, TerminalLabelFails, Fix, Proceed, jira, redis
<1>2. \E pc \in {"release", "stamp", "giveup", "done", "failed"} : Goto(w, pc)
  <2>1. Fail(w) => \E pc \in {"release", "giveup"} : Goto(w, pc)
    BY DEF Fail
  <2>2. CASE \E r \in FixOutcomes : Fix(w, r)
    BY <2>1, <2>2, IssueRoutingAssumption DEF Fix
  <2>3. CASE ReadIssue(w) \/ ReadFails(w)
    BY <2>3 DEF ReadIssue, ReadFails, Proceed
  <2>4. CASE SkipClosed(w) \/ StampFails(w) \/ TriageFails(w) \/ TerminalLabelFails(w)
    BY <2>1, <2>4 DEF SkipClosed, StampFails, TriageFails, TerminalLabelFails
  <2> QED
    BY <2>2, <2>3, <2>4
<1>3. st'[w] \notin {"error", "dispatch"} /\ IssueOf(w)' = j
  BY <1>0, <1>1, <1>2, Stands
<1> QED
  BY <1>1, <1>3, QuietParked

(* The labels triage writes are written where the lists are empty; what it     *)
(* parks for clarification it has labelled with its outcome.                   *)
LEMMA TriageParked ==
    ASSUME NEW w, NEW j, AtStep(w, j),
           Stamp(w) \/ TerminalLabel(w) \/ Dispatch(w) \/ \E r \in Resolutions : Triage(w, r)
    PROVE  ParkedInv'
<1>0. /\ w \in Worker /\ j \in Issue /\ SlotType /\ JiraType /\ RedisType /\ IssueOf(w) = j /\ Busy(w, j)
      /\ ParkedOk(j) /\ IssueInv(j) /\ SlotOk(w)
  BY DEF AtStep, Typed, Busy, ParkedInv, RoutingInv, SlotInv
<1>1. st[w] \in {"stamp", "label", "dispatch", "run"} /\ w \in Triager
  BY <1>0 DEF Stamp, TerminalLabel, Dispatch, Triage, SlotOk, Worker
<1>2. Relies(w, j) /\ st[w] \in Relying /\ st[w] \notin Outside
  BY <1>0, <1>1 DEF IssueInv, Relying, Outside
<1>3. ASSUME NEW remove, NEW add, Edit(j, remove, add), st[w] # "dispatch", UNCHANGED <<parked, task>>, NEW pc, Goto(w, pc),
             pc # "error", pc = "dispatch" /\ res'[w] = "clarify" => labels'[j] = {"outcome"}
      PROVE  ParkedInv'
  <2>1. \A i \in Issue : i # j => labels'[i] = labels[i]
    BY <1>0, <1>3, EditFrame
  <2>2. labels[j] \in {{}, {"in_progress"}}
    BY <1>1, <1>2, <1>3 DEF Relies
  <2>3. parked[j] = {}
    BY <1>0, <2>2 DEF ParkedOk, Resting
  <2>4. st'[w] = pc /\ IssueOf(w)' = j
    BY <1>0, <1>3, Stands
  <2> QED
    BY <1>0, <1>2, <1>3, <2>1, <2>3, <2>4, ParkedStep DEF AtStep
<1>4. CASE Stamp(w)
  BY <1>0, <1>3, <1>4 DEF Stamp, redis
<1>5. CASE TerminalLabel(w)
  <2>1. /\ st[w] = "label" /\ Goto(w, "dispatch") /\ UNCHANGED <<parked, task, res>>
    BY <1>5 DEF TerminalLabel, redis
  <2>2. PICK remove, add : /\ Edit(j, remove, add)
                           /\ res[w] = "clarify" => remove = {"in_progress"} /\ add = {"outcome"}
    BY <1>0, <1>5 DEF TerminalLabel
  <2>3. labels'[j] = (labels[j] \ remove) \cup add
    BY <1>0, <2>2, EditFrame
  <2>4. labels[j] = {"in_progress"}
    BY <1>2, <2>1 DEF Relies
  <2>5. res'[w] = "clarify" => labels'[j] = {"outcome"}
    BY <2>1, <2>2, <2>3, <2>4
  <2> QED
    BY <1>3, <2>1, <2>2, <2>5
<1>6. ASSUME NEW r \in Resolutions, Triage(w, r) PROVE ParkedInv'
  <2>1. CASE r = "hold"
    BY <1>0, <1>3, <1>6, <2>1 DEF Triage, redis
  <2>2. CASE r # "hold"
    <3>1. UNCHANGED <<labels, parked, task>> /\ Goto(w, "label")
      BY <1>6, <2>2 DEF Triage, redis, jira
    <3>2. st'[w] = "label" /\ IssueOf(w)' = j
      BY <1>0, <3>1, Stands
    <3> QED
      BY <3>1, <3>2, QuietParked
  <2> QED
    BY <2>1, <2>2
<1>7. CASE Dispatch(w)
  <2>1. st[w] = "dispatch" /\ Goto(w, "clear") /\ UNCHANGED <<labels, task>>
    BY <1>7 DEF Dispatch, jira
  <2>2. UNCHANGED parked \/ (res[w] = "clarify" /\ parked' = [parked EXCEPT ![j] = @ \cup {"clarification"}])
    BY <1>0, <1>7 DEF Dispatch
  <2>3. res[w] = "clarify" => labels[j] \in Resting
    BY <1>0, <2>1 DEF ParkedOk, Resting
  <2>4. /\ \A i \in Issue : i # j => parked'[i] = parked[i]
        /\ parked'[j] # {} => labels[j] \in Resting
    BY <1>0, <2>2, <2>3 DEF ParkedOk, RedisType
  <2>5. st'[w] = "clear" /\ IssueOf(w)' = j
    BY <1>0, <2>1, Stands
  <2> QED
    BY <1>0, <2>1, <2>4, <2>5, ParkedStep DEF AtStep
<1> QED
  BY <1>4, <1>5, <1>6, <1>7

(* A fix that is done is labelled with its outcome.                            *)
LEMMA FixParked ==
    ASSUME NEW w, NEW j, AtStep(w, j), FixDone(w)
    PROVE  ParkedInv'
<1>0. /\ w \in Worker /\ j \in Issue /\ SlotType /\ JiraType /\ IssueOf(w) = j /\ Busy(w, j)
      /\ ParkedOk(j) /\ IssueInv(j) /\ SlotOk(w)
  BY DEF AtStep, Typed, Busy, ParkedInv, RoutingInv, SlotInv
<1>1. /\ st[w] = "done" /\ Goto(w, "clear") /\ UNCHANGED <<parked, task>>
      /\ UNCHANGED labels \/ Edit(j, {"triaged", "errored", "failed"}, {"outcome"})
  BY <1>0 DEF FixDone, redis, jira, BestEffort
<1>2. w \in Fixer /\ HasFix(j)
  BY <1>0, <1>1 DEF SlotOk, Worker, HasFix
<1>3. st'[w] = "clear" /\ IssueOf(w)' = j
  BY <1>0, <1>1, Stands
<1>4. CASE UNCHANGED labels
  BY <1>1, <1>3, <1>4, QuietParked
<1>5. CASE Edit(j, {"triaged", "errored", "failed"}, {"outcome"})
  <2>1. /\ labels'[j] = (labels[j] \ {"triaged", "errored", "failed"}) \cup {"outcome"}
        /\ \A i \in Issue : i # j => labels'[i] = labels[i]
    BY <1>0, <1>5, EditFrame
  <2>2. labels'[j] = {"outcome"}
    BY <1>0, <1>2, <2>1 DEF IssueInv, Resting
  <2>3. labels'[j] \in Resting
    BY <2>2 DEF Resting
  <2> QED
    BY <1>0, <1>1, <1>2, <1>3, <2>1, <2>3, ParkedStep DEF AtStep, Outside
<1> QED
  BY <1>1, <1>4, <1>5

(* Every step of a worker keeps the agreement.                                 *)
LEMMA WorkerParked ==
    ASSUME Typed, RoutingInv, ParkedInv, Setting, "swallow" \notin FaultKinds,
           NEW w \in Worker, QueueStep(w) \/ AgentStep(w)
    PROVE  ParkedInv'
<1>1. CASE Take(w)
  BY <1>1, TakeParked
<1>2. CASE ~Take(w)
  <2>1. st[w] # "idle"
    BY <1>2 DEF QueueStep, AgentStep, Acquire, DropDuplicate, Release, Requeue, GiveUp, PushError, Clear, Stop, Crash,
       ReadIssue, ReadFails, SkipClosed, Stamp, StampFails, TriageFails, TerminalLabel, TerminalLabelFails,
       Dispatch, FixDone, FixFailed, Triage, Fix
  <2>2. PICK j \in Issue : IssueOf(w) = j
    BY <2>1, IssueType DEF Typed
  <2>3. AtStep(w, j)
    BY <2>1, <2>2, OthersKept DEF AtStep, Busy, Typed
  <2>4. ~FixFailed(w)
    BY <2>1 DEF FixFailed, RoutingInv, SlotInv, SlotOk
  <2> QED
    BY <1>2, <2>3, <2>4, WayParked, GiveUpParked, ListParked, ThinkParked, TriageParked, FixParked DEF QueueStep, AgentStep
<1> QED
  BY <1>1, <1>2

(* Steps of others write the labels only where nobody is at work on an issue   *)
(* that is not at rest.                                                        *)
LEMMA BesideParked ==
    ASSUME ParkedInv, UNCHANGED <<parked, slots>>,
           \A i \in Issue : labels'[i] = labels[i] \/ (~Carried(i) /\ labels[i] \notin Resting)
    PROVE  ParkedInv'
<1> SUFFICES ASSUME NEW i \in Issue PROVE ParkedOk(i)'
  BY DEF ParkedInv
<1>1. /\ ParkedOk(i) /\ parked' = parked
      /\ \A w \in Worker : (Busy(w, i)' <=> Busy(w, i)) /\ st'[w] = st[w] /\ res'[w] = res[w]
  BY DEF ParkedInv, slots, Busy, IssueOf
<1>2. CASE labels'[i] = labels[i]
  BY <1>1, <1>2 DEF ParkedOk
<1>3. CASE ~Carried(i) /\ labels[i] \notin Resting
  <2>1. parked[i] = {} /\ \A w \in Worker : ~Busy(w, i)
    BY <1>1, <1>3, Nobody DEF ParkedOk
  <2> QED
    BY <1>1, <2>1 DEF ParkedOk
<1> QED
  BY <1>2, <1>3

(* The fetchers do: they consume a trigger, or replace an abandoned label.     *)
LEMMA FetcherParked ==
    ASSUME Typed, RoutingInv, ParkedInv, NEW f \in Fetcher, FetcherStep(f)
    PROVE  ParkedInv'
<1>1. UNCHANGED <<parked, slots>>
  BY DEF FetcherStep, Sweep, Search, ReadDepth, ReadQueue, ReadLocks, Marked, Enqueue, EndSweep, ReadQueueFails, FetcherDies,
         MarkTodo, MarkAbandoned, MarkByLabels, SkipIssue, Consume, MarkUnverified, MarkAbandonedFails, ConsumeFails, redis
<1>2. CASE UNCHANGED labels
  BY <1>1, <1>2, BesideParked
<1>3. ASSUME NEW i \in Issue, MarkAbandoned(f, i) PROVE ParkedInv'
  <2>1. JiraType /\ Marking(f, i) /\ Sees(f, i) /\ Unmarked(f, i) /\ fet[f].seen[i] \in Shapes
    BY <1>3, MarkFacts DEF Typed, MarkAbandoned
  <2>2. PICK l \in Stale(fet[f].seen[i], TRUE) : Edit(i, {l}, {"retry"})
    BY <1>3 DEF MarkAbandoned
  <2>3. i \in fet[f].stale
    BY <1>3 DEF MarkAbandoned, Abandoned, Stale
  <2>4. labels[i] = fet[f].seen[i] /\ ~Carried(i)
    BY <2>1, <2>3 DEF Sees
  <2>5. labels[i] \notin Resting
    BY <2>2, <2>4 DEF Stale, Resting, InFlight
  <2>6. \A k \in Issue : k # i => labels'[k] = labels[k]
    BY <2>1, <2>2, EditFrame
  <2> QED
    BY <1>1, <2>4, <2>5, <2>6, BesideParked
<1>4. ASSUME NEW i \in Issue, Consume(f, i), ~UNCHANGED labels PROVE ParkedInv'
  <2>1. JiraType /\ SweepOk(f) /\ fet[f].pc = "push" /\ i \in fet[f].left /\ fet[f].user = {}
    BY <1>4 DEF Typed, RoutingInv, SweepInv, Consume, Pushing, SweepOk
  <2>2. i \in fet[f].retry /\ Edit(i, {"retry"}, {"in_progress"})
    BY <1>4, <2>1 DEF Consume, Rerun, jira
  <2>3. labels[i] = {"retry"} /\ ~Carried(i)
    BY <2>1, <2>2 DEF SweepOk, Sees, Unpushed
  <2>4. labels[i] \notin Resting
    BY <2>3 DEF Resting
  <2>5. \A k \in Issue : k # i => labels'[k] = labels[k]
    BY <2>1, <2>2, EditFrame
  <2> QED
    BY <1>1, <2>3, <2>4, <2>5, BesideParked
<1>5. ASSUME NEW i \in Issue, MarkUnverified(f, i) PROVE FALSE
  BY <1>5, MarkFacts DEF MarkUnverified
<1> QED
  BY <1>2, <1>3, <1>4, <1>5 DEF FetcherStep, Sweep, Search, ReadDepth, ReadQueue, ReadLocks, Marked, Enqueue, EndSweep, ReadQueueFails,
         FetcherDies, MarkTodo, MarkByLabels, SkipIssue, MarkAbandonedFails, ConsumeFails, jira

(* Together: every step keeps it.                                              *)
LEMMA NextParked ==
    ASSUME Typed, RoutingInv, ParkedInv, Setting, "swallow" \notin FaultKinds, [Next]_vars
    PROVE  ParkedInv'
<1>1. CASE UNCHANGED vars
  <2>1. UNCHANGED <<labels, parked, slots>>
    BY <1>1 DEF vars, jira, redis
  <2> QED
    BY <2>1, BesideParked
<1>2. ASSUME NEW i \in Issue, WorldStep(i) PROVE ParkedInv'
  <2>1. UNCHANGED <<labels, parked, slots>>
    BY <1>2 DEF WorldStep, Age, Close, Expire, Setting, jira, redis
  <2> QED
    BY <2>1, BesideParked
<1>3. ASSUME NEW f \in Fetcher, FetcherStep(f) PROVE ParkedInv'
  BY <1>3, FetcherParked
<1>4. ASSUME NEW w \in Worker, QueueStep(w) \/ AgentStep(w) PROVE ParkedInv'
  BY <1>4, WorkerParked
<1> QED
  BY <1>1, <1>2, <1>3, <1>4, StepCases

(* A mark whose work is gone is the only label of its issue, which lies in no  *)
(* list: the next sweep after a day finds it abandoned.                        *)
LEMMA RoutingFinds == ASSUME RoutingInv, ParkedInv PROVE NeverWedged
<1> SUFFICES ASSUME NEW i \in Issue, Marks(i) PROVE Recoverable(i)
  BY DEF NeverWedged
<1>1. labels[i] \in {{"in_progress"}, {"triaged"}} /\ ParkedOk(i)
  BY ShapeFacts DEF RoutingInv, IssueInv, ParkedInv, Marks
<1>2. parked[i] = {}
  BY <1>1 DEF ParkedOk, Resting
<1>3. \/ "in_progress" \in Stale(labels[i], TRUE)
      \/ "triaged" \in Stale(labels[i], TRUE)
  BY <1>1 DEF Stale, InFlight
<1> QED
  BY <1>2, <1>3 DEF Recoverable

(* For any numbers of issues, slots, attempts and faults, no issue is marked   *)
(* as being worked on that nobody works on and no sweep will pick up, as long  *)
(* as the labels of a task that is given up are written.                       *)
THEOREM NothingIsWedged ==
    ASSUME Setting, "swallow" \notin FaultKinds
    PROVE  Spec => []NeverWedged
<1>1. Init => Typed /\ RoutingInv /\ ParkedInv
  <2>1. Init => ParkedInv
    BY DEF Init, ParkedInv, ParkedOk, Busy
  <2> QED
    BY <2>1, InitTyped, InitRouting
<1>2. Typed /\ RoutingInv /\ ParkedInv /\ [Next]_vars => (Typed /\ RoutingInv /\ ParkedInv)'
  BY NextTyped, NextRouting, NextParked
<1>3. Typed /\ RoutingInv /\ ParkedInv => NeverWedged
  BY RoutingFinds
<1> QED
  BY <1>1, <1>2, <1>3, PTL DEF Spec

-----------------------------------------------------------------------------
(* Requests of people.  Tasks that a ymir_todo led to, queued or in a slot,    *)
(* and those triage tasks among them whose fix is not pushed yet.              *)
CopiesIn(q, k) == UNION {{<<t, n>> : n \in 1 .. q[k][t]} : t \in {u \in Task : u.user}}
UserCopies(k)  == CopiesIn(queue, k)
UserSlots(k)   == {w \in Worker : KindOf(w) = k /\ st[w] # "idle" /\ task[w].user}
Undispatched   == {"lock", "read", "stamp", "run", "label", "dispatch"}
Open(w)        == st[w] \in Undispatched \/ requeue[w] # NoTask
OpenSlots      == {w \in UserSlots("triage") : Open(w)}

(* The requests that no task stands for yet: the label is there, or a sweep    *)
(* has seen it, or has consumed it and is about to push.                       *)
Asked(f, i) ==
    \/ fet[f].pc \in {"depth", "scan", "mark"} /\ ("todo" \in fet[f].seen[i] \/ i \in fet[f].user)
    \/ fet[f].pc \in {"push", "enqueue"} /\ i \in fet[f].left \cap fet[f].user
Requests == {i \in Issue : "todo" \in labels[i] \/ \E f \in Fetcher : Asked(f, i)}
Granted  == {i \in Issue : \E f \in Fetcher : fet[f].pc = "enqueue" /\ i \in fet[f].unread \cap fet[f].user}

(* A retry keeps the user of its task, and waits for the release of the lock;  *)
(* the two stages have positions of their own.                                 *)
Fits(w) ==
    /\ requeue[w] # NoTask => st[w] \in {"release", "requeue"} /\ requeue[w].user = task[w].user
    /\ st[w] = "requeue" => requeue[w] # NoTask
    /\ st[w] \in {"label", "dispatch"} => w \in Triager
    /\ st[w] = "failed" => w \in Fixer

(* Each stage has an account that the labels people added pay for.             *)
Waiting == Cardinality(Requests) + Cardinality(Granted)
Account ==
    /\ Cardinality(UserCopies("triage")) + Cardinality(UserSlots("triage")) + Waiting <= triggers
    /\ Cardinality(UserCopies("fix")) + Cardinality(UserSlots("fix"))
         + Cardinality(UserCopies("triage")) + Cardinality(OpenSlots) + Waiting <= triggers
TodoInv ==
    /\ \A w \in Worker : Fits(w)
    /\ \A k \in Kind : IsFiniteSet(UserSlots(k))
    /\ Account

(* A set within another and one element more, or less.                         *)
LEMMA OneMore ==
    ASSUME NEW S, IsFiniteSet(S), NEW T, NEW x
    PROVE  /\ T \subseteq S => IsFiniteSet(T) /\ Cardinality(T) \in Nat /\ Cardinality(T) <= Cardinality(S)
           /\ T \subseteq S \cup {x} => IsFiniteSet(T) /\ Cardinality(T) \in Nat /\ Cardinality(T) <= Cardinality(S) + 1
           /\ T \subseteq S \ {x} /\ x \in S => IsFiniteSet(T) /\ Cardinality(T) \in Nat /\ Cardinality(T) <= Cardinality(S) - 1
<1>1. Cardinality(S) \in Nat
  BY FS_CardinalityType
<1>2. ASSUME T \subseteq S PROVE IsFiniteSet(T) /\ Cardinality(T) \in Nat /\ Cardinality(T) <= Cardinality(S)
  BY <1>2, FS_Subset, FS_CardinalityType
<1>3. ASSUME T \subseteq S \cup {x} PROVE IsFiniteSet(T) /\ Cardinality(T) \in Nat /\ Cardinality(T) <= Cardinality(S) + 1
  <2>1. IsFiniteSet(S \cup {x}) /\ Cardinality(S \cup {x}) <= Cardinality(S) + 1 /\ Cardinality(S \cup {x}) \in Nat
    BY <1>1, FS_AddElement, FS_CardinalityType
  <2>2. IsFiniteSet(T) /\ Cardinality(T) <= Cardinality(S \cup {x})
    BY <1>3, <2>1, FS_Subset
  <2>3. Cardinality(T) \in Nat
    BY <2>2, FS_CardinalityType
  <2> QED
    BY <1>1, <2>1, <2>2, <2>3
<1>4. ASSUME T \subseteq S \ {x}, x \in S PROVE IsFiniteSet(T) /\ Cardinality(T) \in Nat /\ Cardinality(T) <= Cardinality(S) - 1
  <2>1. IsFiniteSet(S \ {x}) /\ Cardinality(S \ {x}) = Cardinality(S) - 1 /\ Cardinality(S \ {x}) \in Nat
    BY <1>4, FS_RemoveElement, FS_CardinalityType
  <2>2. IsFiniteSet(T) /\ Cardinality(T) <= Cardinality(S \ {x})
    BY <1>4, <2>1, FS_Subset
  <2>3. Cardinality(T) \in Nat
    BY <2>2, FS_CardinalityType
  <2> QED
    BY <1>1, <2>1, <2>2, <2>3
<1> QED
  BY <1>2, <1>3, <1>4

(* Copies of the tasks of users are finitely many, and numbered.               *)
LEMMA CopiesFacts ==
    ASSUME NEW q \in [Kind -> [Task -> Nat]], NEW k \in Kind
    PROVE  /\ IsFiniteSet(CopiesIn(q, k))
           /\ \A t \in Task : \A n \in Nat : <<t, n>> \in CopiesIn(q, k) <=> t.user /\ 1 <= n /\ n <= q[k][t]
           /\ \A p \in CopiesIn(q, k) : \E t \in Task, n \in Nat : p = <<t, n>>
<1> DEFINE C(t) == {<<t, n>> : n \in 1 .. q[k][t]}
           U == {u \in Task : u.user}
           S == {C(t) : t \in U}
<1>1. IsFiniteSet(U)
  BY TasksFinite, FS_Subset
<1>2. IsFiniteSet(S)
  <2> DEFINE h == [t \in U |-> C(t)]
  <2>1. (\A s \in S : \E t \in U : s = C(t)) /\ (\A t \in U : C(t) \in S)
    OBVIOUS
  <2> HIDE DEF C, S
  <2>2. h \in Surjection(U, S)
    BY <2>1 DEF Surjection
  <2> QED
    BY <1>1, <2>2, FS_Surjection
<1>3. ASSUME NEW t \in Task PROVE IsFiniteSet(C(t))
  <2>1. q[k][t] \in Nat
    OBVIOUS
  <2> DEFINE D == 1 .. q[k][t]
             g == [n \in D |-> <<t, n>>]
  <2>2. IsFiniteSet(D)
    BY <2>1, FS_Interval
  <2>3. g \in Surjection(D, C(t))
    BY DEF Surjection
  <2> QED
    BY <2>2, <2>3, FS_Surjection
<1>4. IsFiniteSet(CopiesIn(q, k))
  <2>1. \A T \in S : IsFiniteSet(T)
    BY <1>3
  <2> QED
    BY <1>2, <2>1, FS_UNION DEF CopiesIn
<1>5. ASSUME NEW t \in Task, NEW n \in Nat
      PROVE  <<t, n>> \in CopiesIn(q, k) <=> t.user /\ 1 <= n /\ n <= q[k][t]
  <2>1. q[k][t] \in Nat
    OBVIOUS
  <2>2. <<t, n>> \in CopiesIn(q, k) <=> \E u \in U : <<t, n>> \in C(u)
    BY DEF CopiesIn
  <2>3. \A u \in U : <<t, n>> \in C(u) <=> u = t /\ n \in 1 .. q[k][u]
    OBVIOUS
  <2> QED
    BY <2>1, <2>2, <2>3
<1>6. ASSUME NEW p \in CopiesIn(q, k) PROVE \E t \in Task, n \in Nat : p = <<t, n>>
  <2>1. PICK t \in U : p \in C(t)
    BY <1>6 DEF CopiesIn
  <2>2. PICK n \in 1 .. q[k][t] : p = <<t, n>>
    BY <2>1
  <2>3. q[k][t] \in Nat /\ n \in Nat
    BY <2>1
  <2> QED
    BY <2>1, <2>2, <2>3
<1> QED
  BY <1>4, <1>5, <1>6

(* A push adds a copy to one queue, none if it is nobody's request.            *)
LEMMA CopiesPushed ==
    ASSUME queue \in [Kind -> [Task -> Nat]], NEW k \in Kind, NEW t \in Task, Push(k, t)
    PROVE  /\ Cardinality(UserCopies(k)') <= Cardinality(UserCopies(k)) + (IF t.user THEN 1 ELSE 0)
           /\ \A j \in Kind \ {k} : Cardinality(UserCopies(j)') <= Cardinality(UserCopies(j))
           /\ \A j \in Kind : Cardinality(UserCopies(j)) \in Nat /\ Cardinality(UserCopies(j)') \in Nat
<1> DEFINE x == <<t, queue[k][t] + 1>>
<1>1. /\ queue' \in [Kind -> [Task -> Nat]] /\ queue[k][t] \in Nat
      /\ queue'[k][t] = queue[k][t] + 1
      /\ \A u \in Task : u # t => queue'[k][u] = queue[k][u]
      /\ \A j \in Kind \ {k} : \A u \in Task : queue'[j][u] = queue[j][u]
  BY DEF Push
<1>2. ASSUME NEW j \in Kind, NEW u \in Task, NEW n \in Nat, <<u, n>> \in UserCopies(j)', <<u, n>> \notin UserCopies(j)
      PROVE  j = k /\ t.user /\ <<u, n>> = x
  <2>1. u.user /\ 1 <= n /\ n <= queue'[j][u]
    BY <1>1, <1>2, CopiesFacts DEF UserCopies
  <2>2. ~(n <= queue[j][u])
    BY <1>2, <2>1, CopiesFacts DEF UserCopies
  <2>3. j = k /\ u = t
    BY <1>1, <2>1, <2>2
  <2>5. n <= queue'[k][t] /\ ~(n <= queue[k][t])
    BY <2>1, <2>2, <2>3
  <2>4. n = queue[k][t] + 1
    BY <1>1, <2>5
  <2> QED
    BY <2>1, <2>3, <2>4
<1>3. ASSUME NEW j \in Kind PROVE UserCopies(j)' \subseteq UserCopies(j) \cup (IF j = k /\ t.user THEN {x} ELSE {})
  <2> SUFFICES ASSUME NEW p \in UserCopies(j)', p \notin UserCopies(j) PROVE p \in (IF j = k /\ t.user THEN {x} ELSE {})
    OBVIOUS
  <2>1. PICK u \in Task, n \in Nat : p = <<u, n>>
    BY <1>1, CopiesFacts DEF UserCopies
  <2> QED
    BY <1>2, <2>1
<1>4. \A j \in Kind : IsFiniteSet(UserCopies(j)) /\ Cardinality(UserCopies(j)) \in Nat
  BY CopiesFacts, FS_CardinalityType DEF UserCopies
<1> HIDE DEF x
<1>5. ASSUME NEW j \in Kind, ~(j = k /\ t.user)
      PROVE Cardinality(UserCopies(j)') <= Cardinality(UserCopies(j)) /\ Cardinality(UserCopies(j)') \in Nat
  <2>1. UserCopies(j)' \subseteq UserCopies(j)
    BY <1>3, <1>5
  <2> QED
    BY <1>4, <2>1, OneMore
<1>6. ASSUME t.user
      PROVE Cardinality(UserCopies(k)') <= Cardinality(UserCopies(k)) + 1 /\ Cardinality(UserCopies(k)') \in Nat
  <2>1. UserCopies(k)' \subseteq UserCopies(k) \cup {x}
    BY <1>3, <1>6
  <2> QED
    BY <1>4, <2>1, OneMore
<1> QED
  BY <1>4, <1>5, <1>6

(* Taking a task removes a copy from its queue.                                *)
LEMMA CopiesTaken ==
    ASSUME queue \in [Kind -> [Task -> Nat]], NEW k \in Kind, NEW t \in Task, queue[k][t] > 0,
           queue' = [queue EXCEPT ![k][t] = @ - 1]
    PROVE  /\ Cardinality(UserCopies(k)') <= Cardinality(UserCopies(k)) - (IF t.user THEN 1 ELSE 0)
           /\ \A j \in Kind \ {k} : Cardinality(UserCopies(j)') <= Cardinality(UserCopies(j))
           /\ \A j \in Kind : Cardinality(UserCopies(j)) \in Nat /\ Cardinality(UserCopies(j)') \in Nat
<1> DEFINE x == <<t, queue[k][t]>>
<1>1. /\ queue' \in [Kind -> [Task -> Nat]] /\ queue[k][t] \in Nat
      /\ queue'[k][t] = queue[k][t] - 1
      /\ \A u \in Task : u # t => queue'[k][u] = queue[k][u]
      /\ \A j \in Kind \ {k} : \A u \in Task : queue'[j][u] = queue[j][u]
  OBVIOUS
<1>2. ASSUME NEW j \in Kind, NEW u \in Task, NEW n \in Nat, <<u, n>> \in UserCopies(j)'
      PROVE  <<u, n>> \in UserCopies(j) /\ (j = k => <<u, n>> # x)
  <2>1. u.user /\ 1 <= n /\ n <= queue'[j][u]
    BY <1>1, <1>2, CopiesFacts DEF UserCopies
  <2>2. n <= queue[j][u]
    BY <1>1, <2>1
  <2>3. <<u, n>> \in UserCopies(j)
    BY <2>1, <2>2, CopiesFacts DEF UserCopies
  <2>4. j = k /\ u = t => n # queue[k][t]
    BY <1>1, <2>1
  <2> QED
    BY <2>3, <2>4
<1>3. ASSUME NEW j \in Kind PROVE UserCopies(j)' \subseteq UserCopies(j) \ (IF j = k THEN {x} ELSE {})
  <2> SUFFICES ASSUME NEW p \in UserCopies(j)' PROVE p \in UserCopies(j) /\ (j = k => p # x)
    OBVIOUS
  <2>2. p \in CopiesIn(queue', j)
    BY DEF UserCopies
  <2>1. PICK u \in Task, n \in Nat : p = <<u, n>>
    BY ONLY <1>1, <2>2, j \in Kind, CopiesFacts
  <2> QED
    BY <1>2, <2>1
<1>4. \A j \in Kind : IsFiniteSet(UserCopies(j)) /\ Cardinality(UserCopies(j)) \in Nat
  BY CopiesFacts, FS_CardinalityType DEF UserCopies
<1>5. t.user => x \in UserCopies(k)
  BY <1>1, CopiesFacts DEF UserCopies
<1> HIDE DEF x
<1>6. ASSUME NEW j \in Kind
      PROVE Cardinality(UserCopies(j)') <= Cardinality(UserCopies(j)) /\ Cardinality(UserCopies(j)') \in Nat
  <2>1. UserCopies(j)' \subseteq UserCopies(j)
    BY <1>3
  <2> QED
    BY <1>4, <2>1, OneMore
<1>7. ASSUME t.user PROVE Cardinality(UserCopies(k)') <= Cardinality(UserCopies(k)) - 1
  <2>1. UserCopies(k)' \subseteq UserCopies(k) \ {x}
    BY <1>3
  <2> QED
    BY <1>4, <1>5, <1>7, <2>1, OneMore
<1> QED
  BY <1>4, <1>6, <1>7

(* The terms of the accounts are numbers.                                      *)
LEMMA Numbers ==
    ASSUME Typed, TodoInv
    PROVE  /\ \A k \in Kind : /\ IsFiniteSet(UserCopies(k)) /\ Cardinality(UserCopies(k)) \in Nat
                              /\ IsFiniteSet(UserSlots(k)) /\ Cardinality(UserSlots(k)) \in Nat
           /\ IsFiniteSet(OpenSlots) /\ Cardinality(OpenSlots) \in Nat
           /\ IsFiniteSet(Requests) /\ Cardinality(Requests) \in Nat
           /\ IsFiniteSet(Granted) /\ Cardinality(Granted) \in Nat
           /\ triggers \in Nat
<1>1. \A k \in Kind : IsFiniteSet(UserCopies(k)) /\ Cardinality(UserCopies(k)) \in Nat
  BY CopiesFacts, FS_CardinalityType DEF UserCopies, Typed, RedisType
<1>2. \A k \in Kind : IsFiniteSet(UserSlots(k)) /\ Cardinality(UserSlots(k)) \in Nat
  BY FS_CardinalityType DEF TodoInv
<1>3. IsFiniteSet(OpenSlots) /\ Cardinality(OpenSlots) \in Nat
  <2>1. OpenSlots \subseteq UserSlots("triage")
    BY DEF OpenSlots
  <2> QED
    BY <1>2, <2>1, Names, OneMore
<1>4. IsFiniteSet(Requests) /\ Cardinality(Requests) \in Nat /\ IsFiniteSet(Granted) /\ Cardinality(Granted) \in Nat
  <2>1. Requests \subseteq Issue /\ Granted \subseteq Issue /\ IsFiniteSet(Issue)
    BY IssueRoutingAssumption DEF Requests, Granted
  <2> QED
    BY <2>1, OneMore
<1> QED
  BY <1>1, <1>2, <1>3, <1>4 DEF Typed, BoundType

(* A step after which no term is greater.                                      *)
LEMMA AccountsKept ==
    ASSUME Typed, TodoInv, \A w \in Worker : Fits(w)',
           \A k \in Kind : Cardinality(UserCopies(k)') \in Nat /\ Cardinality(UserCopies(k)') <= Cardinality(UserCopies(k)),
           \A k \in Kind : UserSlots(k)' \subseteq UserSlots(k),
           OpenSlots' \subseteq OpenSlots, Requests' \subseteq Requests, Granted' \subseteq Granted, triggers' = triggers
    PROVE  TodoInv'
<1>1. \A k \in Kind : /\ IsFiniteSet(UserSlots(k)') /\ Cardinality(UserSlots(k)') \in Nat
                      /\ Cardinality(UserSlots(k)') <= Cardinality(UserSlots(k))
  BY Numbers, OneMore
<1>2. /\ Cardinality(OpenSlots') \in Nat /\ Cardinality(OpenSlots') <= Cardinality(OpenSlots)
      /\ Cardinality(Requests') \in Nat /\ Cardinality(Requests') <= Cardinality(Requests)
      /\ Cardinality(Granted') \in Nat /\ Cardinality(Granted') <= Cardinality(Granted)
  BY Numbers, OneMore
<1>3. Waiting' <= Waiting /\ Waiting' \in Nat /\ Waiting \in Nat
  BY <1>2, Numbers DEF Waiting
<1>4. Account'
  <2>1. "triage" \in Kind /\ "fix" \in Kind
    BY Names
  <2> HIDE DEF Waiting
  <2> QED
    BY <1>1, <1>2, <1>3, <2>1, Numbers DEF Account, TodoInv
<1> QED
  BY <1>1, <1>4 DEF TodoInv

(* Nobody but people adds a ymir_todo.                                         *)
NoNewTodo == \A i \in Issue : "todo" \in labels'[i] => "todo" \in labels[i]

(* An edit that adds no ymir_todo does not, either.                             *)
LEMMA EditKeeps ==
    ASSUME JiraType, NEW j \in Issue, NEW remove, NEW add, "todo" \notin add, Edit(j, remove, add)
    PROVE  NoNewTodo
BY DEF JiraType, Edit, NoNewTodo

(* What a step of one slot leaves alone.                                       *)
OtherSlots(w) == \A v \in Worker : v # w => st'[v] = st[v] /\ task'[v] = task[v] /\ requeue'[v] = requeue[v]

(* A slot that goes on with its task, or ends it, and leaves queues and sweeps *)
(* alone, keeps the accounts if its triage does not become open again.         *)
LEMMA SlotKeeps ==
    ASSUME Typed, TodoInv, NEW w \in Worker, st[w] # "idle", OtherSlots(w), UNCHANGED <<queue, fet, triggers>>, NoNewTodo,
           st'[w] # "idle" => task'[w] = task[w],
           Fits(w)', w \in Triager /\ st'[w] # "idle" /\ Open(w)' => Open(w)
    PROVE  TodoInv'
<1>1. \A v \in Worker : Fits(v)'
  BY DEF TodoInv, Fits, OtherSlots
<1>2. \A k \in Kind : UserCopies(k)' = UserCopies(k)
  BY DEF UserCopies
<1>3. \A k \in Kind : Cardinality(UserCopies(k)') \in Nat /\ Cardinality(UserCopies(k)') <= Cardinality(UserCopies(k))
  BY <1>2, Numbers
<1>4. \A k \in Kind : UserSlots(k)' \subseteq UserSlots(k)
  BY DEF UserSlots, OtherSlots, KindOf
<1>5. OpenSlots' \subseteq OpenSlots
  <2> SUFFICES ASSUME NEW v \in OpenSlots' PROVE v \in OpenSlots
    OBVIOUS
  <2>1. v \in UserSlots("triage")' /\ Open(v)'
    BY DEF OpenSlots
  <2>2. v \in UserSlots("triage") /\ v \in Worker /\ KindOf(v) = "triage" /\ st'[v] # "idle"
    BY <1>4, <2>1, Names DEF UserSlots
  <2>3. v # w => Open(v)
    BY <2>1, <2>2 DEF Open, OtherSlots
  <2>4. v = w => Open(v)
    BY <2>1, <2>2 DEF KindOf
  <2> QED
    BY <2>2, <2>3, <2>4 DEF OpenSlots
<1>6. Requests' \subseteq Requests /\ Granted' \subseteq Granted
  BY DEF Requests, Granted, Asked, NoNewTodo
<1> QED
  BY <1>1, <1>3, <1>4, <1>5, <1>6, AccountsKept

(* A step within a task that retries nothing.                                  *)
LEMMA MoveKeeps ==
    ASSUME Typed, TodoInv, NEW w \in Worker, st[w] \notin {"idle", "release", "requeue"},
           NEW pc \in Positions \ {"idle", "requeue"}, Goto(w, pc), UNCHANGED <<queue, fet, task, requeue, triggers>>, NoNewTodo,
           w \in Triager /\ pc \in Undispatched => st[w] \in Undispatched,
           pc \in {"label", "dispatch"} => w \in Triager, pc = "failed" => w \in Fixer
    PROVE  TodoInv'
<1>1. OtherSlots(w) /\ st'[w] = pc
  BY DEF OtherSlots, Goto, Typed, SlotType
<1>2. requeue[w] = NoTask
  BY DEF TodoInv, Fits
<1>3. Fits(w)'
  BY <1>1, <1>2 DEF Fits
<1> QED
  BY <1>1, <1>2, <1>3, SlotKeeps DEF Open

(* The end of a task.                                                          *)
LEMMA EndKeeps ==
    ASSUME Typed, TodoInv, NEW w \in Worker, st[w] # "idle", AtEnd(w), UNCHANGED <<queue, fet, triggers>>, NoNewTodo
    PROVE  TodoInv'
<1>1. OtherSlots(w) /\ st'[w] = "idle" /\ requeue'[w] = NoTask
  BY DEF OtherSlots, AtEnd, Goto, Typed, SlotType
<1>2. Fits(w)'
  BY <1>1 DEF Fits
<1> QED
  BY <1>1, <1>2, SlotKeeps

(* A failure: the retry is open as long as the task was.                       *)
LEMMA FailKeeps ==
    ASSUME Typed, TodoInv, NEW w \in Worker, st[w] \in {"stamp", "run", "failed"}, Fail(w),
           UNCHANGED <<queue, fet, task, triggers>>, NoNewTodo
    PROVE  TodoInv'
<1>1. CASE task[w].attempts + 1 < MaxRetries
  <2>1. Goto(w, "release") /\ requeue' = [requeue EXCEPT ![w] = [task[w] EXCEPT !.attempts = @ + 1]]
    BY <1>1 DEF Fail
  <2>2. OtherSlots(w) /\ st'[w] = "release" /\ requeue'[w] = [task[w] EXCEPT !.attempts = @ + 1]
    BY <2>1 DEF OtherSlots, Goto, Typed, SlotType
  <2>3. task[w] \in Task
    BY IssueType DEF Typed
  <2>4. requeue'[w].user = task[w].user
    BY <2>2, <2>3 DEF Task
  <2>5. Fits(w)'
    BY <2>2, <2>4 DEF Fits
  <2>6. w \in Triager => st[w] \in Undispatched
    BY Names DEF TodoInv, Fits, Undispatched, Worker
  <2> QED
    BY <2>2, <2>5, <2>6, SlotKeeps DEF Open
<1>2. CASE ~(task[w].attempts + 1 < MaxRetries)
  <2>1. Goto(w, "giveup") /\ UNCHANGED requeue
    BY <1>2 DEF Fail
  <2> QED
    BY <2>1, MoveKeeps DEF Positions, Undispatched
<1> QED
  BY <1>1, <1>2

(* Labels that are written at best effort, or not at all.                      *)
LEMMA WriteKeeps ==
    ASSUME Typed, NEW w \in Worker, st[w] # "idle", NEW remove, NEW add, "todo" \notin add,
           \/ Edit(IssueOf(w), remove, add)
           \/ BestEffort(w, remove, add)
           \/ UNCHANGED jira
    PROVE  NoNewTodo
<1>1. IssueOf(w) \in Issue /\ JiraType
  BY IssueType DEF Typed
<1>2. UNCHANGED jira => NoNewTodo
  BY DEF NoNewTodo, jira
<1> QED
  BY <1>1, <1>2, EditKeeps DEF BestEffort

(* Taking a task brings its request from the queue into the slot.              *)
LEMMA TakeTodo ==
    ASSUME Typed, TodoInv, NEW w \in Worker, Take(w)
    PROVE  TodoInv'
<1> DEFINE k == KindOf(w)
<1>1. PICK t \in Task : /\ queue[k][t] > 0 /\ queue' = [queue EXCEPT ![k][t] = @ - 1]
                        /\ task' = [task EXCEPT ![w] = t]
  BY DEF Take
<1>2. st[w] = "idle" /\ Goto(w, "lock") /\ UNCHANGED <<labels, fet, requeue, triggers>>
  BY DEF Take, jira, bounds
<1>3. k \in Kind /\ SlotType /\ queue \in [Kind -> [Task -> Nat]]
  BY Names DEF Typed, RedisType
<1>4. /\ OtherSlots(w) /\ st'[w] = "lock" /\ task'[w] = t /\ requeue'[w] = requeue[w]
      /\ requeue[w] = NoTask
  BY <1>1, <1>2, <1>3 DEF OtherSlots, Goto, SlotType, TodoInv, Fits
<1>5. \A v \in Worker : Fits(v)'
  BY <1>4 DEF TodoInv, Fits, OtherSlots
<1>6. /\ Cardinality(UserCopies(k)') <= Cardinality(UserCopies(k)) - (IF t.user THEN 1 ELSE 0)
      /\ \A j \in Kind \ {k} : Cardinality(UserCopies(j)') <= Cardinality(UserCopies(j))
      /\ \A j \in Kind : Cardinality(UserCopies(j)) \in Nat /\ Cardinality(UserCopies(j)') \in Nat
  BY <1>1, <1>3, CopiesTaken
<1>7. \A j \in Kind : UserSlots(j)' \subseteq UserSlots(j) \cup (IF j = k /\ t.user THEN {w} ELSE {})
  BY <1>2, <1>4 DEF UserSlots, OtherSlots, KindOf
<1>8. OpenSlots' \subseteq OpenSlots \cup (IF k = "triage" /\ t.user THEN {w} ELSE {})
  <2> SUFFICES ASSUME NEW v \in OpenSlots', v \notin OpenSlots PROVE v = w /\ k = "triage" /\ t.user
    OBVIOUS
  <2>1. v \in UserSlots("triage")' /\ Open(v)' /\ v \in Worker
    BY DEF OpenSlots, UserSlots
  <2>2. v # w => v \in UserSlots("triage") /\ Open(v)
    BY <1>4, <2>1 DEF UserSlots, OtherSlots, KindOf, Open
  <2>3. v = w
    BY <2>2 DEF OpenSlots
  <2> QED
    BY <1>4, <2>1, <2>3 DEF UserSlots, KindOf
<1>9. Requests' = Requests /\ Granted' = Granted
  BY <1>2 DEF Requests, Granted, Asked
<1>10. Waiting' = Waiting /\ Waiting \in Nat
  BY <1>9, Numbers DEF Waiting
<1> HIDE DEF k
<1>11. \A j \in Kind : /\ IsFiniteSet(UserSlots(j)') /\ Cardinality(UserSlots(j)') \in Nat
                       /\ Cardinality(UserSlots(j)') <= Cardinality(UserSlots(j)) + (IF j = k /\ t.user THEN 1 ELSE 0)
  <2> SUFFICES ASSUME NEW j \in Kind
               PROVE  /\ IsFiniteSet(UserSlots(j)') /\ Cardinality(UserSlots(j)') \in Nat
                      /\ Cardinality(UserSlots(j)') <= Cardinality(UserSlots(j)) + (IF j = k /\ t.user THEN 1 ELSE 0)
    OBVIOUS
  <2>1. CASE j = k /\ t.user
    <3>1. UserSlots(j)' \subseteq UserSlots(j) \cup {w}
      BY <1>7, <2>1
    <3>2. IsFiniteSet(UserSlots(j)) /\ Cardinality(UserSlots(j)) \in Nat
      BY Numbers
    <3>3. PICK S : S = UserSlots(j)
      OBVIOUS
    <3>4. PICK T : T = UserSlots(j)'
      OBVIOUS
    <3>5. IsFiniteSet(T) /\ Cardinality(T) \in Nat /\ Cardinality(T) <= Cardinality(S) + 1
      BY <3>1, <3>2, <3>3, <3>4, OneMore
    <3> QED
      BY <2>1, <3>3, <3>4, <3>5
  <2>2. CASE ~(j = k /\ t.user)
    <3>1. UserSlots(j)' \subseteq UserSlots(j)
      BY <1>7, <2>2
    <3> QED
      BY <2>2, <3>1, Numbers, OneMore
  <2> QED
    BY <2>1, <2>2
<1>12. /\ Cardinality(OpenSlots') \in Nat
       /\ Cardinality(OpenSlots') <= Cardinality(OpenSlots) + (IF k = "triage" /\ t.user THEN 1 ELSE 0)
  <2>1. CASE k = "triage" /\ t.user
    <3>1. OpenSlots' \subseteq OpenSlots \cup {w}
      BY <1>8, <2>1
    <3> QED
      BY <2>1, <3>1, Numbers, OneMore
  <2>2. CASE ~(k = "triage" /\ t.user)
    <3>1. OpenSlots' \subseteq OpenSlots
      BY <1>8, <2>2
    <3> QED
      BY <2>2, <3>1, Numbers, OneMore
  <2> QED
    BY <2>1, <2>2
<1>13. Account'
  <2>1. "triage" \in Kind /\ "fix" \in Kind /\ "triage" # "fix" /\ (k = "triage" \/ k = "fix")
    BY <1>3, Names DEF Kind
  <2>2. /\ Cardinality(UserCopies("triage")) + Cardinality(UserSlots("triage")) + Waiting <= triggers
        /\ Cardinality(UserCopies("fix")) + Cardinality(UserSlots("fix"))
             + Cardinality(UserCopies("triage")) + Cardinality(OpenSlots) + Waiting <= triggers
    BY DEF TodoInv, Account
  <2>3. \A j \in Kind : Cardinality(UserSlots(j)) \in Nat
    BY Numbers
  <2>4. triggers' = triggers /\ triggers \in Nat /\ Cardinality(OpenSlots) \in Nat
    BY <1>2, Numbers
  <2>5. CASE k = "triage"
    BY <1>6, <1>10, <1>11, <1>12, <2>1, <2>2, <2>3, <2>4, <2>5 DEF Account
  <2>6. CASE k = "fix"
    BY <1>6, <1>10, <1>11, <1>12, <2>1, <2>2, <2>3, <2>4, <2>6 DEF Account
  <2> QED
    BY <2>1, <2>5, <2>6
<1> QED
  BY <1>5, <1>11, <1>13 DEF TodoInv

(* A retry brings its request back into the queue.                             *)
LEMMA RequeueTodo ==
    ASSUME Typed, TodoInv, NEW w \in Worker, Requeue(w)
    PROVE  TodoInv'
<1> DEFINE k == KindOf(w)
           t == requeue[w]
           c == IF t.user THEN 1 ELSE 0
<1>1. st[w] = "requeue" /\ Push(k, t) /\ AtEnd(w) /\ UNCHANGED <<labels, fet, triggers>>
  BY DEF Requeue, jira, bounds
<1>2. k \in Kind /\ SlotType /\ queue \in [Kind -> [Task -> Nat]]
  BY Names DEF Typed, RedisType
<1>3. t \in Task /\ t.user = task[w].user /\ t # NoTask
  BY <1>1, <1>2 DEF TodoInv, Fits, SlotType
<1>4. OtherSlots(w) /\ st'[w] = "idle" /\ requeue'[w] = NoTask
  BY <1>1, <1>2 DEF OtherSlots, AtEnd, Goto, SlotType
<1>5. \A v \in Worker : Fits(v)'
  BY <1>4 DEF TodoInv, Fits, OtherSlots
<1>6. /\ Cardinality(UserCopies(k)') <= Cardinality(UserCopies(k)) + c
      /\ \A j \in Kind \ {k} : Cardinality(UserCopies(j)') <= Cardinality(UserCopies(j))
      /\ \A j \in Kind : Cardinality(UserCopies(j)) \in Nat /\ Cardinality(UserCopies(j)') \in Nat
  BY <1>1, <1>2, <1>3, CopiesPushed
<1>7. \A j \in Kind : UserSlots(j)' \subseteq UserSlots(j) \ {w}
  BY <1>4 DEF UserSlots, OtherSlots, KindOf
<1>8. OpenSlots' \subseteq OpenSlots \ {w}
  <2> SUFFICES ASSUME NEW v \in OpenSlots' PROVE v \in OpenSlots /\ v # w
    OBVIOUS
  <2>1. v \in UserSlots("triage")' /\ Open(v)'
    BY DEF OpenSlots
  <2>2. v \in UserSlots("triage") /\ v # w /\ v \in Worker
    BY <1>7, <2>1, Names DEF UserSlots
  <2> QED
    BY <1>4, <2>1, <2>2 DEF OpenSlots, Open, OtherSlots
<1>9. t.user => w \in UserSlots(k) /\ (k = "triage" => w \in OpenSlots)
  BY <1>1, <1>3 DEF UserSlots, OpenSlots, Open
<1>10. Requests' = Requests /\ Granted' = Granted
  BY <1>1 DEF Requests, Granted, Asked
<1>11. Waiting' = Waiting /\ Waiting \in Nat
  BY <1>10, Numbers DEF Waiting
<1>12. c \in {0, 1} /\ (t.user <=> c = 1)
  OBVIOUS
<1> HIDE DEF k, t, c
<1>13. \A j \in Kind : /\ IsFiniteSet(UserSlots(j)') /\ Cardinality(UserSlots(j)') \in Nat
                       /\ Cardinality(UserSlots(j)') <= Cardinality(UserSlots(j)) - (IF j = k THEN c ELSE 0)
  <2> SUFFICES ASSUME NEW j \in Kind
               PROVE  /\ IsFiniteSet(UserSlots(j)') /\ Cardinality(UserSlots(j)') \in Nat
                      /\ Cardinality(UserSlots(j)') <= Cardinality(UserSlots(j)) - (IF j = k THEN c ELSE 0)
    OBVIOUS
  <2>1. UserSlots(j)' \subseteq UserSlots(j) \ {w} /\ UserSlots(j)' \subseteq UserSlots(j)
    BY <1>7
  <2>2. CASE j = k /\ c = 1
    BY <1>9, <1>12, <2>1, <2>2, Numbers, OneMore
  <2>3. CASE ~(j = k /\ c = 1)
    <3>1. (IF j = k THEN c ELSE 0) = 0
      BY <1>12, <2>3
    <3> QED
      BY <2>1, <3>1, Numbers, OneMore
  <2> QED
    BY <2>2, <2>3
<1>14. /\ Cardinality(OpenSlots') \in Nat
       /\ Cardinality(OpenSlots') <= Cardinality(OpenSlots) - (IF k = "triage" THEN c ELSE 0)
  <2>1. OpenSlots' \subseteq OpenSlots
    BY <1>8
  <2>2. CASE k = "triage" /\ c = 1
    BY <1>8, <1>9, <1>12, <2>2, Numbers, OneMore
  <2>3. CASE ~(k = "triage" /\ c = 1)
    <3>1. (IF k = "triage" THEN c ELSE 0) = 0
      BY <1>12, <2>3
    <3> QED
      BY <2>1, <3>1, Numbers, OneMore
  <2> QED
    BY <2>2, <2>3
<1>15. Account'
  <2>1. "triage" \in Kind /\ "fix" \in Kind /\ "triage" # "fix" /\ (k = "triage" \/ k = "fix")
    BY <1>2, Names DEF Kind
  <2>2. /\ Cardinality(UserCopies("triage")) + Cardinality(UserSlots("triage")) + Waiting <= triggers
        /\ Cardinality(UserCopies("fix")) + Cardinality(UserSlots("fix"))
             + Cardinality(UserCopies("triage")) + Cardinality(OpenSlots) + Waiting <= triggers
    BY DEF TodoInv, Account
  <2>3. \A j \in Kind : Cardinality(UserSlots(j)) \in Nat
    BY Numbers
  <2>4. triggers' = triggers /\ triggers \in Nat /\ Cardinality(OpenSlots) \in Nat
    BY <1>1, Numbers
  <2>5. CASE k = "triage"
    BY <1>6, <1>11, <1>12, <1>13, <1>14, <2>1, <2>2, <2>3, <2>4, <2>5 DEF Account
  <2>6. CASE k = "fix"
    BY <1>6, <1>11, <1>12, <1>13, <1>14, <2>1, <2>2, <2>3, <2>4, <2>6 DEF Account
  <2> QED
    BY <2>1, <2>5, <2>6
<1> QED
  BY <1>5, <1>13, <1>15 DEF TodoInv

(* A dispatch moves a request from the open triages to the fix tasks.          *)
LEMMA DispatchTodo ==
    ASSUME Typed, TodoInv, NEW w \in Worker, Dispatch(w)
    PROVE  TodoInv'
<1>1. /\ st[w] = "dispatch" /\ Goto(w, "clear") /\ UNCHANGED <<labels, fet, task, requeue, triggers>>
      /\ requeue[w] = NoTask /\ w \in Triager /\ KindOf(w) = "triage"
  BY Names DEF Dispatch, TodoInv, Fits, jira, bounds
<1>2. CASE UNCHANGED queue
  <2>1. NoNewTodo
    BY <1>1 DEF NoNewTodo
  <2> QED
    BY <1>1, <1>2, <2>1, MoveKeeps DEF Positions, Undispatched
<1>3. ASSUME ~UNCHANGED queue PROVE TodoInv'
  <2> DEFINE t == [issue |-> IssueOf(w), user |-> task[w].user, attempts |-> 0]
             c == IF t.user THEN 1 ELSE 0
  <2>1. Push("fix", t)
    BY <1>3 DEF Dispatch
  <2>2. t \in Task /\ t.user = task[w].user
    BY <1>1, IssueType, IssueRoutingAssumption DEF Task, Typed
  <2>3. OtherSlots(w) /\ st'[w] = "clear" /\ task'[w] = task[w]
    BY <1>1 DEF OtherSlots, Goto, Typed, SlotType
  <2>4. \A v \in Worker : Fits(v)'
    BY <1>1, <2>3 DEF TodoInv, Fits, OtherSlots
  <2>5. /\ Cardinality(UserCopies("fix")') <= Cardinality(UserCopies("fix")) + c
        /\ Cardinality(UserCopies("triage")') <= Cardinality(UserCopies("triage"))
        /\ \A j \in Kind : Cardinality(UserCopies(j)) \in Nat /\ Cardinality(UserCopies(j)') \in Nat
    BY <2>1, <2>2, CopiesPushed DEF Typed, RedisType, Kind
  <2>6. \A j \in Kind : UserSlots(j)' \subseteq UserSlots(j)
    BY <1>1, <2>3 DEF UserSlots, OtherSlots, KindOf
  <2>7. OpenSlots' \subseteq OpenSlots \ {w}
    <3> SUFFICES ASSUME NEW v \in OpenSlots' PROVE v \in OpenSlots /\ v # w
      OBVIOUS
    <3>1. v \in UserSlots("triage")' /\ Open(v)'
      BY DEF OpenSlots
    <3>2. v \in UserSlots("triage") /\ v \in Worker
      BY <2>6, <3>1, Names DEF UserSlots
    <3>3. v # w
      BY <1>1, <2>3, <3>1 DEF Open, Undispatched
    <3> QED
      BY <2>3, <3>1, <3>2, <3>3 DEF OpenSlots, Open, OtherSlots
  <2>8. t.user => w \in OpenSlots
    BY <1>1, <2>2 DEF OpenSlots, UserSlots, Open, Undispatched
  <2>9. c \in {0, 1} /\ (t.user <=> c = 1)
    OBVIOUS
  <2>10. Requests' = Requests /\ Granted' = Granted
    BY <1>1 DEF Requests, Granted, Asked
  <2>11. Waiting' = Waiting /\ Waiting \in Nat
    BY <2>10, Numbers DEF Waiting
  <2> HIDE DEF t, c
  <2>12. \A j \in Kind : /\ IsFiniteSet(UserSlots(j)') /\ Cardinality(UserSlots(j)') \in Nat
                         /\ Cardinality(UserSlots(j)') <= Cardinality(UserSlots(j))
    BY <2>6, Numbers, OneMore
  <2>13. Cardinality(OpenSlots') \in Nat /\ Cardinality(OpenSlots') <= Cardinality(OpenSlots) - c
    <3>1. OpenSlots' \subseteq OpenSlots
      BY <2>7
    <3>2. CASE c = 1
      BY <2>7, <2>8, <2>9, <3>2, Numbers, OneMore
    <3>3. CASE c = 0
      BY <3>1, <3>3, Numbers, OneMore
    <3> QED
      BY <2>9, <3>2, <3>3
  <2>14. Account'
    <3>1. "triage" \in Kind /\ "fix" \in Kind
      BY Names
    <3>2. /\ Cardinality(UserCopies("triage")) + Cardinality(UserSlots("triage")) + Waiting <= triggers
          /\ Cardinality(UserCopies("fix")) + Cardinality(UserSlots("fix"))
               + Cardinality(UserCopies("triage")) + Cardinality(OpenSlots) + Waiting <= triggers
      BY DEF TodoInv, Account
    <3>3. \A j \in Kind : Cardinality(UserSlots(j)) \in Nat
      BY Numbers
    <3>4. triggers' = triggers /\ triggers \in Nat /\ Cardinality(OpenSlots) \in Nat
      BY <1>1, Numbers
    <3> QED
      BY <2>5, <2>9, <2>11, <2>12, <2>13, <3>1, <3>2, <3>3, <3>4 DEF Account
  <2> QED
    BY <2>4, <2>12, <2>14 DEF TodoInv
<1> QED
  BY <1>2, <1>3

(* Every step of an agent keeps the accounts, unless it is a shutdown.         *)
LEMMA WorkerTodo ==
    ASSUME Typed, TodoInv, "stop" \notin FaultKinds, NEW w \in Worker, QueueStep(w) \/ AgentStep(w)
    PROVE  TodoInv'
<1>0. SlotType /\ JiraType /\ Fits(w)
  BY DEF Typed, TodoInv
<1> USE DEF redis, slots, bounds
<1>1. CASE Take(w) \/ Requeue(w) \/ Dispatch(w)
  BY <1>1, TakeTodo, RequeueTodo, DispatchTodo
<1>2. CASE Acquire(w)
  <2>1. NoNewTodo
    BY <1>2 DEF Acquire, NoNewTodo, jira
  <2> QED
    BY <1>2, <2>1, MoveKeeps DEF Acquire, Positions, Undispatched
<1>3. CASE DropDuplicate(w) \/ Crash(w)
  <2>1. NoNewTodo /\ st[w] # "idle"
    BY <1>3 DEF DropDuplicate, Crash, NoNewTodo, jira
  <2> QED
    BY <1>3, <2>1, EndKeeps DEF DropDuplicate, Crash, Fault
<1>4. CASE Release(w)
  <2>1. NoNewTodo /\ st[w] = "release" /\ UNCHANGED <<queue, fet, triggers>>
    BY <1>4 DEF Release, NoNewTodo, jira
  <2>2. CASE requeue[w] = NoTask
    BY <1>4, <2>1, <2>2, EndKeeps DEF Release
  <2>3. CASE requeue[w] # NoTask
    <3>1. Goto(w, "requeue") /\ UNCHANGED <<task, requeue>>
      BY <1>4, <2>3 DEF Release
    <3>2. OtherSlots(w) /\ st'[w] = "requeue"
      BY <1>0, <3>1 DEF OtherSlots, Goto, SlotType
    <3>3. Fits(w)'
      BY <1>0, <2>3, <3>1, <3>2 DEF Fits
    <3> QED
      BY <2>1, <2>3, <3>1, <3>2, <3>3, SlotKeeps DEF Open
  <2> QED
    BY <2>2, <2>3
<1>5. CASE GiveUp(w)
  <2>1. NoNewTodo
    BY <1>5, WriteKeeps DEF GiveUp
  <2> QED
    BY <1>5, <2>1, MoveKeeps DEF GiveUp, Positions, Undispatched
<1>6. CASE PushError(w) \/ Clear(w)
  <2>1. NoNewTodo
    BY <1>6 DEF PushError, Clear, NoNewTodo, jira
  <2> QED
    BY <1>6, <2>1, MoveKeeps DEF PushError, Clear, Positions, Undispatched
<1>7. CASE ReadIssue(w) \/ ReadFails(w)
  <2>1. NoNewTodo
    BY <1>7 DEF ReadIssue, ReadFails, Proceed, NoNewTodo, jira
  <2>2. /\ st[w] = "read" /\ UNCHANGED <<queue, fet, task, requeue, triggers>>
        /\ Goto(w, "release") \/ Goto(w, "stamp")
    BY <1>7 DEF ReadIssue, ReadFails, Proceed
  <2> QED
    BY <2>1, <2>2, MoveKeeps DEF Positions, Undispatched
<1>8. CASE SkipClosed(w)
  <2>1. NoNewTodo
    <3>1. BestEffort(w, {"todo"}, {}) \/ UNCHANGED jira
      BY <1>8 DEF SkipClosed
    <3>2. st[w] # "idle"
      BY <1>8 DEF SkipClosed
    <3> QED
      BY <3>1, <3>2, WriteKeeps
  <2> QED
    BY <1>8, <2>1, MoveKeeps DEF SkipClosed, Positions, Undispatched
<1>9. CASE Stamp(w)
  <2>1. NoNewTodo
    BY <1>9, WriteKeeps DEF Stamp
  <2> QED
    BY <1>9, <2>1, MoveKeeps DEF Stamp, Positions, Undispatched
<1>10. CASE StampFails(w) \/ TriageFails(w)
  <2>1. NoNewTodo
    BY <1>10 DEF StampFails, TriageFails, NoNewTodo, jira
  <2> QED
    BY <1>10, <2>1, FailKeeps DEF StampFails, TriageFails
<1>11. ASSUME NEW r \in Resolutions, Triage(w, r) PROVE TodoInv'
  <2>1. /\ w \in Triager /\ st[w] = "run" /\ UNCHANGED <<queue, fet, task, requeue, triggers>>
        /\ \/ Edit(IssueOf(w), {"in_progress"}, {"triaged", "manual"}) /\ Goto(w, "clear")
           \/ UNCHANGED jira /\ Goto(w, "label")
    BY <1>11 DEF Triage
  <2>2. NoNewTodo
    BY <2>1, WriteKeeps
  <2> QED
    BY <2>1, <2>2, MoveKeeps DEF Positions, Undispatched
<1>12. CASE TerminalLabel(w)
  <2>1. NoNewTodo
    <3> DEFINE stale == IF res[w] = "postpone" THEN {"in_progress", "manual"} ELSE {"in_progress"}
               add == {IF res[w] \in {"fix", "undispatched"} THEN "triaged" ELSE "outcome"}
    <3>1. Edit(IssueOf(w), stale, add) /\ st[w] # "idle" /\ "todo" \notin add
      BY <1>12 DEF TerminalLabel
    <3> HIDE DEF stale, add
    <3> QED
      BY <3>1, WriteKeeps
  <2>2. w \in Triager
    BY <1>0, <1>12 DEF TerminalLabel, Fits
  <2> QED
    BY <1>12, <2>1, <2>2, MoveKeeps DEF TerminalLabel, Positions, Undispatched
<1>13. CASE TerminalLabelFails(w)
  <2>1. NoNewTodo
    BY <1>13 DEF TerminalLabelFails, NoNewTodo, jira
  <2> QED
    BY <1>13, <2>1, MoveKeeps DEF TerminalLabelFails, Positions, Undispatched
<1>14. ASSUME NEW r \in FixOutcomes, Fix(w, r) PROVE TodoInv'
  <2>1. NoNewTodo /\ w \in Fixer /\ w \notin Triager /\ st[w] = "run" /\ UNCHANGED <<queue, fet, task, triggers>>
    BY <1>14, Names DEF Fix, NoNewTodo, jira
  <2>2. CASE r = "error"
    BY <1>14, <2>1, <2>2, FailKeeps DEF Fix
  <2>3. CASE r # "error"
    <3>1. r \in {"done", "failed", "refused"}
      BY <2>3, IssueRoutingAssumption
    <3>2. UNCHANGED requeue /\ (Goto(w, "done") \/ Goto(w, "failed") \/ Goto(w, "giveup"))
      BY <1>14, <2>3, <3>1 DEF Fix
    <3> QED
      BY <2>1, <3>2, MoveKeeps DEF Positions
  <2> QED
    BY <2>2, <2>3
<1>15. CASE FixDone(w)
  <2>1. NoNewTodo
    BY <1>15, WriteKeeps DEF FixDone
  <2> QED
    BY <1>15, <2>1, MoveKeeps DEF FixDone, Positions, Undispatched
<1>16. CASE FixFailed(w)
  <2>1. NoNewTodo
    <3> DEFINE add == IF task[w].user THEN {"failed"} ELSE {}
    <3>1. BestEffort(w, {"triaged"}, add) /\ st[w] # "idle" /\ "todo" \notin add
      BY <1>16 DEF FixFailed
    <3> HIDE DEF add
    <3> QED
      BY <3>1, WriteKeeps
  <2> QED
    BY <1>16, <2>1, FailKeeps DEF FixFailed
<1>17. ~Stop(w)
  BY DEF Stop, Fault
<1> QED
  BY <1>1, <1>2, <1>3, <1>4, <1>5, <1>6, <1>7, <1>8, <1>9, <1>10, <1>11, <1>12, <1>13, <1>14, <1>15, <1>16, <1>17
     DEF QueueStep, AgentStep

(* A sweep that neither consumes a trigger nor pushes asks for nothing new.    *)
LEMMA SweepKeeps ==
    ASSUME Typed, TodoInv, \A f, g \in Fetcher : f = g, NEW f \in Fetcher, UNCHANGED <<queue, slots, triggers>>,
           NoNewTodo, \A i \in Issue : Asked(f, i)' => Asked(f, i) \/ "todo" \in labels[i], fet'[f].pc # "enqueue"
    PROVE  TodoInv'
<1>1. \A w \in Worker : Fits(w)'
  BY DEF TodoInv, Fits, slots
<1>2. \A k \in Kind : UserCopies(k)' = UserCopies(k) /\ UserSlots(k)' = UserSlots(k)
  BY DEF UserCopies, UserSlots, KindOf, slots
<1>3. OpenSlots' = OpenSlots
  BY <1>2, Names DEF OpenSlots, Open, slots
<1>4. Requests' \subseteq Requests
  BY DEF Requests, NoNewTodo
<1>5. Granted' \subseteq Granted
  BY DEF Granted
<1> QED
  BY <1>1, <1>2, <1>3, <1>4, <1>5, AccountsKept, Numbers

(* Consuming the trigger of a user moves the request from the label to the     *)
(* push; a locked issue is not pushed, and the request is gone.                *)
LEMMA ConsumeTodo ==
    ASSUME Typed, TodoInv, \A f, g \in Fetcher : f = g, NEW f \in Fetcher, NEW i \in Issue, Consume(f, i)
    PROVE  TodoInv'
<1>1. /\ fet[f].pc = "push" /\ i \in fet[f].left /\ UNCHANGED <<queue, slots, triggers>>
      /\ fet[f] \in Sweeping /\ FetType /\ JiraType
  BY DEF Consume, Pushing, redis, bounds, Typed, FetType
<1>2. /\ fet'[f].left = fet[f].left \ {i} /\ fet'[f].user = fet[f].user
      /\ fet'[f].pc = (IF i \in fet[f].locked THEN "push" ELSE "enqueue")
      /\ fet'[f].unread = (IF i \in fet[f].locked THEN {} ELSE {i})
  BY <1>1 DEF Consume, Consumed, FetType, Sweeping
<1>3. NoNewTodo /\ (i \in fet[f].user => "todo" \notin labels'[i])
  <2>1. CASE Rerun(f, i)
    <3> DEFINE l == IF i \in fet[f].user THEN "todo" ELSE "retry"
    <3>1. Edit(i, {l}, {"in_progress"})
      BY <2>1 DEF Consume
    <3>2. labels'[i] = (labels[i] \ {l}) \cup {"in_progress"}
      BY <1>1, <3>1 DEF Edit, JiraType
    <3>3. NoNewTodo
      BY <1>1, <3>1, EditKeeps
    <3> QED
      BY <3>2, <3>3
  <2>2. CASE ~Rerun(f, i)
    BY <2>2 DEF Consume, Rerun, NoNewTodo, jira
  <2> QED
    BY <2>1, <2>2
<1>4. \A j \in Issue : Asked(f, j)' => Asked(f, j) /\ j # i
  BY <1>1, <1>2 DEF Asked
<1>5. CASE i \in fet[f].locked \/ i \notin fet[f].user
  <2>1. \A w \in Worker : Fits(w)'
    BY <1>1 DEF TodoInv, Fits, slots
  <2>2. \A k \in Kind : UserCopies(k)' = UserCopies(k) /\ UserSlots(k)' = UserSlots(k)
    BY <1>1 DEF UserCopies, UserSlots, KindOf, slots
  <2>3. OpenSlots' = OpenSlots
    BY <1>1, <2>2, Names DEF OpenSlots, Open, slots
  <2>4. Requests' \subseteq Requests
    BY <1>3, <1>4 DEF Requests, NoNewTodo
  <2>5. Granted' \subseteq Granted
    BY <1>2, <1>5 DEF Granted
  <2> QED
    BY <1>1, <2>1, <2>2, <2>3, <2>4, <2>5, AccountsKept, Numbers
<1>6. CASE i \in fet[f].user
  <2>1. \A w \in Worker : Fits(w)'
    BY <1>1 DEF TodoInv, Fits, slots
  <2>2. \A k \in Kind : UserCopies(k)' = UserCopies(k) /\ UserSlots(k)' = UserSlots(k)
    BY <1>1 DEF UserCopies, UserSlots, KindOf, slots
  <2>3. OpenSlots' = OpenSlots
    BY <1>1, <2>2, Names DEF OpenSlots, Open, slots
  <2>4. Requests' \subseteq Requests \ {i} /\ i \in Requests
    <3>1. Asked(f, i)
      BY <1>1, <1>6 DEF Asked
    <3> QED
      BY <1>3, <1>4, <1>6, <3>1 DEF Requests, NoNewTodo
  <2>5. Granted = {} /\ Granted' \subseteq {} \cup {i}
    BY <1>1, <1>2 DEF Granted
  <2>6. Cardinality(Requests') \in Nat /\ Cardinality(Requests') <= Cardinality(Requests) - 1
    BY <2>4, Numbers, OneMore
  <2>7. Cardinality(Granted) = 0 /\ Cardinality(Granted') \in Nat /\ Cardinality(Granted') <= 1
    BY <2>5, FS_EmptySet, OneMore
  <2>8. Waiting' <= Waiting /\ Waiting' \in Nat /\ Waiting \in Nat
    BY <2>6, <2>7, Numbers DEF Waiting
  <2>9. Account'
    <3>1. "triage" \in Kind /\ "fix" \in Kind /\ triggers' = triggers
      BY <1>1, Names
    <3> HIDE DEF Waiting
    <3> QED
      BY <2>2, <2>3, <2>8, <3>1, Numbers DEF Account, TodoInv
  <2> QED
    BY <2>1, <2>2, <2>9, Numbers DEF TodoInv
<1> QED
  BY <1>5, <1>6

(* The push makes it a task.                                                   *)
LEMMA EnqueueTodo ==
    ASSUME Typed, TodoInv, \A f, g \in Fetcher : f = g, NEW f \in Fetcher, Enqueue(f)
    PROVE  TodoInv'
<1>1. PICK i \in fet[f].unread : Push("triage", [issue |-> i, user |-> i \in fet[f].user, attempts |-> 0])
  BY DEF Enqueue
<1>2. /\ fet[f].pc = "enqueue" /\ UNCHANGED <<labels, slots, triggers>> /\ fet[f] \in Sweeping /\ FetType
      /\ fet' = [fet EXCEPT ![f] = [fet[f] EXCEPT !.pc = "push", !.unread = {}, !.cap = @ - 1]]
      /\ i \in Issue
  BY <1>1 DEF Enqueue, jira, bounds, Typed, FetType, Pending
<1>3. fet'[f].pc = "push" /\ fet'[f].left = fet[f].left /\ fet'[f].user = fet[f].user
  BY <1>2 DEF FetType, Sweeping
<1> DEFINE t == [issue |-> i, user |-> i \in fet[f].user, attempts |-> 0]
           c == IF t.user THEN 1 ELSE 0
<1>4. t \in Task /\ (t.user <=> i \in fet[f].user)
  <2>1. 0 \in 0 .. MaxRetries - 1
    BY IssueRoutingAssumption
  <2>2. CASE i \in fet[f].user
    <3>1. t = [issue |-> i, user |-> TRUE, attempts |-> 0]
      BY <2>2
    <3> HIDE DEF t
    <3> QED
      BY <1>2, <2>1, <2>2, <3>1 DEF Task
  <2>3. CASE i \notin fet[f].user
    <3>0. (i \in fet[f].user) = FALSE
      BY <2>3
    <3>1. t = [issue |-> i, user |-> FALSE, attempts |-> 0]
      BY <3>0
    <3> HIDE DEF t
    <3> QED
      BY <1>2, <2>1, <2>3, <3>1 DEF Task
  <2> QED
    BY <2>2, <2>3
<1>5. /\ Cardinality(UserCopies("triage")') <= Cardinality(UserCopies("triage")) + c
      /\ Cardinality(UserCopies("fix")') <= Cardinality(UserCopies("fix"))
      /\ \A j \in Kind : Cardinality(UserCopies(j)) \in Nat /\ Cardinality(UserCopies(j)') \in Nat
  BY <1>1, <1>4, CopiesPushed DEF Typed, RedisType, Kind
<1>6. \A w \in Worker : Fits(w)'
  BY <1>2 DEF TodoInv, Fits, slots
<1>7. \A k \in Kind : UserSlots(k)' = UserSlots(k)
  BY <1>2 DEF UserSlots, KindOf, slots
<1>8. OpenSlots' = OpenSlots
  BY <1>2, <1>7, Names DEF OpenSlots, Open, slots
<1>9. Requests' \subseteq Requests
  BY <1>2, <1>3 DEF Requests, Asked
<1>10. Granted' = {} /\ (t.user => i \in Granted)
  BY <1>1, <1>2, <1>3, <1>4 DEF Granted
<1>11. c \in {0, 1} /\ (t.user <=> c = 1)
  OBVIOUS
<1> HIDE DEF t, c
<1>12. Cardinality(Granted') = 0 /\ c <= Cardinality(Granted)
  <2>1. Cardinality(Granted') = 0
    BY <1>10, FS_EmptySet
  <2>2. t.user => Cardinality(Granted) # 0
    BY <1>10, Numbers, FS_EmptySet
  <2> QED
    BY <1>11, <2>1, <2>2, Numbers
<1>13. Cardinality(Requests') \in Nat /\ Cardinality(Requests') <= Cardinality(Requests)
  BY <1>9, Numbers, OneMore
<1>14. Waiting' + c <= Waiting /\ Waiting' \in Nat /\ Waiting \in Nat
  BY <1>11, <1>12, <1>13, Numbers DEF Waiting
<1>15. Account'
  <2>1. "triage" \in Kind /\ "fix" \in Kind /\ triggers' = triggers
    BY <1>2, Names
  <2>2. /\ Cardinality(UserCopies("triage")) + Cardinality(UserSlots("triage")) + Waiting <= triggers
        /\ Cardinality(UserCopies("fix")) + Cardinality(UserSlots("fix"))
             + Cardinality(UserCopies("triage")) + Cardinality(OpenSlots) + Waiting <= triggers
    BY DEF TodoInv, Account
  <2>3. \A j \in Kind : Cardinality(UserSlots(j)) \in Nat
    BY Numbers
  <2>4. triggers \in Nat /\ Cardinality(OpenSlots) \in Nat
    BY Numbers
  <2> QED
    BY <1>5, <1>7, <1>8, <1>11, <1>14, <2>1, <2>2, <2>3, <2>4 DEF Account
<1> QED
  BY <1>6, <1>7, <1>15, Numbers DEF TodoInv

(* Every step of the fetcher keeps the accounts, if there is one.              *)
LEMMA FetcherTodo ==
    ASSUME Typed, TodoInv, \A f, g \in Fetcher : f = g, NEW f \in Fetcher, FetcherStep(f)
    PROVE  TodoInv'
<1>0. FetType /\ JiraType /\ fet[f] \in Sweeping
  BY DEF Typed, FetType
<1> DEFINE Asks == /\ UNCHANGED <<queue, slots, triggers>> /\ NoNewTodo /\ fet'[f].pc # "enqueue"
                   /\ \A i \in Issue : Asked(f, i)' => Asked(f, i) \/ "todo" \in labels[i]
<1>1. Asks => TodoInv'
  BY SweepKeeps
<1> USE DEF redis, bounds
<1>2. CASE Search(f)
  <2>1. /\ fet'[f].pc = "depth" /\ fet'[f].seen = labels /\ fet'[f].user = {}
        /\ UNCHANGED <<queue, slots, triggers, labels>>
    BY <1>0, <1>2 DEF Search, FetType, Idle, jira
  <2> QED
    BY <1>1, <2>1 DEF Asked, NoNewTodo
<1>3. CASE ReadDepth(f)
  <2>1. /\ fet[f].pc = "depth" /\ UNCHANGED <<queue, slots, triggers, labels>>
        /\ \/ fet'[f] = Idle
           \/ fet'[f].pc = "scan" /\ fet'[f].seen = fet[f].seen /\ fet'[f].user = fet[f].user
    BY <1>0, <1>3 DEF ReadDepth, FetType, Sweeping, jira
  <2>2. Idle.pc = "idle"
    BY DEF Idle
  <2> QED
    BY <1>1, <2>1, <2>2 DEF Asked, NoNewTodo
<1>4. CASE ReadQueue(f) \/ ReadQueueFails(f) \/ ReadLocks(f)
  <2>1. fet[f].pc = "scan" /\ UNCHANGED <<queue, slots, triggers, labels>>
    BY <1>4 DEF ReadQueue, ReadQueueFails, ReadLocks, jira
  <2>2. fet'[f].pc \in {"scan", "mark"} /\ fet'[f].seen = fet[f].seen /\ fet'[f].user = fet[f].user
    <3>1. CASE ReadQueue(f)
      <4>1. PICK q \in fet[f].unread :
                fet' = [fet EXCEPT ![f] = [fet[f] EXCEPT !.unread = @ \ {q}, !.existing = @ \cup KeysIn(q)]]
        BY <3>1 DEF ReadQueue
      <4> QED
        BY <1>0, <2>1, <4>1 DEF FetType, Sweeping
    <3>2. CASE ReadQueueFails(f)
      <4>1. PICK q \in fet[f].unread : fet' = [fet EXCEPT ![f].unread = @ \ {q}]
        BY <3>2 DEF ReadQueueFails
      <4> QED
        BY <1>0, <2>1, <4>1 DEF FetType, Sweeping
    <3>3. CASE ReadLocks(f)
      BY <1>0, <2>1, <3>3 DEF ReadLocks, FetType, Sweeping
    <3> QED
      BY <1>4, <3>1, <3>2, <3>3
  <2> QED
    BY <1>1, <2>1, <2>2 DEF Asked, NoNewTodo
<1>5. CASE Marked(f)
  <2>1. /\ fet[f].pc = "mark" /\ fet'[f].pc = "push" /\ fet'[f].user = fet[f].user
        /\ UNCHANGED <<queue, slots, triggers, labels>>
    BY <1>0, <1>5 DEF Marked, FetType, Sweeping, jira
  <2> QED
    BY <1>1, <2>1 DEF Asked, NoNewTodo
<1>6. CASE EndSweep(f) \/ FetcherDies(f)
  <2>1. fet'[f] = Idle /\ UNCHANGED <<queue, slots, triggers, labels>> /\ Idle.pc = "idle"
    BY <1>0, <1>6 DEF EndSweep, FetcherDies, FetType, Idle, jira
  <2> QED
    BY <1>1, <2>1 DEF Asked, NoNewTodo
<1>7. ASSUME NEW i \in Issue, SkipIssue(f, i) \/ ConsumeFails(f, i) PROVE TodoInv'
  <2>1. /\ fet[f].pc = "push" /\ fet'[f].pc = "push" /\ fet'[f].user = fet[f].user
        /\ fet'[f].left = fet[f].left \ {i} /\ UNCHANGED <<queue, slots, triggers, labels>>
    BY <1>0, <1>7 DEF SkipIssue, ConsumeFails, Pushing, FetType, Sweeping, jira
  <2> QED
    BY <1>1, <2>1 DEF Asked, NoNewTodo
<1>8. ASSUME NEW i \in Issue,
             \/ MarkTodo(f, i) \/ MarkUnverified(f, i) \/ MarkAbandoned(f, i)
             \/ MarkAbandonedFails(f, i) \/ MarkByLabels(f, i)
      PROVE  TodoInv'
  <2>1. fet[f].pc = "mark" /\ UNCHANGED <<queue, slots, triggers>>
    BY <1>8 DEF MarkTodo, MarkUnverified, MarkAbandoned, MarkAbandonedFails, MarkByLabels, Marking
  <2>2. NoNewTodo
    <3>1. CASE UNCHANGED jira
      BY <3>1 DEF jira, NoNewTodo
    <3>2. CASE \E r, a : Edit(i, r, a) /\ "todo" \notin a
      BY <1>0, <3>2, EditKeeps
    <3>3. MarkUnverified(f, i) => UNCHANGED jira \/ Edit(i, {"todo"}, {})
      BY DEF MarkUnverified
    <3>4. MarkAbandoned(f, i) => \E l \in Stale(fet[f].seen[i], TRUE) : Edit(i, {l}, {"retry"})
      BY DEF MarkAbandoned
    <3>5. MarkTodo(f, i) \/ MarkAbandonedFails(f, i) \/ MarkByLabels(f, i) => UNCHANGED jira
      BY DEF MarkTodo, MarkAbandonedFails, MarkByLabels
    <3>6. ASSUME MarkUnverified(f, i) PROVE NoNewTodo
      BY <3>1, <3>2, <3>3, <3>6
    <3>7. ASSUME MarkAbandoned(f, i) PROVE NoNewTodo
      <4>1. PICK l \in Stale(fet[f].seen[i], TRUE) : Edit(i, {l}, {"retry"})
        BY <3>4, <3>7
      <4> QED
        BY <1>0, <4>1, EditKeeps
    <3> QED
      BY <1>8, <3>1, <3>5, <3>6, <3>7
  <2>3. /\ fet'[f].pc = "mark" /\ fet'[f].seen = fet[f].seen
        /\ \A j \in Issue : j \in fet'[f].user => j \in fet[f].user \/ (j = i /\ MarkTodo(f, i))
    <3>1. ASSUME NEW fd \in {"user", "retry", "existing"}, Mark(f, i, fd), fd = "user" => MarkTodo(f, i)
          PROVE  /\ fet'[f].pc = "mark" /\ fet'[f].seen = fet[f].seen
                 /\ \A j \in Issue : j \in fet'[f].user => j \in fet[f].user \/ (j = i /\ MarkTodo(f, i))
      BY <1>0, <2>1, <3>1 DEF Mark, FetType, Sweeping
    <3>3. CASE fet' = [fet EXCEPT ![f].left = @ \ {i}]
      BY <1>0, <2>1, <3>3 DEF FetType, Sweeping
    <3>4. MarkByLabels(f, i) => fet' = [fet EXCEPT ![f].left = @ \ {i}] \/ Mark(f, i, "retry") \/ Mark(f, i, "existing")
      BY DEF MarkByLabels
    <3>5. /\ MarkTodo(f, i) => Mark(f, i, "user")
          /\ MarkUnverified(f, i) \/ MarkAbandonedFails(f, i) => Mark(f, i, "existing")
          /\ MarkAbandoned(f, i) => Mark(f, i, "retry")
      BY DEF MarkTodo, MarkUnverified, MarkAbandoned, MarkAbandonedFails
    <3> DEFINE Goal == /\ fet'[f].pc = "mark" /\ fet'[f].seen = fet[f].seen
                       /\ \A j \in Issue : j \in fet'[f].user => j \in fet[f].user \/ (j = i /\ MarkTodo(f, i))
    <3>6. Mark(f, i, "retry") \/ Mark(f, i, "existing") => Goal
      BY <3>1
    <3>7. MarkTodo(f, i) => Goal
      BY <3>1, <3>5
    <3>8. MarkByLabels(f, i) => Goal
      BY <3>3, <3>4, <3>6
    <3> HIDE DEF Goal
    <3>9. Goal
      BY <1>8, <3>5, <3>6, <3>7, <3>8
    <3> QED
      BY <3>9 DEF Goal
  <2>4. MarkTodo(f, i) => "todo" \in fet[f].seen[i]
    BY DEF MarkTodo, Todo
  <2> QED
    BY <1>1, <2>1, <2>2, <2>3, <2>4 DEF Asked
<1>9. ASSUME NEW i \in Issue, Consume(f, i) PROVE TodoInv'
  BY <1>9, ConsumeTodo
<1>10. CASE Enqueue(f)
  BY <1>10, EnqueueTodo
<1> QED
  BY <1>2, <1>3, <1>4, <1>5, <1>6, <1>7, <1>8, <1>9, <1>10 DEF FetcherStep, Sweep

(* People pay for their requests; time and expiry change nothing of them.      *)
LEMMA WorldTodo ==
    ASSUME Typed, TodoInv, NEW i \in Issue, WorldStep(i)
    PROVE  TodoInv'
<1>1. UNCHANGED <<queue, slots, fet>>
  BY DEF WorldStep, Age, Close, AddLabel, Expire, redis
<1>2. \A w \in Worker : Fits(w)'
  BY <1>1 DEF TodoInv, Fits, slots
<1>3. \A k \in Kind : UserCopies(k)' = UserCopies(k) /\ UserSlots(k)' = UserSlots(k)
  BY <1>1 DEF UserCopies, UserSlots, KindOf, slots
<1>4. OpenSlots' = OpenSlots
  BY <1>1, <1>3, Names DEF OpenSlots, Open, slots
<1>5. Granted' = Granted
  BY <1>1 DEF Granted
<1>6. CASE UNCHANGED <<labels, triggers>>
  <2>1. Requests' = Requests
    BY <1>1, <1>6 DEF Requests, Asked
  <2> QED
    BY <1>2, <1>3, <1>4, <1>5, <1>6, <2>1, AccountsKept, Numbers
<1>7. ASSUME NEW l \in Triggers, AddLabel(i, l) PROVE TodoInv'
  <2>1. triggers' = triggers + 1 /\ Edit(i, {}, {l}) /\ JiraType
    BY <1>7 DEF AddLabel, Typed
  <2>2. \A j \in Issue : j # i => labels'[j] = labels[j]
    BY <2>1 DEF Edit, JiraType
  <2>3. Requests' \subseteq Requests \cup {i}
    BY <1>1, <2>2 DEF Requests, Asked
  <2>4. Cardinality(Requests') \in Nat /\ Cardinality(Requests') <= Cardinality(Requests) + 1
    BY <2>3, Numbers, OneMore
  <2>5. Waiting' <= Waiting + 1 /\ Waiting' \in Nat /\ Waiting \in Nat
    BY <1>5, <2>4, Numbers DEF Waiting
  <2>6. Account'
    <3>1. "triage" \in Kind /\ "fix" \in Kind
      BY Names
    <3> HIDE DEF Waiting
    <3> QED
      BY <1>3, <1>4, <2>1, <2>5, <3>1, Numbers DEF Account, TodoInv
  <2> QED
    BY <1>2, <1>3, <2>6, Numbers DEF TodoInv
<1>8. Age(i) \/ Close(i) \/ (\E k \in Kind : Expire(k, i)) => UNCHANGED <<labels, triggers>>
  <2>1. Age(i) => UNCHANGED <<labels, triggers>>
    BY DEF Age, bounds
  <2>2. Close(i) => UNCHANGED <<labels, triggers>>
    BY DEF Close
  <2>3. ASSUME NEW k \in Kind, Expire(k, i) PROVE UNCHANGED <<labels, triggers>>
    BY <2>3 DEF Expire, jira, bounds
  <2> QED
    BY <2>1, <2>2, <2>3
<1> QED
  BY <1>6, <1>7, <1>8 DEF WorldStep

(* The invariant holds at first and is kept by every step.                     *)
LEMMA TodoInductive ==
    ASSUME \A f, g \in Fetcher : f = g, "stop" \notin FaultKinds
    PROVE  /\ Init => TodoInv
           /\ Typed /\ TodoInv /\ [Next]_vars => TodoInv'
<1>1. ASSUME Init PROVE TodoInv
  <2>1. \A k \in Kind : UserSlots(k) = {} /\ UserCopies(k) = {}
    BY <1>1 DEF Init, UserSlots, UserCopies, CopiesIn
  <2>2. OpenSlots = {}
    BY <2>1, Names DEF OpenSlots
  <2>3. Requests = {} /\ Granted = {}
    BY <1>1 DEF Init, Requests, Granted, Asked, Idle
  <2>4. \A w \in Worker : Fits(w)
    BY <1>1 DEF Init, Fits
  <2>5. triggers = 0
    BY <1>1 DEF Init
  <2>6. Account
    BY <2>1, <2>2, <2>3, <2>5, FS_EmptySet, Names DEF Account, Waiting
  <2> QED
    BY <2>1, <2>4, <2>6, FS_EmptySet DEF TodoInv
<1>2. ASSUME Typed, TodoInv, [Next]_vars PROVE TodoInv'
  <2>1. CASE UNCHANGED vars
    <3>1. UNCHANGED <<queue, slots, fet, labels, triggers>>
      BY <2>1 DEF vars, redis, jira, bounds
    <3> QED
      BY <1>2, <3>1 DEF TodoInv, Fits, Account, Waiting, UserCopies, UserSlots, OpenSlots, Open, Requests, Granted, Asked,
             KindOf, slots
  <2>2. CASE Next
    BY <1>2, <2>2, StepCases, WorldTodo, FetcherTodo, WorkerTodo
  <2> QED
    BY <1>2, <2>1, <2>2
<1> QED
  BY <1>1, <1>2

(* With one fetcher job and without shutdowns, no request of a person becomes  *)
(* two tasks of one stage, whatever else fails, retries or is found again.     *)
THEOREM TodoRunsOnce ==
    ASSUME \A f, g \in Fetcher : f = g, "stop" \notin FaultKinds
    PROVE  Spec => []OneRunPerTodo
<1>1. Init => Typed /\ TodoInv
  BY InitTyped, TodoInductive
<1>2. Typed /\ TodoInv /\ [Next]_vars => (Typed /\ TodoInv)'
  BY NextTyped, TodoInductive
<1>3. ASSUME Typed, TodoInv PROVE OneRunPerTodo
  <2> SUFFICES ASSUME NEW k \in Kind PROVE Cardinality(Tasks(k, {t \in Task : t.user})) <= triggers
    BY DEF OneRunPerTodo
  <2>1. Tasks(k, {t \in Task : t.user}) \subseteq UserCopies(k) \cup UserSlots(k)
    BY <1>3 DEF Tasks, Copies, UserCopies, CopiesIn, UserSlots
  <2>2. /\ IsFiniteSet(UserCopies(k)) /\ Cardinality(UserCopies(k)) \in Nat
        /\ IsFiniteSet(UserSlots(k)) /\ Cardinality(UserSlots(k)) \in Nat
    BY <1>3, Numbers
  <2>3. /\ IsFiniteSet(UserCopies(k) \cup UserSlots(k))
        /\ Cardinality(UserCopies(k) \cup UserSlots(k)) <= Cardinality(UserCopies(k)) + Cardinality(UserSlots(k))
    <3>1. IsFiniteSet(UserCopies(k) \cap UserSlots(k))
      BY <2>2, FS_Intersection
    <3>2. Cardinality(UserCopies(k) \cap UserSlots(k)) \in Nat
      BY <3>1, FS_CardinalityType
    <3>3. /\ IsFiniteSet(UserCopies(k) \cup UserSlots(k))
          /\ Cardinality(UserCopies(k) \cup UserSlots(k))
               = Cardinality(UserCopies(k)) + Cardinality(UserSlots(k)) - Cardinality(UserCopies(k) \cap UserSlots(k))
      BY <2>2, FS_Union
    <3> QED
      BY <2>2, <3>2, <3>3
  <2>4. Cardinality(UserCopies(k)) + Cardinality(UserSlots(k)) <= triggers
    <3>1. Waiting \in Nat /\ Cardinality(OpenSlots) \in Nat /\ Cardinality(UserCopies("triage")) \in Nat /\ triggers \in Nat
      BY <1>3, Numbers, Names DEF Waiting
    <3>2. k = "triage" \/ k = "fix"
      BY DEF Kind
    <3> QED
      BY <1>3, <2>2, <3>1, <3>2 DEF TodoInv, Account
  <2>5. /\ Cardinality(Tasks(k, {t \in Task : t.user})) <= Cardinality(UserCopies(k) \cup UserSlots(k))
        /\ Cardinality(Tasks(k, {t \in Task : t.user})) \in Nat
    BY <2>1, <2>3, OneMore
  <2>6. Cardinality(UserCopies(k) \cup UserSlots(k)) \in Nat /\ triggers \in Nat
    BY <1>3, <2>3, FS_CardinalityType, Numbers
  <2> QED
    BY <2>2, <2>3, <2>4, <2>5, <2>6
<1> QED
  BY <1>1, <1>2, <1>3, PTL DEF Spec
=============================================================================
