------------------------- MODULE ConsolidationProofs -------------------------
(***************************************************************************)
(* Proofs about consolidation.  First the workflow of the MR consolidation *)
(* agent, for any number of merge requests, jobs of people, build attempts *)
(* and faults: a label never drops a fix, and what is opened was built and *)
(* bumped once.  Then the groups of issues that one rebase closes, for any *)
(* number of issues, slots and faults: an issue is rebased once at a time, *)
(* and triage and the rebase agent implement RebaseBarrier.                *)
(***************************************************************************)
EXTENDS MRConsolidation, SiblingGroups, FiniteSetTheorems, SequenceTheorems, TLAPS

(* What the variables may be. *)
MRType    == [kind : {"backport", "rebuild"}, base : Nat, commits : Seq(Commit), open : BOOLEAN,
              label : BOOLEAN, from : SUBSET Nat, green : BOOLEAN]
CloneType == [commits : Seq(Commit), tree : Commit, green : BOOLEAN]
StateType == [listed : SUBSET Nat, selected : SUBSET Nat, base : Nat, count : Int, attempts : Int,
              log : BOOLEAN, tomark : SUBSET Nat]
Two(ids)  == \E i, j \in ids : i # j /\ ids = {i, j}
JobType   == {NoJob, AnyTwo} \cup {ids \in SUBSET Nat : Two(ids)}
Types ==
    /\ strategy \in {"per_commit", "merged"} /\ head \in Nat
    /\ mrs \in Seq(MRType) /\ s \in StateType /\ clone \in CloneType
    /\ pending \in JobType /\ recovery \in JobType /\ job \in JobType
    /\ s.selected \subseteq Ids /\ s.listed \subseteq Ids /\ s.tomark \subseteq Ids

(* The steps before a flow is chosen, the flows, and what comes after one;    *)
(* steps that rely on nothing.                                                *)
Before   == {"list_open_mrs", "fork_and_prepare_dist_git"}
Flows    == {"run_consolidation_agent", "per_commit_flow", "rebuild_append_flow"}
Raised   == {"stage_changes", "run_log_agent", "commit_push_and_open_mr"}
Tested   == {"update_release", "push_and_open_mr"} \cup Raised
Resting  == {"idle", "end", "requeue_if_needed"}
Steps    == Before \cup Flows \cup Tested \cup Resting \cup {"run_build_agent", "mark_original_mrs"}

(* What is selected, and which flow it takes. *)
Chosen ==
    /\ step \in Steps
    /\ step \in Before => clone = NewClone
    /\ step = "fork_and_prepare_dist_git" /\ job # AnyTwo => s.selected = job
    /\ step \in Flows \cup Tested \cup {"run_build_agent"} => Two(s.selected)
    /\ step = "rebuild_append_flow" =>
         /\ Rebuilds(s.selected) # {}
         /\ \A i, j \in Backports(s.selected) : i = j
    /\ step = "per_commit_flow" => strategy = "per_commit"
    /\ step \in {"run_consolidation_agent", "update_release"} \cup Raised => strategy = "merged"

(* The commits of the clone are what will be pushed. *)
Ready == step = "push_and_open_mr" \/ (step = "run_build_agent" /\ strategy = "per_commit")

(* What the clone holds of the selected merge requests. *)
Covered(i, commits) == Fixes(Branch(i)) \subseteq Fixes(commits) /\ Tickets(Branch(i)) \subseteq Tickets(commits)
Carried ==
    /\ Ready => clone.commits # <<>> /\ \A i \in s.selected : Covered(i, clone.commits)
    /\ step \in Tested \cup {"run_build_agent"} =>
         \A i \in s.selected : Fixes(Branch(i)) \subseteq Fixes(clone.commits) \cup clone.tree.fixes
    /\ step \in Tested => clone.green

(* The ones still to be labelled went into a merge request. *)
Marked ==
    step = "mark_original_mrs" =>
        \E j \in Ids : s.tomark \subseteq mrs[j].from /\ \A i \in s.tomark : Covered(i, Branch(j))

(* How often the clone bumps the release. *)
Once(commits) == \A k \in DOMAIN commits : commits[k].bumps = 1
Bumped ==
    /\ strategy = "per_commit" /\ Ready => Once(clone.commits)
    /\ strategy = "merged" /\ step \in Flows \cup Tested \cup {"run_build_agent"} => Len(clone.commits) <= 1
    /\ strategy = "merged" /\ step = "push_and_open_mr" => Len(clone.commits) = 1
    /\ strategy = "merged" /\ Rebuilds(s.selected) = {} =>
         /\ step \in Flows \cup Raised \cup {"run_build_agent", "update_release"} =>
              clone.commits = <<>> /\ clone.tree.bumps = IF step \in Raised THEN 1 ELSE 0
         /\ step = "push_and_open_mr" => Once(clone.commits)

(* The merge requests themselves. *)
Sound ==
    /\ \A i \in Ids : /\ Branch(i) # <<>> /\ mrs[i].green
                      /\ Kind(i) = "rebuild" => Fixes(Branch(i)) = {}
    /\ strategy = "per_commit" => \A i \in Ids : Once(Branch(i))
    /\ strategy = "merged" => \A i \in Ids : Len(Branch(i)) = 1
    /\ NothingDropped /\ ReleaseBumped

Local == Chosen /\ Carried /\ Marked /\ Bumped
Inv   == Types /\ Sound /\ Local

-----------------------------------------------------------------------------
(* Merge requests are only added; only whether they are open or labelled      *)
(* changes.                                                                   *)
Kept == /\ Ids \subseteq Ids'
        /\ \A i \in Ids : /\ mrs'[i].commits = mrs[i].commits /\ mrs'[i].kind = mrs[i].kind
                          /\ mrs'[i].from = mrs[i].from /\ mrs'[i].green = mrs[i].green

(* What the workflow knows of merge requests stays true while others change   *)
(* them.                                                                      *)
LEMMA OthersKeep ==
    ASSUME Inv, Types', Kept, UNCHANGED <<strategy, job, step, s, clone>>
    PROVE  Local'
<1>1. \A i \in Ids : i \in Ids' /\ Branch(i)' = Branch(i) /\ Kind(i)' = Kind(i) /\ (mrs[i].from)' = mrs[i].from
  BY DEF Kept, Branch, Kind
<1>2. s.selected \subseteq Ids /\ s.tomark \subseteq Ids
  BY DEF Inv, Types
<1>3. Rebuilds(s.selected)' = Rebuilds(s.selected) /\ Backports(s.selected)' = Backports(s.selected)
  BY <1>1, <1>2 DEF Rebuilds, Backports
<1>4. \A i \in Ids : Fixes(Branch(i))' = Fixes(Branch(i)) /\ Tickets(Branch(i))' = Tickets(Branch(i))
  BY <1>1 DEF Fixes, Tickets
<1>5. Fixes(clone.commits)' = Fixes(clone.commits) /\ Tickets(clone.commits)' = Tickets(clone.commits)
  BY DEF Fixes, Tickets
<1>6. Chosen'
  BY <1>3 DEF Inv, Local, Chosen, Two
<1>7. Carried'
  BY <1>2, <1>4, <1>5 DEF Inv, Local, Carried, Ready, Covered
<1>8. Marked'
  BY <1>1, <1>2, <1>4 DEF Inv, Local, Marked, Covered
<1>9. Bumped'
  BY <1>3 DEF Inv, Local, Bumped, Ready, Once
<1> QED
  BY <1>6, <1>7, <1>8, <1>9 DEF Local

(* A step that leaves the merge requests alone. *)
LEMMA SoundStays ==
    ASSUME Sound, UNCHANGED <<strategy, mrs>>
    PROVE  Sound'
<1>1. \A i : Branch(i)' = Branch(i) /\ Fixes(Branch(i))' = Fixes(Branch(i)) /\ Tickets(Branch(i))' = Tickets(Branch(i))
  BY DEF Branch, Fixes, Tickets
<1>2. Ids' = Ids /\ \A i : Kind(i)' = Kind(i)
  BY DEF Ids, Kind
<1>3. NothingDropped'
  BY <1>1, <1>2 DEF Sound, NothingDropped
<1>4. \A j : MergedRebuild(j)' = MergedRebuild(j)
  BY <1>1, <1>2 DEF MergedRebuild
<1>5. ReleaseBumped'
  BY <1>1, <1>2, <1>4 DEF Sound, ReleaseBumped, Consolidated
<1> QED
  BY <1>1, <1>2, <1>3, <1>5 DEF Sound, Once

(* A step that opens or labels merge requests, all of them sound. *)
LEMMA SoundGrows ==
    ASSUME Inv, Kept, UNCHANGED strategy,
           \A j \in Ids' \ Ids :
               /\ mrs'[j].commits # <<>> /\ mrs'[j].green /\ ~mrs'[j].label
               /\ mrs'[j].kind = "rebuild" => Fixes(mrs'[j].commits) = {}
               /\ strategy = "per_commit" => Once(mrs'[j].commits)
               /\ strategy = "merged" => Len(mrs'[j].commits) = 1
               /\ mrs'[j].from # {} /\ ~MergedRebuild(j)' => Once(mrs'[j].commits),
           \A i \in Ids : mrs'[i].label =>
               mrs[i].label \/ \E j \in Ids : i \in mrs[j].from /\ Covered(i, Branch(j))
    PROVE  Sound'
<1>1. \A i \in Ids : i \in Ids' /\ Branch(i)' = Branch(i) /\ Kind(i)' = Kind(i) /\ (mrs[i].from)' = mrs[i].from
                     /\ Fixes(Branch(i))' = Fixes(Branch(i)) /\ Tickets(Branch(i))' = Tickets(Branch(i))
                     /\ Once(Branch(i))' = Once(Branch(i))
  BY DEF Kept, Branch, Kind, Fixes, Tickets, Once
<1>2. \A i \in Ids' : /\ Branch(i)' # <<>> /\ mrs'[i].green
                      /\ Kind(i)' = "rebuild" => Fixes(Branch(i))' = {}
  BY <1>1 DEF Inv, Sound, Kept, Branch, Kind, Fixes
<1>3. /\ strategy' = "per_commit" => \A i \in Ids' : Once(Branch(i))'
      /\ strategy' = "merged" => \A i \in Ids' : Len(Branch(i))' = 1
  BY <1>1 DEF Inv, Sound, Branch, Once
<1>4. NothingDropped'
  BY <1>1 DEF Inv, Sound, NothingDropped, Covered
<1>5. ASSUME NEW j \in Ids, MergedRebuild(j) PROVE MergedRebuild(j)'
  BY <1>1, <1>5 DEF MergedRebuild
<1>6. ASSUME NEW j \in Ids', Consolidated(j)', ~MergedRebuild(j)'
      PROVE  /\ \A k \in DOMAIN Branch(j)' : Branch(j)'[k].bumps = 1
             /\ strategy' = "merged" => Len(Branch(j)') = 1
  <2>1. CASE j \in Ids
    BY <1>1, <1>5, <1>6, <2>1 DEF Inv, Sound, ReleaseBumped, Consolidated
  <2>2. CASE j \notin Ids
    BY <1>6, <2>2 DEF Branch, Once, Consolidated
  <2> QED
    BY <2>1, <2>2
<1>7. ReleaseBumped'
  BY <1>6 DEF ReleaseBumped
<1> QED
  BY <1>2, <1>3, <1>4, <1>7 DEF Sound

(* A merge request is added. *)
LEMMA Appended ==
    ASSUME Types, NEW m \in MRType, mrs' = Append(mrs, m)
    PROVE  /\ mrs' \in Seq(MRType) /\ Kept /\ Ids' \ Ids = {Len(mrs) + 1} /\ mrs'[Len(mrs) + 1] = m
           /\ \A i \in Ids : mrs'[i] = mrs[i]
<1>1. mrs \in Seq(MRType) /\ Len(mrs) \in Nat
  BY DEF Types
<1>2. mrs' \in Seq(MRType) /\ Len(mrs') = Len(mrs) + 1 /\ mrs'[Len(mrs) + 1] = m
      /\ \A i \in 1..Len(mrs) : mrs'[i] = mrs[i]
  BY <1>1
<1>3. Ids = 1..Len(mrs) /\ Ids' = 1..(Len(mrs) + 1)
  BY <1>2 DEF Ids
<1> QED
  BY <1>1, <1>2, <1>3 DEF Kept

(* A merge request is closed or labelled. *)
LEMMA Replaced ==
    ASSUME Types, NEW i \in Ids, NEW m \in MRType, mrs' = [mrs EXCEPT ![i] = m],
           m.commits = mrs[i].commits, m.kind = mrs[i].kind, m.from = mrs[i].from, m.green = mrs[i].green
    PROVE  /\ mrs' \in Seq(MRType) /\ Kept /\ Ids' = Ids /\ mrs'[i] = m
           /\ \A j \in Ids \ {i} : mrs'[j] = mrs[j]
<1>1. mrs \in Seq(MRType) /\ Len(mrs) \in Nat /\ i \in 1..Len(mrs)
  BY DEF Types, Ids
<1>2. mrs' \in Seq(MRType) /\ Len(mrs') = Len(mrs) /\ mrs'[i] = m /\ \A j \in 1..Len(mrs) : j # i => mrs'[j] = mrs[j]
  BY <1>1
<1> QED
  BY <1>1, <1>2 DEF Kept, Ids

(* A submission leaves a job of the right kind. *)
LEMMA Submits ==
    ASSUME Types, Submit
    PROVE  pending' \in JobType
BY DEF Types, Submit, JobType

(* The workflow is over, or waits. *)
LEMMA Rests ==
    ASSUME step' \in Resting
    PROVE  Local'
<1>1. Chosen'
  BY DEF Chosen, Resting, Steps, Before, Flows, Tested, Raised
<1>2. Carried' /\ Marked' /\ Bumped'
  BY DEF Carried, Marked, Bumped, Resting, Ready, Flows, Tested, Raised
<1> QED
  BY <1>1, <1>2 DEF Local

(* It came to rest without touching merge requests. *)
LEMMA RestKeeps ==
    ASSUME Inv, Types', UNCHANGED <<strategy, mrs>>, step' \in Resting
    PROVE  Inv'
BY SoundStays, Rests DEF Inv

(* A run ends, as it may at any step. *)
LEMMA EndKeeps ==
    ASSUME Inv, End, UNCHANGED <<strategy, head, mrs, recovery, job>>, pending' \in JobType
    PROVE  Inv'
<1>1. NewState \in StateType /\ NewState.selected = {} /\ NewState.listed = {} /\ NewState.tomark = {}
  BY ConsolidationAssumption DEF NewState, StateType
<1>2. NewClone \in CloneType
  BY DEF NewClone, CloneType, NoChange, Commit
<1>3. Types'
  BY <1>1, <1>2 DEF End, Goto, Inv, Types, Ids
<1> QED
  BY <1>3, RestKeeps DEF End, Goto, Resting

(* A call that fails ends the run. *)
LEMMA FailsKeeps ==
    ASSUME Inv, Fails
    PROVE  Inv'
BY EndKeeps DEF Fails, outside, Inv, Types

(* Others open, merge and pair merge requests. *)
LEMMA PeopleKeep ==
    ASSUME Inv, People
    PROVE  Inv'
<1>1. ASSUME NEW kind \in {"backport", "rebuild"}, NewMR(kind) PROVE Inv'
  <2> DEFINE n == Len(mrs) + 1
             change == [fixes |-> IF kind = "backport" THEN {n} ELSE {}, tickets |-> {n}, bumps |-> 1]
             m == [kind |-> kind, base |-> head, commits |-> <<change>>, open |-> TRUE, label |-> FALSE,
                   from |-> {}, green |-> TRUE]
  <2>1. n \in Nat /\ head \in Nat
    BY DEF Inv, Types
  <2>2. m \in MRType
    BY <2>1 DEF MRType, Commit
  <2>3. mrs' = Append(mrs, m)
    BY <1>1 DEF NewMR
  <2>4. /\ m.commits # <<>> /\ m.green /\ ~m.label /\ m.from = {} /\ Once(m.commits) /\ Len(m.commits) = 1
        /\ m.kind = "rebuild" => Fixes(m.commits) = {}
    BY DEF Once, Fixes
  <2> HIDE DEF m
  <2>5. /\ mrs' \in Seq(MRType) /\ Kept /\ Ids' \ Ids = {n} /\ mrs'[n] = m
        /\ \A i \in Ids : mrs'[i] = mrs[i]
    BY <2>2, <2>3, Appended DEF Inv
  <2>6. UNCHANGED <<strategy, head, recovery, job, step, s, clone>> /\ pending' \in JobType
    BY <1>1, Submits DEF NewMR, Inv
  <2>7. Types'
    BY <2>5, <2>6 DEF Inv, Types, Kept
  <2>8. Sound'
    BY <2>4, <2>5, <2>6, SoundGrows
  <2> QED
    BY <2>5, <2>6, <2>7, <2>8, OthersKeep DEF Inv
<1>2. ASSUME NEW i \in Ids, NEW j \in Ids, SubmitPair(i, j) PROVE Inv'
  <2>1. pending' \in JobType
    <3>1. pending' = {i, j} /\ i # j
      BY <1>2 DEF SubmitPair
    <3>2. {i, j} \in SUBSET Nat /\ Two({i, j})
      BY <3>1 DEF Two, Ids
    <3> QED
      BY <3>1, <3>2 DEF JobType
  <2>2. UNCHANGED <<strategy, head, mrs, recovery, job, step, s, clone>>
    BY <1>2 DEF SubmitPair
  <2>3. Types'
    BY <2>1, <2>2 DEF Inv, Types, Ids
  <2>4. Sound'
    BY <2>2, SoundStays DEF Inv
  <2>5. Kept
    BY <2>2 DEF Kept, Ids
  <2> QED
    BY <2>2, <2>3, <2>4, <2>5, OthersKeep DEF Inv
<1>3. ASSUME NEW i \in Ids, Merge(i) PROVE Inv'
  <2>1. mrs[i] \in MRType
    BY DEF Inv, Types, Ids
  <2>2. PICK m : m = [mrs[i] EXCEPT !.open = FALSE]
    OBVIOUS
  <2>3. m \in MRType /\ m.commits = mrs[i].commits /\ m.kind = mrs[i].kind /\ m.from = mrs[i].from
        /\ m.green = mrs[i].green /\ m.label = mrs[i].label
    BY <2>1, <2>2 DEF MRType
  <2>4. mrs' = [mrs EXCEPT ![i] = m]
    BY <1>3, <2>2 DEF Merge
  <2>5. /\ mrs' \in Seq(MRType) /\ Kept /\ Ids' = Ids /\ mrs'[i] = m
        /\ \A j \in Ids \ {i} : mrs'[j] = mrs[j]
    BY <2>3, <2>4, Replaced DEF Inv
  <2>6. UNCHANGED <<strategy, pending, recovery, job, step, s, clone>> /\ head' \in Nat
    BY <1>3 DEF Merge, Inv, Types
  <2>7. Types'
    BY <2>5, <2>6 DEF Inv, Types
  <2>8. Sound'
    BY <2>3, <2>5, <2>6, SoundGrows
  <2> QED
    BY <2>5, <2>6, <2>7, <2>8, OthersKeep DEF Inv
<1> QED
  BY <1>1, <1>2, <1>3 DEF People

-----------------------------------------------------------------------------
(* A step of the workflow that goes on to state t, for which the local parts  *)
(* hold.                                                                      *)
LEMMA GoesOn ==
    ASSUME Inv, UNCHANGED <<outside, mrs>>, s' \in StateType, clone' \in CloneType,
           s'.selected \subseteq Ids, s'.listed \subseteq Ids, s'.tomark \subseteq Ids, Local'
    PROVE  Inv'
<1>1. Types'
  BY DEF Inv, Types, outside, Ids
<1>2. Sound'
  BY SoundStays DEF Inv, outside
<1> QED
  BY <1>1, <1>2 DEF Inv

(* A job starts, ends or is interrupted. *)
LEMMA JobKeeps ==
    ASSUME Inv, PickJob \/ CompleteJob \/ Interrupt
    PROVE  Inv'
<1>1. NewState \in StateType /\ NewState.selected = {} /\ NewState.listed = {} /\ NewState.tomark = {}
  BY ConsolidationAssumption DEF NewState, StateType
<1>2. NewClone \in CloneType
  BY DEF NewClone, CloneType, NoChange, Commit
<1>3. NoJob \in JobType /\ AnyTwo \in JobType
  BY DEF JobType
<1>4. CASE PickJob
  <2>1. Types'
    BY <1>1, <1>2, <1>3, <1>4 DEF PickJob, Inv, Types, Ids
  <2>2. Sound'
    BY <1>4, SoundStays DEF PickJob, Inv
  <2>3. Local'
    BY <1>1, <1>4 DEF PickJob, Local, Chosen, Carried, Marked, Bumped, Ready, Steps, Before, Flows, Tested, Raised
  <2> QED
    BY <2>1, <2>2, <2>3 DEF Inv
<1>5. CASE CompleteJob
  <2>1. Types'
    BY <1>3, <1>5 DEF CompleteJob, Goto, Inv, Types, Ids
  <2> QED
    BY <1>5, <2>1, RestKeeps DEF CompleteJob, Goto, Resting
<1>6. CASE Interrupt
  <2>1. Types'
    BY <1>1, <1>2, <1>3, <1>6 DEF Interrupt, Goto, Inv, Types, Ids
  <2> QED
    BY <1>6, <2>1, RestKeeps DEF Interrupt, Goto, Resting
<1> QED
  BY <1>4, <1>5, <1>6

(* A pair of which one member is a backport has a rebuild, and no second one. *)
LEMMA Mixed ==
    ASSUME NEW ids, Two(ids), ids \subseteq Ids, mrs \in Seq(MRType), Cardinality(Backports(ids)) = 1
    PROVE  Rebuilds(ids) # {} /\ \A i, j \in Backports(ids) : i = j
<1>1. PICK i \in ids, j \in ids : i # j /\ ids = {i, j}
  BY DEF Two
<1>2. Cardinality({i, j}) = 2
  <2>1. Cardinality({i}) = 1 /\ IsFiniteSet({i})
    BY FS_Singleton
  <2>2. Cardinality({i} \cup {j}) = Cardinality({i}) + 1
    BY <1>1, <2>1, FS_AddElement
  <2>3. {i} \cup {j} = {i, j}
    OBVIOUS
  <2> QED
    BY <2>1, <2>2, <2>3
<1>3. Cardinality({}) = 0
  BY FS_EmptySet
<1>4. Backports(ids) # {i, j}
  <2> SUFFICES ASSUME Backports(ids) = {i, j} PROVE FALSE
    OBVIOUS
  <2>1. Cardinality(Backports(ids)) = Cardinality({i, j})
    BY Zenon
  <2> QED
    BY <1>2, <2>1
<1>5. Backports(ids) # {}
  <2> SUFFICES ASSUME Backports(ids) = {} PROVE FALSE
    OBVIOUS
  <2>1. Cardinality(Backports(ids)) = Cardinality({})
    BY Zenon
  <2> QED
    BY <1>3, <2>1
<1>6. \A x \in Ids : Kind(x) \in {"backport", "rebuild"}
  <2>1. \A x \in Ids : mrs[x] \in MRType
    BY DEF Ids
  <2> QED
    BY <2>1 DEF Kind, MRType
<1> QED
  BY <1>1, <1>4, <1>5, <1>6 DEF Backports, Rebuilds

(* What a pair is folded by. *)
LEMMA Flowing ==
    ASSUME Inv, NEW ids, Two(ids), ids \subseteq Ids
    PROVE  /\ Flow(ids) \in Flows
           /\ Flow(ids) = "rebuild_append_flow" => Rebuilds(ids) # {} /\ \A i, j \in Backports(ids) : i = j
           /\ Flow(ids) = "per_commit_flow" => strategy = "per_commit"
           /\ Flow(ids) = "run_consolidation_agent" => strategy = "merged"
<1>1. mrs \in Seq(MRType) /\ strategy \in {"per_commit", "merged"}
  BY DEF Inv, Types
<1> QED
  BY <1>1, Mixed DEF Flow, Strategy, Flows

(* Merge requests are listed and selected. *)
LEMMA SelectionKeeps ==
    ASSUME Inv, ListOpenMRs \/ ForkAndPrepare
    PROVE  Inv'
<1>1. s \in StateType /\ clone \in CloneType /\ head \in Nat /\ Ids \subseteq Nat
  BY DEF Inv, Types, Ids
<1>2. CASE ListOpenMRs
  <2>1. CASE Fails
    BY <2>1, FailsKeeps
  <2>2. CASE End /\ Quietly
    BY <2>2, EndKeeps DEF Quietly, outside, Inv, Types
  <2>3. ASSUME step = "list_open_mrs", Quietly, UNCHANGED clone, job # AnyTwo => job \subseteq Listing,
               Goto("fork_and_prepare_dist_git",
                    IF job = AnyTwo THEN [s EXCEPT !.listed = Listing] ELSE [s EXCEPT !.selected = job])
        PROVE  Inv'
    <3>1. Listing \subseteq Ids
      BY DEF Listing
    <3>2. /\ s' \in StateType /\ s'.selected \subseteq Ids /\ s'.listed \subseteq Ids /\ s'.tomark \subseteq Ids
          /\ job # AnyTwo => s'.selected = job
      BY <1>1, <2>3, <3>1 DEF Goto, StateType, Inv, Types
    <3>3. clone = NewClone
      BY <2>3 DEF Inv, Local, Chosen, Before
    <3>4. Local'
      BY <2>3, <3>2, <3>3 DEF Goto, Quietly, outside, Local, Chosen, Carried, Marked, Bumped, Ready, Steps, Before, Flows,
                              Tested, Raised, NewClone
    <3> QED
      BY <1>1, <2>3, <3>2, <3>4, GoesOn DEF Quietly
  <2> QED
    BY <1>2, <2>1, <2>2, <2>3 DEF ListOpenMRs
<1>3. CASE ForkAndPrepare
  <2>1. CASE Fails
    BY <2>1, FailsKeeps
  <2>2. CASE End /\ Quietly
    BY <2>2, EndKeeps DEF Quietly, outside, Inv, Types
  <2>3. ASSUME step = "fork_and_prepare_dist_git", Quietly, UNCHANGED clone, NEW ids, Two(ids), ids \subseteq Ids,
               step' = Flow(ids), s' \in StateType, s'.selected = ids, s'.listed \subseteq Ids, s'.tomark = s.tomark
        PROVE  Inv'
    <3>1. clone = NewClone
      BY <2>3 DEF Inv, Local, Chosen, Before
    <3>2. Rebuilds(s.selected)' = Rebuilds(ids) /\ Backports(s.selected)' = Backports(ids)
      BY <2>3 DEF Rebuilds, Backports, Kind, Quietly
    <3>3. Two(s.selected)'
      BY <2>3 DEF Two
    <3>4. /\ step' \in Flows
          /\ step' = "rebuild_append_flow" => Rebuilds(ids) # {} /\ \A i, j \in Backports(ids) : i = j
          /\ step' = "per_commit_flow" => strategy = "per_commit"
          /\ step' = "run_consolidation_agent" => strategy = "merged"
      BY <2>3, Flowing
    <3>5. Chosen'
      BY <2>3, <3>2, <3>3, <3>4 DEF Quietly, outside, Chosen, Steps, Before, Flows, Tested, Raised
    <3>6. Carried' /\ Marked' /\ Bumped'
      BY <2>3, <3>1, <3>4 DEF Carried, Marked, Bumped, Ready, Flows, Tested, Raised, NewClone, NoChange
    <3> QED
      BY <1>1, <2>3, <3>5, <3>6, GoesOn DEF Quietly, Local, Inv, Types
  <2>4. ASSUME step = "fork_and_prepare_dist_git", job # AnyTwo, Goto(Flow(job), [s EXCEPT !.base = head]), Quietly,
               UNCHANGED clone
        PROVE  Inv'
    <3>1. s.selected = job /\ job \subseteq Ids /\ job \in JobType
      BY <2>4 DEF Inv, Local, Chosen, Types
    <3>2. Two(job)
      BY <1>1, <2>4, <3>1 DEF JobType, NoJob, Ids, Inv, Types
    <3>3. s' \in StateType /\ s'.selected = job /\ s'.listed = s.listed /\ s'.tomark = s.tomark /\ step' = Flow(job)
      BY <1>1, <2>4, <3>1 DEF Goto, StateType
    <3> QED
      BY <2>3, <2>4, <3>1, <3>2, <3>3 DEF Inv, Types
  <2>5. ASSUME step = "fork_and_prepare_dist_git", Quietly, UNCHANGED clone,
               NEW current \in SUBSET s.listed, NEW i \in current, NEW j \in current \ {i},
               Goto(Flow({i, j}), [s EXCEPT !.base = head, !.selected = {i, j}, !.listed = {},
                                            !.count = Cardinality(current)])
        PROVE  Inv'
    <3>1. {i, j} \subseteq Ids /\ Two({i, j})
      BY <2>5 DEF Inv, Types, Two
    <3>2. Cardinality(current) \in Nat
      <4>1. IsFiniteSet(Ids)
        <5>1. Len(mrs) \in Nat /\ Ids = 1 .. Len(mrs)
          BY DEF Inv, Types, Ids
        <5>2. IsFiniteSet(1 .. Len(mrs))
          BY ONLY <5>1, FS_Interval
        <5> QED
          BY ONLY <5>1, <5>2
      <4>2. current \subseteq Ids
        BY <2>5 DEF Inv, Types
      <4> QED
        BY <4>1, <4>2, FS_Subset, FS_CardinalityType
    <3>3. s' \in StateType /\ s'.selected = {i, j} /\ s'.listed = {} /\ s'.tomark = s.tomark /\ step' = Flow({i, j})
      <4>1. PICK pair : pair = {i, j}
        OBVIOUS
      <4>2. PICK n : n = Cardinality(current)
        OBVIOUS
      <4>3. PICK t : t = [s EXCEPT !.base = head, !.selected = pair, !.listed = {}, !.count = n]
        OBVIOUS
      <4>4. pair \subseteq Nat /\ n \in Nat
        BY <1>1, <3>1, <3>2, <4>1, <4>2
      <4>5. t \in StateType /\ t.selected = pair /\ t.listed = {} /\ t.tomark = s.tomark
        <5>1. PICK u : u = s
          OBVIOUS
        <5>2. u \in StateType
          BY <1>1, <5>1
        <5>3. t = [u EXCEPT !.base = head, !.selected = pair, !.listed = {}, !.count = n]
          BY <4>3, <5>1
        <5>4. head \in Nat /\ n \in Int
          BY <1>1, <4>4
        <5> QED
          BY <4>4, <5>1, <5>2, <5>3, <5>4 DEF StateType
      <4>6. s' = t /\ step' = Flow({i, j})
        BY <2>5, <4>1, <4>2, <4>3 DEF Goto
      <4> QED
        BY <4>1, <4>5, <4>6
    <3> QED
      BY <2>3, <2>5, <3>1, <3>3
  <2> QED
    BY <1>3, <2>1, <2>2, <2>4, <2>5 DEF ForkAndPrepare
<1> QED
  BY <1>2, <1>3

-----------------------------------------------------------------------------
(* What a branch is, and what it brings. *)
LEMMA Branches ==
    ASSUME Types, NEW i \in Ids
    PROVE  Branch(i) \in Seq(Commit) /\ Fixes(Branch(i)) \subseteq Nat /\ Tickets(Branch(i)) \subseteq Nat
<1>1. mrs[i] \in MRType
  BY DEF Types, Ids
<1>2. Branch(i) \in Seq(Commit)
  BY <1>1 DEF Branch, MRType
<1>3. \A k \in DOMAIN Branch(i) : Branch(i)[k] \in Commit
  BY <1>2
<1> QED
  BY <1>2, <1>3 DEF Fixes, Tickets, Commit

(* Two series of commits bring what each of them brings. *)
LEMMA Joined ==
    ASSUME NEW a \in Seq(Commit), NEW b \in Seq(Commit)
    PROVE  /\ a \o b \in Seq(Commit) /\ (a # <<>> => a \o b # <<>>)
           /\ Fixes(a) \cup Fixes(b) \subseteq Fixes(a \o b)
           /\ Tickets(a) \cup Tickets(b) \subseteq Tickets(a \o b)
           /\ Once(a) /\ Once(b) => Once(a \o b)
<1>1. PICK c : c = a \o b
  OBVIOUS
<1>2. /\ c \in Seq(Commit) /\ Len(c) = Len(a) + Len(b) /\ Len(a) \in Nat /\ Len(b) \in Nat
      /\ \A k \in 1..Len(a) : c[k] = a[k]
      /\ \A k \in 1..Len(b) : c[Len(a) + k] = b[k]
  BY <1>1
<1>3. DOMAIN a = 1..Len(a) /\ DOMAIN b = 1..Len(b) /\ DOMAIN c = 1..Len(c)
  BY <1>2
<1>4. \A k \in DOMAIN a : k \in DOMAIN c /\ c[k] = a[k]
  BY <1>2, <1>3
<1>5. \A k \in DOMAIN b : Len(a) + k \in DOMAIN c /\ c[Len(a) + k] = b[k]
  BY <1>2, <1>3
<1>6. \A k \in DOMAIN c : k \in DOMAIN a \/ (\E l \in DOMAIN b : c[k] = b[l])
  <2> SUFFICES ASSUME NEW k \in DOMAIN c, k \notin DOMAIN a PROVE \E l \in DOMAIN b : c[k] = b[l]
    OBVIOUS
  <2>1. k - Len(a) \in DOMAIN b /\ Len(a) + (k - Len(a)) = k
    BY <1>2, <1>3
  <2> QED
    BY <1>5, <2>1
<1>7. a # <<>> => c # <<>>
  BY <1>2
<1>8. Fixes(a) \cup Fixes(b) \subseteq Fixes(c) /\ Tickets(a) \cup Tickets(b) \subseteq Tickets(c)
  BY <1>4, <1>5 DEF Fixes, Tickets
<1>9. Once(a) /\ Once(b) => Once(c)
  BY <1>4, <1>6 DEF Once
<1> QED
  BY <1>1, <1>2, <1>7, <1>8, <1>9

(* Adapted commits bring the same and bump the release once each. *)
LEMMA AdaptedKeeps ==
    ASSUME NEW a \in Seq(Commit)
    PROVE  /\ Adapted(a) \in Seq(Commit) /\ Once(Adapted(a))
           /\ Fixes(Adapted(a)) = Fixes(a) /\ Tickets(Adapted(a)) = Tickets(a)
<1>1. PICK b : b = Adapted(a)
  OBVIOUS
<1>2. DOMAIN b = DOMAIN a /\ \A k \in DOMAIN a : b[k] = [a[k] EXCEPT !.bumps = 1]
  BY <1>1 DEF Adapted
<1>3. \A k \in DOMAIN a : a[k] \in Commit
  OBVIOUS
<1>4. \A k \in DOMAIN a : b[k] \in Commit /\ b[k].bumps = 1 /\ b[k].fixes = a[k].fixes /\ b[k].tickets = a[k].tickets
  BY <1>2, <1>3 DEF Commit
<1>5. b \in Seq(Commit)
  <2>1. DOMAIN b = 1..Len(a) /\ Len(a) \in Nat
    BY <1>2
  <2>2. b = [k \in 1..Len(a) |-> b[k]]
    BY <1>1, <2>1 DEF Adapted
  <2>3. b \in [1..Len(a) -> Commit]
    BY <1>2, <1>4, <2>1, <2>2
  <2> QED
    BY <2>1, <2>3, SeqDef
<1>6. Once(b) /\ Fixes(b) = Fixes(a) /\ Tickets(b) = Tickets(a)
  BY <1>2, <1>4 DEF Once, Fixes, Tickets
<1> QED
  BY <1>1, <1>5, <1>6

(* Amending the last commit adds tickets and nothing else. *)
LEMMA AmendedKeeps ==
    ASSUME NEW a \in Seq(Commit), a # <<>>, NEW more \in SUBSET Nat
    PROVE  /\ Amended(a, more) \in Seq(Commit) /\ Len(Amended(a, more)) = Len(a) /\ Amended(a, more) # <<>>
           /\ Fixes(Amended(a, more)) = Fixes(a)
           /\ Tickets(a) \cup more \subseteq Tickets(Amended(a, more))
           /\ Once(a) => Once(Amended(a, more))
<1>1. Len(a) \in DOMAIN a /\ DOMAIN a = 1..Len(a) /\ Len(a) \in Nat
  OBVIOUS
<1>2. PICK last : last = [a[Len(a)] EXCEPT !.tickets = @ \cup more]
  OBVIOUS
<1>3. a[Len(a)] \in Commit
  BY <1>1
<1>4. /\ last \in Commit /\ last.fixes = a[Len(a)].fixes /\ last.bumps = a[Len(a)].bumps
      /\ last.tickets = a[Len(a)].tickets \cup more
  BY <1>2, <1>3 DEF Commit
<1>5. PICK b : b = [a EXCEPT ![Len(a)] = last]
  OBVIOUS
<1>6. b = Amended(a, more)
  BY <1>2, <1>5 DEF Amended
<1>7. /\ b \in Seq(Commit) /\ Len(b) = Len(a) /\ DOMAIN b = DOMAIN a /\ b[Len(a)] = last
      /\ \A k \in DOMAIN a : k # Len(a) => b[k] = a[k]
  BY <1>1, <1>4, <1>5
<1>8. b # <<>>
  BY <1>1, <1>7
<1>9. /\ \A k \in DOMAIN a : b[k].fixes = a[k].fixes /\ b[k].bumps = a[k].bumps /\ a[k].tickets \subseteq b[k].tickets
      /\ more \subseteq b[Len(a)].tickets
  BY <1>4, <1>7
<1>10. Fixes(b) = Fixes(a)
  BY <1>7, <1>9 DEF Fixes
<1>11. Tickets(a) \subseteq Tickets(b) /\ more \subseteq Tickets(b)
  BY <1>1, <1>7, <1>9 DEF Tickets
<1>12. Once(a) => Once(b)
  BY <1>7, <1>9 DEF Once
<1> QED
  BY <1>6, <1>7, <1>8, <1>10, <1>11, <1>12

(* How often a single commit, and none, bump the release. *)
LEMMA NoBumps == Bumps(<<>>) = 0
<1>1. Len(<<>>) = 0 /\ 0 \in 0..0
  OBVIOUS
<1> DEFINE F(f) == [k \in 0..Len(<<>>) |-> IF k = 0 THEN 0 ELSE f[k - 1] + <<>>[k].bumps]
<1>2. PICK g : g = F(g)
  <2>1. [k \in 0..Len(<<>>) |-> 0] = F([k \in 0..Len(<<>>) |-> 0])
    BY <1>1
  <2> QED
    BY <2>1
<1> HIDE DEF F
<1>3. Bumps(<<>>) = (CHOOSE f : f = F(f))[Len(<<>>)]
  BY Zenon DEF Bumps, F
<1>4. (CHOOSE f : f = F(f)) = F(CHOOSE f : f = F(f))
  BY <1>2, Zenon
<1>5. F(CHOOSE f : f = F(f))[0] = 0
  BY <1>1 DEF F
<1> QED
  BY <1>1, <1>3, <1>4, <1>5, Zenon

(* The same for one commit. *)
LEMMA OneBump ==
    ASSUME NEW a, Len(a) = 1, a[1].bumps \in Nat
    PROVE  Bumps(a) = a[1].bumps
<1> DEFINE F(f) == [k \in 0..Len(a) |-> IF k = 0 THEN 0 ELSE f[k - 1] + a[k].bumps]
<1>1. PICK g : g = F(g)
  <2>1. PICK n : n = a[1].bumps
    OBVIOUS
  <2>2. PICK h : h = [k \in 0..1 |-> IF k = 0 THEN 0 ELSE n]
    OBVIOUS
  <2>3. h[0] = 0 /\ h[1] = n /\ n \in Nat
    BY <2>1, <2>2
  <2>4. \A k \in 0..1 : h[k] = IF k = 0 THEN 0 ELSE h[k - 1] + a[k].bumps
    <3>1. \A k \in 0..1 : k = 0 \/ k = 1
      OBVIOUS
    <3>2. h[1 - 1] + a[1].bumps = n
      BY <2>1, <2>3
    <3> QED
      BY <2>3, <3>1, <3>2
  <2>5. h = F(h)
    BY <2>2, <2>4
  <2> QED
    BY <2>5
<1> HIDE DEF F
<1>2. Bumps(a) = (CHOOSE f : f = F(f))[Len(a)]
  BY Zenon DEF Bumps, F
<1>3. (CHOOSE f : f = F(f)) = F(CHOOSE f : f = F(f))
  BY <1>1, Zenon
<1>4. PICK f : f = (CHOOSE e : e = F(e))
  OBVIOUS
<1>5. f = F(f) /\ Bumps(a) = f[1]
  BY <1>2, <1>3, <1>4, Zenon
<1>6. F(f)[0] = 0 /\ F(f)[1] = f[1 - 1] + a[1].bumps
  BY DEF F
<1> QED
  BY <1>5, <1>6

-----------------------------------------------------------------------------
(* A step from a flow on, up to the push: what has to hold of the clone.      *)
LEMMA WorkKeeps ==
    ASSUME Inv, UNCHANGED <<outside, mrs>>, s' \in StateType, clone' \in CloneType,
           s'.selected = s.selected, s'.listed = s.listed, s'.tomark = s.tomark, Two(s.selected),
           step' \in Flows \cup Tested \cup {"run_build_agent"},
           step' = "rebuild_append_flow" =>
               Rebuilds(s.selected) # {} /\ \A i, j \in Backports(s.selected) : i = j,
           step' = "per_commit_flow" => strategy = "per_commit",
           step' \in {"run_consolidation_agent", "update_release"} \cup Raised => strategy = "merged",
           step' = "push_and_open_mr" \/ (step' = "run_build_agent" /\ strategy = "per_commit") =>
               /\ clone'.commits # <<>> /\ \A i \in s.selected : Covered(i, clone'.commits)
               /\ strategy = "per_commit" => Once(clone'.commits),
           step' \in Tested \cup {"run_build_agent"} =>
               \A i \in s.selected : Fixes(Branch(i)) \subseteq Fixes(clone'.commits) \cup clone'.tree.fixes,
           step' \in Tested => clone'.green,
           strategy = "merged" =>
               /\ Len(clone'.commits) <= 1
               /\ step' = "push_and_open_mr" => Len(clone'.commits) = 1,
           strategy = "merged" /\ Rebuilds(s.selected) = {} =>
               /\ step' # "push_and_open_mr" =>
                      clone'.commits = <<>> /\ clone'.tree.bumps = IF step' \in Raised THEN 1 ELSE 0
               /\ step' = "push_and_open_mr" => Once(clone'.commits)
    PROVE  Inv'
<1>1. /\ \A i : Branch(i)' = Branch(i) /\ Fixes(Branch(i))' = Fixes(Branch(i)) /\ Tickets(Branch(i))' = Tickets(Branch(i))
      /\ Rebuilds(s.selected)' = Rebuilds(s.selected) /\ Backports(s.selected)' = Backports(s.selected)
      /\ Two(s.selected)'
  BY DEF Branch, Fixes, Tickets, Rebuilds, Backports, Kind, Two
<1>2. Fixes(clone.commits)' = Fixes(clone'.commits) /\ Tickets(clone.commits)' = Tickets(clone'.commits)
      /\ Once(clone.commits)' = Once(clone'.commits)
  BY DEF Fixes, Tickets, Once
<1>3. Chosen'
  BY <1>1 DEF Chosen, Steps, Before, Flows, Tested, Raised, outside
<1>4. Carried'
  BY <1>1, <1>2 DEF Carried, Ready, Covered, outside
<1>5. Marked'
  BY DEF Marked, Flows, Tested, Raised
<1>6. Bumped'
  BY <1>1, <1>2 DEF Bumped, Ready, Flows, Tested, Raised, outside
<1> QED
  BY <1>3, <1>4, <1>5, <1>6, GoesOn DEF Local, Inv, Types

(* The agent merges both changes into the tree. *)
LEMMA AgentKeeps ==
    ASSUME Inv, RunConsolidationAgent
    PROVE  Inv'
<1>1. CASE Fails
  BY <1>1, FailsKeeps
<1>2. ASSUME step = "run_consolidation_agent", Goto("run_build_agent", s), Quietly,
             clone' = [clone EXCEPT !.green = FALSE,
                         !.tree = [clone.tree EXCEPT !.fixes = UNION {Fixes(Branch(i)) : i \in s.selected}]]
      PROVE  Inv'
  <2>1. PICK fixes : fixes = UNION {Fixes(Branch(i)) : i \in s.selected}
    OBVIOUS
  <2>2. PICK tree : tree = [clone.tree EXCEPT !.fixes = fixes]
    OBVIOUS
  <2>3. clone \in CloneType /\ clone.tree \in Commit /\ s \in StateType /\ s.selected \subseteq Ids
    BY DEF Inv, Types, CloneType
  <2>4. fixes \in SUBSET Nat
    BY <2>1, <2>3, Branches DEF Inv
  <2>5. tree \in Commit /\ tree.fixes = fixes /\ tree.bumps = clone.tree.bumps
    BY <2>2, <2>3, <2>4 DEF Commit
  <2>6. clone' = [clone EXCEPT !.green = FALSE, !.tree = tree]
    BY <1>2, <2>1, <2>2, <2>3 DEF CloneType
  <2>7. clone' \in CloneType /\ clone'.commits = clone.commits /\ clone'.tree = tree
    BY <2>3, <2>5, <2>6 DEF CloneType
  <2>8. step' = "run_build_agent" /\ s' = s /\ UNCHANGED <<outside, mrs>>
    BY <1>2 DEF Goto, Quietly
  <2>9. strategy = "merged" /\ Two(s.selected)
    BY <1>2 DEF Inv, Local, Chosen, Flows
  <2>10. /\ Len(clone.commits) <= 1
         /\ Rebuilds(s.selected) = {} => clone.commits = <<>> /\ clone.tree.bumps = 0
    BY <1>2, <2>9 DEF Inv, Local, Bumped, Flows, Raised
  <2>11. \A i \in s.selected : Fixes(Branch(i)) \subseteq Fixes(clone'.commits) \cup clone'.tree.fixes
    BY <2>1, <2>5, <2>7
  <2> QED
    BY <2>3, <2>5, <2>7, <2>8, <2>9, <2>10, <2>11, WorkKeeps DEF Tested, Raised
<1> QED
  BY <1>1, <1>2 DEF RunConsolidationAgent

(* The commits of both are put on the clone. *)
LEMMA PerCommitKeeps ==
    ASSUME Inv, PerCommitFlow
    PROVE  Inv'
<1>1. CASE Fails
  BY <1>1, FailsKeeps
<1>2. CASE End /\ Quietly
  BY <1>2, EndKeeps DEF Quietly, outside, Inv, Types
<1>3. ASSUME step = "per_commit_flow", Goto("run_build_agent", s), Quietly,
             NEW base \in s.selected, NEW other \in s.selected \ {base},
             clone' = [clone EXCEPT !.green = FALSE, !.commits = Branch(base) \o Adapted(Branch(other))]
      PROVE  Inv'
  <2>1. PICK commits : commits = Branch(base) \o Adapted(Branch(other))
    OBVIOUS
  <2>2. clone \in CloneType /\ s \in StateType /\ s.selected \subseteq Ids /\ strategy = "per_commit" /\ Two(s.selected)
    BY <1>3 DEF Inv, Types, Local, Chosen, Flows
  <2>3. Branch(base) \in Seq(Commit) /\ Branch(other) \in Seq(Commit)
    BY <2>2, Branches DEF Inv
  <2>4. Branch(base) # <<>> /\ Once(Branch(base))
    BY <2>2 DEF Inv, Sound
  <2>5. PICK adapted : adapted = Adapted(Branch(other))
    OBVIOUS
  <2>6. /\ adapted \in Seq(Commit) /\ Once(adapted)
        /\ Fixes(adapted) = Fixes(Branch(other)) /\ Tickets(adapted) = Tickets(Branch(other))
    BY <2>3, <2>5, AdaptedKeeps
  <2>7. /\ commits \in Seq(Commit) /\ commits # <<>> /\ Once(commits)
        /\ Fixes(Branch(base)) \cup Fixes(adapted) \subseteq Fixes(commits)
        /\ Tickets(Branch(base)) \cup Tickets(adapted) \subseteq Tickets(commits)
    BY <2>1, <2>3, <2>4, <2>5, <2>6, Joined
  <2>8. clone' \in CloneType /\ clone'.commits = commits
    BY <1>3, <2>1, <2>2, <2>7 DEF CloneType
  <2>9. s.selected = {base, other}
    BY <2>2 DEF Two
  <2>10. \A i \in s.selected : Covered(i, commits)
    BY <2>6, <2>7, <2>9 DEF Covered
  <2>11. step' = "run_build_agent" /\ s' = s /\ UNCHANGED <<outside, mrs>>
    BY <1>3 DEF Goto, Quietly
  <2>12. \A i \in s.selected : Fixes(Branch(i)) \subseteq Fixes(clone'.commits) \cup clone'.tree.fixes
    BY <2>8, <2>10 DEF Covered
  <2> QED
    BY <2>2, <2>7, <2>8, <2>10, <2>11, <2>12, WorkKeeps DEF Tested, Raised
<1> QED
  BY <1>1, <1>2, <1>3 DEF PerCommitFlow

(* The commits of the backport are put on the clone, for the tickets of the   *)
(* rebuild too.                                                               *)
LEMMA AppendKeeps ==
    ASSUME Inv, RebuildAppendFlow
    PROVE  Inv'
<1>1. CASE Fails
  BY <1>1, FailsKeeps
<1>2. CASE End /\ Quietly
  BY <1>2, EndKeeps DEF Quietly, outside, Inv, Types
<1> DEFINE tickets == UNION {Tickets(Branch(i)) : i \in Rebuilds(s.selected)}
<1>3. ASSUME step = "rebuild_append_flow", Goto("run_build_agent", s), Quietly, NEW i \in Backports(s.selected),
             clone' = [clone EXCEPT !.green = FALSE, !.commits = Amended(Branch(i), tickets)]
      PROVE  Inv'
  <2>1. PICK more : more = tickets
    OBVIOUS
  <2>2. /\ clone \in CloneType /\ s \in StateType /\ s.selected \subseteq Ids /\ Two(s.selected)
        /\ Rebuilds(s.selected) # {} /\ \A x, y \in Backports(s.selected) : x = y
    BY <1>3 DEF Inv, Types, Local, Chosen, Flows
  <2>3. more \in SUBSET Nat
    BY <2>1, <2>2, Branches DEF Inv, Rebuilds
  <2>4. i \in Ids /\ Branch(i) \in Seq(Commit) /\ Branch(i) # <<>>
    BY <2>2, Branches DEF Inv, Sound, Backports
  <2>5. PICK commits : commits = Amended(Branch(i), more)
    OBVIOUS
  <2>6. /\ commits \in Seq(Commit) /\ Len(commits) = Len(Branch(i)) /\ commits # <<>>
        /\ Fixes(commits) = Fixes(Branch(i)) /\ Tickets(Branch(i)) \cup more \subseteq Tickets(commits)
        /\ Once(Branch(i)) => Once(commits)
    BY <2>3, <2>4, <2>5, AmendedKeeps
  <2>7. clone' \in CloneType /\ clone'.commits = commits
    BY <1>3, <2>1, <2>2, <2>5, <2>6 DEF CloneType
  <2>8. \A j \in s.selected : Kind(j) \in {"backport", "rebuild"}
    <3>1. \A j \in s.selected : mrs[j] \in MRType
      BY <2>2 DEF Inv, Types, Ids
    <3> QED
      BY <3>1 DEF Kind, MRType
  <2>9. \A j \in s.selected : j # i => j \in Rebuilds(s.selected)
    BY <2>2, <2>8 DEF Backports, Rebuilds
  <2>10. \A j \in Rebuilds(s.selected) : Fixes(Branch(j)) = {} /\ Tickets(Branch(j)) \subseteq more
    BY <2>1, <2>2 DEF Inv, Sound, Rebuilds
  <2>11. \A j \in s.selected : Covered(j, commits)
    BY <2>6, <2>9, <2>10 DEF Covered
  <2>12. /\ strategy = "per_commit" => Once(commits)
         /\ strategy = "merged" => Len(commits) = 1
    BY <2>4, <2>6 DEF Inv, Sound
  <2>13. step' = "run_build_agent" /\ s' = s /\ UNCHANGED <<outside, mrs>>
    BY <1>3 DEF Goto, Quietly
  <2>14. \A j \in s.selected : Fixes(Branch(j)) \subseteq Fixes(clone'.commits) \cup clone'.tree.fixes
    BY <2>7, <2>11 DEF Covered
  <2> QED
    BY <2>2, <2>6, <2>7, <2>11, <2>12, <2>13, <2>14, WorkKeeps DEF Tested, Raised
<1> QED
  BY <1>1, <1>2, <1>3 DEF RebuildAppendFlow

(* The build passes, or is tried again. *)
LEMMA BuildKeeps ==
    ASSUME Inv, RunBuildAgent
    PROVE  Inv'
<1>1. CASE Fails
  BY <1>1, FailsKeeps
<1>2. /\ clone \in CloneType /\ s \in StateType /\ s.selected \subseteq Ids /\ Two(s.selected)
      /\ step = "run_build_agent" /\ strategy \in {"per_commit", "merged"}
  BY DEF Inv, Types, Local, Chosen, RunBuildAgent
<1>3. /\ \A i \in s.selected : Fixes(Branch(i)) \subseteq Fixes(clone.commits) \cup clone.tree.fixes
      /\ strategy = "per_commit" =>
           clone.commits # <<>> /\ (\A i \in s.selected : Covered(i, clone.commits)) /\ Once(clone.commits)
      /\ strategy = "merged" => Len(clone.commits) <= 1
      /\ strategy = "merged" /\ Rebuilds(s.selected) = {} => clone.commits = <<>> /\ clone.tree.bumps = 0
  BY <1>2 DEF Inv, Local, Carried, Bumped, Ready, Raised
<1>4. ASSUME clone' = [clone EXCEPT !.green = TRUE], Quietly,
             Goto(IF strategy = "per_commit" THEN "push_and_open_mr" ELSE "update_release", s)
      PROVE  Inv'
  <2>1. clone' \in CloneType /\ clone'.commits = clone.commits /\ clone'.tree = clone.tree /\ clone'.green
    BY <1>2, <1>4 DEF CloneType
  <2>2. s' = s /\ UNCHANGED <<outside, mrs>>
    BY <1>4 DEF Goto, Quietly
  <2>3. CASE strategy = "per_commit"
    <3>1. step' = "push_and_open_mr"
      BY <1>4, <2>3 DEF Goto
    <3> QED
      BY <1>2, <1>3, <2>1, <2>2, <2>3, <3>1, WorkKeeps DEF Tested, Raised
  <2>4. CASE strategy = "merged"
    <3>1. step' = "update_release"
      BY <1>4, <2>4 DEF Goto
    <3> QED
      BY <1>2, <1>3, <2>1, <2>2, <2>4, <3>1, WorkKeeps DEF Tested, Raised
  <2> QED
    BY <1>2, <2>3, <2>4
<1>5. ASSUME Goto(RetryStep, [s EXCEPT !.attempts = @ - 1]), UNCHANGED <<outside, mrs, clone>>
      PROVE  Inv'
  <2>1. s' = [s EXCEPT !.attempts = s.attempts - 1] /\ s.attempts - 1 \in Int
    BY <1>2, <1>5 DEF Goto, StateType
  <2>2. s' \in StateType /\ s'.selected = s.selected /\ s'.listed = s.listed /\ s'.tomark = s.tomark
    BY <1>2, <2>1 DEF StateType
  <2>3. /\ step' \in Flows
        /\ step' = "rebuild_append_flow" => Rebuilds(s.selected) # {}
        /\ step' = "per_commit_flow" => strategy = "per_commit"
        /\ step' = "run_consolidation_agent" => strategy = "merged"
    BY <1>2, <1>5 DEF Goto, RetryStep, Strategy, Flows
  <2>4. Rebuilds(s.selected) # {} => \A i, j \in Backports(s.selected) : i = j
    BY <1>2 DEF Two, Rebuilds, Backports
  <2> QED
    BY <1>2, <1>3, <1>5, <2>2, <2>3, <2>4, WorkKeeps DEF Flows, Tested, Raised
<1> QED
  BY <1>1, <1>4, <1>5 DEF RunBuildAgent

(* The release is raised and what was built is staged, with a log message.    *)
LEMMA StagingKeeps ==
    ASSUME Inv, UpdateRelease \/ StageChanges \/ RunLogAgent
    PROVE  Inv'
<1>1. CASE Fails
  BY <1>1, FailsKeeps
<1>2. /\ clone \in CloneType /\ clone.tree \in Commit /\ s \in StateType /\ s.selected \subseteq Ids
      /\ Two(s.selected) /\ strategy = "merged" /\ step \in {"update_release"} \cup Raised
  BY DEF Inv, Types, Local, Chosen, CloneType, UpdateRelease, StageChanges, RunLogAgent, Raised, Tested
<1>3. /\ \A i \in s.selected : Fixes(Branch(i)) \subseteq Fixes(clone.commits) \cup clone.tree.fixes
      /\ clone.green /\ Len(clone.commits) <= 1
      /\ Rebuilds(s.selected) = {} =>
           clone.commits = <<>> /\ clone.tree.bumps = IF step \in Raised THEN 1 ELSE 0
  BY <1>2 DEF Inv, Local, Carried, Bumped, Tested
<1>4. ASSUME step = "update_release", Goto("stage_changes", s), clone' = [clone EXCEPT !.tree.bumps = @ + 1], Quietly
      PROVE  Inv'
  <2>1. PICK tree : tree = [clone.tree EXCEPT !.bumps = clone.tree.bumps + 1]
    OBVIOUS
  <2>2. clone.tree.bumps + 1 \in Nat
    BY <1>2 DEF Commit
  <2>3. tree \in Commit /\ tree.fixes = clone.tree.fixes /\ tree.bumps = clone.tree.bumps + 1
    BY <1>2, <2>1, <2>2 DEF Commit
  <2>4. clone' = [clone EXCEPT !.tree = tree]
    BY <1>2, <1>4, <2>1 DEF CloneType
  <2>5. clone' \in CloneType /\ clone'.commits = clone.commits /\ clone'.tree = tree /\ clone'.green
    BY <1>2, <1>3, <2>3, <2>4 DEF CloneType
  <2>6. step' = "stage_changes" /\ s' = s /\ UNCHANGED <<outside, mrs>>
    BY <1>4 DEF Goto, Quietly
  <2>7. Rebuilds(s.selected) = {} => clone'.commits = <<>> /\ clone'.tree.bumps = 1
    BY <1>3, <1>4, <2>3, <2>5 DEF Raised
  <2> QED
    BY <1>2, <1>3, <2>3, <2>5, <2>6, <2>7, WorkKeeps DEF Raised, Tested
<1>5. ASSUME step \in Raised, UNCHANGED clone, Quietly, step' \in Raised, s' \in {s, [s EXCEPT !.log = TRUE]}
      PROVE  Inv'
  <2>1. s' \in StateType /\ s'.selected = s.selected /\ s'.listed = s.listed /\ s'.tomark = s.tomark
    BY <1>2, <1>5 DEF StateType
  <2>2. UNCHANGED <<outside, mrs>>
    BY <1>5 DEF Quietly
  <2> QED
    BY <1>2, <1>3, <1>5, <2>1, <2>2, WorkKeeps DEF Raised, Tested
<1>6. CASE UpdateRelease
  BY <1>1, <1>4, <1>6 DEF UpdateRelease
<1>7. CASE StageChanges
  <2>1. step = "stage_changes" /\ (Fails \/ (step' \in Raised /\ s' = s /\ Quietly /\ UNCHANGED clone))
    BY <1>7 DEF StageChanges, Goto, Raised
  <2> QED
    BY <1>1, <1>5, <2>1 DEF Raised
<1>8. CASE RunLogAgent
  <2>1. step = "run_log_agent" /\ step' \in Raised /\ s' = [s EXCEPT !.log = TRUE] /\ Quietly /\ UNCHANGED clone
    BY <1>8 DEF RunLogAgent, Goto, Raised
  <2> QED
    BY <1>5, <2>1 DEF Raised
<1> QED
  BY <1>6, <1>7, <1>8

(* Everything becomes one commit. *)
LEMMA CommitKeeps ==
    ASSUME Inv, CommitAll
    PROVE  Inv'
<1>1. CASE Fails
  BY <1>1, FailsKeeps
<1>2. /\ clone \in CloneType /\ clone.tree \in Commit /\ clone.commits \in Seq(Commit) /\ s \in StateType
      /\ s.selected \subseteq Ids /\ Two(s.selected) /\ strategy = "merged" /\ step = "commit_push_and_open_mr"
  BY DEF Inv, Types, Local, Chosen, CloneType, CommitAll, Raised, Tested
<1>3. /\ \A i \in s.selected : Fixes(Branch(i)) \subseteq Fixes(clone.commits) \cup clone.tree.fixes
      /\ clone.green /\ Len(clone.commits) <= 1
      /\ Rebuilds(s.selected) = {} => clone.commits = <<>> /\ clone.tree.bumps = 1
  BY <1>2 DEF Inv, Local, Carried, Bumped, Tested, Raised
<1>4. Bumps(clone.commits) \in Nat
  <2>1. CASE clone.commits = <<>>
    BY <2>1, NoBumps
  <2>2. CASE clone.commits # <<>>
    <3>1. PICK c : c = clone.commits
      OBVIOUS
    <3>2. c \in Seq(Commit) /\ Len(c) \in Nat /\ c # <<>> /\ Len(c) <= 1
      BY <1>2, <1>3, <2>2, <3>1
    <3>3. Len(c) = 1 /\ c[1] \in Commit
      <4>1. Len(c) # 0
        BY <3>2
      <4>2. PICK n : n = Len(c)
        OBVIOUS
      <4>3. n = 1
        <5>1. n \in Nat /\ n # 0 /\ n <= 1
          BY <3>2, <4>1, <4>2
        <5> QED
          BY <5>1
      <4>4. 1 \in 1..Len(c)
        BY <4>2, <4>3
      <4> QED
        BY <3>2, <4>2, <4>3, <4>4
    <3>4. c[1].bumps \in Nat
      BY <3>3 DEF Commit
    <3> QED
      BY <3>1, <3>3, <3>4, OneBump
  <2> QED
    BY <2>1, <2>2
<1> DEFINE tickets == UNION {Tickets(Branch(i)) : i \in s.selected}
           squashed == [fixes |-> Fixes(clone.commits) \cup clone.tree.fixes, tickets |-> tickets,
                        bumps |-> Bumps(clone.commits) + clone.tree.bumps]
<1>5. ASSUME clone' = [clone EXCEPT !.commits = <<squashed>>, !.tree = NoChange], Goto("push_and_open_mr", s), Quietly
      PROVE  Inv'
  <2>1. PICK c : c = squashed
    OBVIOUS
  <2>2. Fixes(clone.commits) \subseteq Nat
    <3>1. \A k \in DOMAIN clone.commits : clone.commits[k] \in Commit
      BY <1>2
    <3> QED
      BY <3>1 DEF Fixes, Commit
  <2>3. tickets \subseteq Nat
    BY <1>2, Branches DEF Inv
  <2>4. Bumps(clone.commits) + clone.tree.bumps \in Nat
    BY <1>2, <1>4 DEF Commit
  <2>5. /\ c \in Commit /\ c.fixes = Fixes(clone.commits) \cup clone.tree.fixes /\ c.tickets = tickets
        /\ c.bumps = Bumps(clone.commits) + clone.tree.bumps
    BY <1>2, <2>1, <2>2, <2>3, <2>4 DEF Commit
  <2>6. PICK commits : commits = <<c>>
    OBVIOUS
  <2>7. commits \in Seq(Commit) /\ commits # <<>> /\ Len(commits) = 1 /\ DOMAIN commits = {1} /\ commits[1] = c
    BY <2>5, <2>6
  <2>8. Fixes(commits) = c.fixes /\ Tickets(commits) = c.tickets /\ (c.bumps = 1 => Once(commits))
    BY <2>7 DEF Fixes, Tickets, Once
  <2>9. NoChange \in Commit
    BY DEF NoChange, Commit
  <2>10. clone' = [clone EXCEPT !.commits = commits, !.tree = NoChange]
    BY <1>5, <2>1, <2>6
  <2>11. clone' \in CloneType /\ clone'.commits = commits /\ clone'.green
    BY <1>2, <1>3, <2>7, <2>9, <2>10 DEF CloneType
  <2>12. \A i \in s.selected : Covered(i, commits)
    BY <1>3, <2>5, <2>8 DEF Covered
  <2>13. Rebuilds(s.selected) = {} => Once(commits)
    BY <1>3, <2>5, <2>8, NoBumps
  <2>14. step' = "push_and_open_mr" /\ s' = s /\ UNCHANGED <<outside, mrs>>
    BY <1>5 DEF Goto, Quietly
  <2>15. \A i \in s.selected : Fixes(Branch(i)) \subseteq Fixes(clone'.commits) \cup clone'.tree.fixes
    BY <2>11, <2>12 DEF Covered
  <2>16. clone'.commits # <<>> /\ Len(clone'.commits) = 1 /\ \A i \in s.selected : Covered(i, clone'.commits)
    BY <2>7, <2>11, <2>12
  <2>17. Rebuilds(s.selected) = {} => Once(clone'.commits)
    BY <2>11, <2>13
  <2> HIDE DEF tickets, squashed
  <2> QED
    BY <1>2, <2>11, <2>14, <2>15, <2>16, <2>17, WorkKeeps DEF Tested, Raised
<1> QED
  BY <1>1, <1>5 DEF CommitAll

(* The merge request is opened, or may have been when the call fails. *)
LEMMA OpeningKeeps ==
    ASSUME Inv, PushAndOpenMR
    PROVE  Inv'
<1>1. /\ clone \in CloneType /\ s \in StateType /\ s.selected \subseteq Ids /\ Ids \subseteq Nat /\ Two(s.selected)
      /\ strategy \in {"per_commit", "merged"} /\ step = "push_and_open_mr"
  BY DEF Inv, Types, Local, Chosen, PushAndOpenMR, Tested, Ids
<1>2. /\ clone.commits # <<>> /\ clone.green /\ \A i \in s.selected : Covered(i, clone.commits)
      /\ strategy = "per_commit" => Once(clone.commits)
      /\ strategy = "merged" => Len(clone.commits) = 1
      /\ strategy = "merged" /\ Rebuilds(s.selected) = {} => Once(clone.commits)
  BY <1>1 DEF Inv, Local, Carried, Bumped, Ready, Tested
<1>3. NewState \in StateType /\ NewState.selected = {} /\ NewState.listed = {} /\ NewState.tomark = {}
  BY ConsolidationAssumption DEF NewState, StateType
<1>4. NewClone \in CloneType
  BY DEF NewClone, CloneType, NoChange, Commit
<1>5. ASSUME mrs' = Opened, UNCHANGED outside
      PROVE  /\ mrs' \in Seq(MRType) /\ Ids \subseteq Ids' /\ Sound'
             /\ \E j \in Ids' : mrs'[j].from = s.selected /\ \A i \in s.selected : Covered(i, Branch(j))'
  <2>1. PICK m : m = [kind |-> "backport", base |-> s.base, commits |-> clone.commits, open |-> TRUE, label |-> FALSE,
                      from |-> s.selected, green |-> clone.green]
    OBVIOUS
  <2>2. /\ m \in MRType /\ m.commits = clone.commits /\ m.from = s.selected /\ m.green = clone.green /\ ~m.label
        /\ m.kind = "backport"
    BY <1>1, <2>1 DEF MRType, CloneType, StateType
  <2>3. mrs' = Append(mrs, m)
    BY <1>5, <2>1 DEF Opened
  <2>4. PICK n : n = Len(mrs) + 1
    OBVIOUS
  <2>5. /\ mrs' \in Seq(MRType) /\ Kept /\ Ids' \ Ids = {n} /\ mrs'[n] = m
        /\ \A i \in Ids : mrs'[i] = mrs[i]
    BY <2>2, <2>3, <2>4, Appended DEF Inv
  <2>6. Ids \subseteq Ids' /\ n \in Ids' /\ strategy' = strategy
    BY <1>5, <2>5 DEF Kept, outside
  <2>7. Branch(n)' = clone.commits /\ \A i \in Ids : Branch(i)' = Branch(i) /\ Kind(i)' = Kind(i)
    BY <2>2, <2>5 DEF Branch, Kind
  <2>8. \A i \in Ids : Fixes(Branch(i))' = Fixes(Branch(i)) /\ Tickets(Branch(i))' = Tickets(Branch(i))
    BY <2>7 DEF Fixes, Tickets
  <2>9. Fixes(Branch(n))' = Fixes(clone.commits) /\ Tickets(Branch(n))' = Tickets(clone.commits)
    BY <2>7 DEF Fixes, Tickets
  <2>10. \A i \in s.selected : Covered(i, Branch(n))'
    BY <1>1, <1>2, <2>8, <2>9 DEF Covered
  <2>11. ASSUME strategy = "merged", ~MergedRebuild(n)' PROVE Rebuilds(s.selected) = {}
    <3> SUFFICES ASSUME NEW r \in Rebuilds(s.selected) PROVE FALSE
      OBVIOUS
    <3>1. r \in s.selected /\ r \in Ids' /\ Kind(r)' = "rebuild"
      BY <1>1, <2>6, <2>7 DEF Rebuilds
    <3>2. Tickets(Branch(r))' \subseteq Tickets(Branch(n))'
      BY <2>10, <3>1 DEF Covered
    <3> QED
      BY <2>6, <2>11, <3>1, <3>2 DEF MergedRebuild
  <2>12. ASSUME ~MergedRebuild(n)' PROVE Once(clone.commits)
    BY <1>1, <1>2, <2>11, <2>12
  <2>13. Sound'
    BY <1>2, <2>2, <2>5, <2>6, <2>12, SoundGrows
  <2> QED
    BY <2>2, <2>5, <2>6, <2>10, <2>13
<1>6. CASE mrs' = Opened /\ Marking /\ UNCHANGED outside
  <2>1. PICK t : t = [NewState EXCEPT !.tomark = s.selected, !.count = s.count]
    OBVIOUS
  <2>2. s.selected \in SUBSET Nat /\ s.count \in Int
    BY <1>1 DEF StateType
  <2>3. t \in StateType /\ t.selected = {} /\ t.listed = {} /\ t.tomark = s.selected
    BY <1>3, <2>1, <2>2 DEF StateType
  <2>4. s' = t /\ clone' = NewClone /\ step' = "mark_original_mrs"
    BY <1>6, <2>1 DEF Marking, Goto
  <2>5. Types'
    BY <1>1, <1>4, <1>5, <1>6, <2>3, <2>4 DEF Inv, Types, outside
  <2>6. Marked'
    BY <1>5, <1>6, <2>3, <2>4 DEF Marked
  <2>7. Chosen' /\ Carried' /\ Bumped'
    BY <2>4 DEF Chosen, Carried, Bumped, Ready, Steps, Before, Flows, Tested, Raised
  <2> QED
    BY <1>5, <1>6, <2>5, <2>6, <2>7 DEF Inv, Local
<1>7. CASE mrs' = Opened /\ End /\ UNCHANGED outside
  <2>1. Types'
    BY <1>3, <1>4, <1>5, <1>7 DEF End, Goto, Inv, Types, outside
  <2>2. step' \in Resting
    BY <1>7 DEF End, Goto, Resting
  <2> QED
    BY <1>5, <1>7, <2>1, <2>2, Rests DEF Inv
<1>8. CASE mrs' = mrs /\ End /\ UNCHANGED outside
  BY <1>8, EndKeeps DEF outside, Inv, Types
<1> QED
  BY <1>6, <1>7, <1>8 DEF PushAndOpenMR

(* The originals are labelled one by one. *)
LEMMA MarkingKeeps ==
    ASSUME Inv, MarkOriginalMRs
    PROVE  Inv'
<1>1. s \in StateType /\ s.tomark \subseteq Ids /\ s.selected \subseteq Ids /\ s.listed \subseteq Ids
      /\ mrs \in Seq(MRType) /\ UNCHANGED <<outside, clone>> /\ step = "mark_original_mrs"
  BY DEF Inv, Types, MarkOriginalMRs
<1>2. CASE Goto("requeue_if_needed", s) /\ UNCHANGED mrs
  <2>1. Types'
    BY <1>1, <1>2 DEF Goto, Inv, Types, outside, Ids
  <2> QED
    BY <1>1, <1>2, <2>1, RestKeeps DEF Goto, Resting, outside
<1>3. ASSUME NEW i \in s.tomark, Goto(step, [s EXCEPT !.tomark = @ \ {i}]),
             mrs' = [mrs EXCEPT ![i].label = TRUE] \/ mrs' = mrs
      PROVE  Inv'
  <2>1. /\ s' \in StateType /\ s'.tomark = s.tomark \ {i} /\ s'.selected = s.selected /\ s'.listed = s.listed
        /\ step' = "mark_original_mrs"
    BY <1>1, <1>3 DEF Goto, StateType
  <2>2. PICK j \in Ids : s.tomark \subseteq mrs[j].from /\ \A k \in s.tomark : Covered(k, Branch(j))
    BY <1>1 DEF Inv, Local, Marked
  <2>3. /\ mrs' \in Seq(MRType) /\ Kept /\ Ids' = Ids
        /\ \A k \in Ids : mrs'[k].label => mrs[k].label \/ k = i
    <3>1. CASE mrs' = mrs
      BY <1>1, <3>1 DEF Kept, Ids
    <3>2. CASE mrs' = [mrs EXCEPT ![i].label = TRUE]
      <4>1. mrs[i] \in MRType /\ i \in Ids
        BY <1>1 DEF Ids
      <4>2. PICK m : m = [mrs[i] EXCEPT !.label = TRUE]
        OBVIOUS
      <4>3. m \in MRType /\ m.commits = mrs[i].commits /\ m.kind = mrs[i].kind /\ m.from = mrs[i].from
            /\ m.green = mrs[i].green
        BY <4>1, <4>2 DEF MRType
      <4>4. mrs' = [mrs EXCEPT ![i] = m]
        BY <3>2, <4>2
      <4> QED
        BY <4>1, <4>3, <4>4, Replaced DEF Inv
    <3> QED
      BY <1>3, <3>1, <3>2
  <2>4. Sound'
    BY <1>1, <2>2, <2>3, SoundGrows DEF outside
  <2>5. Types'
    BY <1>1, <2>1, <2>3 DEF Inv, Types, outside
  <2>6. \A k \in Ids : /\ Branch(k)' = Branch(k) /\ mrs'[k].from = mrs[k].from
                       /\ Fixes(Branch(k))' = Fixes(Branch(k)) /\ Tickets(Branch(k))' = Tickets(Branch(k))
    BY <2>3 DEF Kept, Branch, Fixes, Tickets
  <2>7. Marked'
    BY <1>1, <2>1, <2>2, <2>3, <2>6 DEF Marked, Covered
  <2>8. Chosen' /\ Carried' /\ Bumped'
    BY <2>1 DEF Chosen, Carried, Bumped, Ready, Steps, Before, Flows, Tested, Raised
  <2> QED
    BY <2>4, <2>5, <2>7, <2>8 DEF Inv, Local
<1> QED
  BY <1>2, <1>3 DEF MarkOriginalMRs

(* Another run may be asked for. *)
LEMMA RequeueKeeps ==
    ASSUME Inv, RequeueIfNeeded
    PROVE  Inv'
<1>1. CASE Fails
  BY <1>1, FailsKeeps
<1>2. CASE End /\ (Submit \/ UNCHANGED pending) /\ UNCHANGED <<strategy, head, recovery, job, mrs>>
  BY <1>2, EndKeeps, Submits DEF Inv, Types
<1> QED
  BY <1>1, <1>2 DEF RequeueIfNeeded

-----------------------------------------------------------------------------
(* The workflow starts with nothing open. *)
LEMMA InitInv == Init => Inv
<1> SUFFICES ASSUME Init PROVE Inv
  OBVIOUS
<1>1. NewState \in StateType /\ NewState.selected = {} /\ NewState.listed = {} /\ NewState.tomark = {}
  BY ConsolidationAssumption DEF NewState, StateType
<1>2. NewClone \in CloneType
  BY DEF NewClone, CloneType, NoChange, Commit
<1>3. mrs = <<>> /\ Ids = {}
  BY DEF Init, Ids
<1>4. Types
  BY <1>1, <1>2, <1>3, ConsolidationAssumption DEF Init, Types, JobType
<1>5. Sound
  BY <1>3 DEF Sound, NothingDropped, ReleaseBumped
<1>6. Local
  BY DEF Init, Local, Chosen, Carried, Marked, Bumped, Ready, Steps, Before, Flows, Tested, Raised, Resting
<1> QED
  BY <1>4, <1>5, <1>6 DEF Inv

(* Every step keeps the invariant. *)
LEMMA NextInv == Inv /\ [Next]_vars => Inv'
<1> SUFFICES ASSUME Inv, [Next]_vars PROVE Inv'
  OBVIOUS
<1>1. CASE Work
  BY <1>1, JobKeeps, SelectionKeeps, AgentKeeps, PerCommitKeeps, AppendKeeps, BuildKeeps, StagingKeeps, CommitKeeps,
     OpeningKeeps, MarkingKeeps, RequeueKeeps DEF Work
<1>2. CASE People
  BY <1>2, PeopleKeep
<1>3. CASE Interrupt
  BY <1>3, JobKeeps
<1>4. CASE UNCHANGED vars
  <2>1. UNCHANGED <<outside, mrs, step, s, clone>>
    BY <1>4 DEF vars
  <2>2. UNCHANGED <<strategy, head, pending, recovery, job>>
    BY <2>1 DEF outside
  <2>3. Types'
    BY <2>1, <2>2 DEF Inv, Types, Ids
  <2>4. Sound'
    BY <2>1, <2>2, SoundStays DEF Inv
  <2>5. Local'
    BY <2>1, <2>2, <2>3, OthersKeep DEF Kept, Ids
  <2> QED
    BY <2>3, <2>4, <2>5 DEF Inv
<1> QED
  BY <1>1, <1>2, <1>3, <1>4 DEF Next

(* The invariant holds of every run. *)
THEOREM Invariant == Spec => []Inv
<1> QED
  BY InitInv, NextInv, PTL DEF Spec

(* No label drops a fix: whatever mark_original_mrs labels as consolidated,   *)
(* and no later run lists, has its fix and its tickets in a merge request     *)
(* that push_and_open_mr opened, however often runs fail and are repeated.    *)
THEOREM ConsolidationDropsNothing == Spec => []NothingDropped
<1>1. Inv => NothingDropped
  BY DEF Inv, Sound
<1> QED
  BY <1>1, Invariant, PTL

(* Whatever push_and_open_mr opens passed a build with the fixes it carries,  *)
(* and is one release after what it replaces unless a rebuild was folded in   *)
(* under the merged strategy.                                                 *)
THEOREM ConsolidationIsSound == Spec => []ConsolidatedSound
<1>1. Inv => ConsolidatedSound
  BY DEF Inv, Sound, ConsolidatedSound, BuildVerified
<1> QED
  BY <1>1, Invariant, PTL

-----------------------------------------------------------------------------
(* Rebase consolidation: what its variables may be. *)
Place == {"idle", "guard", "stamp", "analyse", "consolidate", "candidates", "sibling", "marker", "push",
          "comment", "label", "check", "siblings", "unwait", "primary", "dispatch", "retry"}
MemType   == [cur : SUBSET Label, sib : BOOLEAN, wait : BOOLEAN, res : {"none"} \cup Resolution,
              cand : SUBSET Issue, next : SUBSET Issue, count : Nat]
SweepType == [at : {"idle", "pushed", "marked"}, issue : SUBSET Issue, todo : SUBSET Issue]
On(a, i)  == pc[a] # "idle" /\ I(a) = i

CountTypes ==
    /\ setup \in SetupType /\ setup \in Setups /\ failures \in 0 .. setup.max
    /\ blocker \in [Issue -> {"open", "done", "closed"}]
    /\ rebaseq \in [Issue -> Nat] /\ rebasing \subseteq Issue
    /\ merged \in [Issue -> SUBSET Issue] /\ reproq \subseteq Issue
JiraTypes ==
    /\ labels \in [Issue -> SUBSET Label]
    /\ queue \in Seq(Task)
    /\ sweeps \in [Postponement -> SweepType]
MarkerTypes == markers \in [Issue -> Seq(Issue)] /\ \A i \in Issue : IsInjective(markers[i])
SlotTypes ==
    /\ pc \in [Slot -> Place]
    /\ task \in [Slot -> Task \cup {NoTask}]
    /\ \A a \in Slot : pc[a] = "idle" <=> task[a] = NoTask
    /\ mem \in [Slot -> MemType]
    /\ holder \in [Issue -> SUBSET Slot]
    /\ \A i \in Issue : holder[i] = {a \in Slot : On(a, i)}
    /\ \A a, b \in Slot : pc[a] # "idle" /\ pc[b] # "idle" /\ I(a) = I(b) => a = b
Found == \A a \in Slot : pc[a] \in {"siblings", "unwait", "primary"} => markers[I(a)] # <<>>

GroupTypes == CountTypes /\ JiraTypes /\ MarkerTypes /\ SlotTypes /\ Found

LEMMA GroupFacts == MaxRetries \in Nat \ {0} /\ NoTask \notin Task /\ Setups \subseteq SetupType /\ IsFiniteSet(Issue)
  BY SiblingGroupsAssumption

LEMMA SlotIssue ==
    ASSUME GroupTypes, NEW a \in Slot, pc[a] # "idle"
    PROVE  task[a] \in Task /\ I(a) \in Issue /\ mem[a] \in MemType
<1>1. task[a] \in Task
  BY DEF GroupTypes, SlotTypes
<1> QED
  BY <1>1 DEF GroupTypes, SlotTypes, I, Task

LEMMA FreshTask == \A i \in Issue : Fresh(i) \in Task
  BY GroupFacts DEF Fresh, Task

(* A step of a slot that goes on with its task. *)
LEMMA SlotMoves ==
    ASSUME GroupTypes, NEW a \in Slot, pc[a] # "idle", NEW n \in Place \ {"idle"}, SlotGoes(a, n),
           UNCHANGED <<holder, task>>, mem' \in [Slot -> MemType]
    PROVE  SlotTypes'
<1>1. /\ pc' \in [Slot -> Place]
      /\ \A b \in Slot : (pc'[b] = "idle" <=> pc[b] = "idle") /\ I(b)' = I(b)
  BY DEF GroupTypes, SlotTypes, SlotGoes, I
<1> QED
  BY <1>1 DEF GroupTypes, SlotTypes, On

LEMMA SlotEnds ==
    ASSUME GroupTypes, NEW a \in Slot, pc[a] # "idle", Done(a)
    PROVE  SlotTypes' /\ pc'[a] = "idle" /\ \A b \in Slot \ {a} : pc'[b] = pc[b] /\ task'[b] = task[b] /\ mem'[b] = mem[b]
<1>1. /\ pc' \in [Slot -> Place] /\ pc'[a] = "idle"
      /\ \A b \in Slot \ {a} : pc'[b] = pc[b]
  BY DEF GroupTypes, SlotTypes, Done, SlotGoes, Place
<1>2. /\ task' \in [Slot -> Task \cup {NoTask}] /\ task'[a] = NoTask
      /\ \A b \in Slot \ {a} : task'[b] = task[b]
  BY DEF GroupTypes, SlotTypes, Done
<1>3. mem' \in [Slot -> MemType] /\ \A b \in Slot \ {a} : mem'[b] = mem[b]
  <2>1. Forgotten \in MemType
    BY DEF Forgotten, MemType
  <2> QED
    BY <2>1 DEF GroupTypes, SlotTypes, Done
<1>4. I(a) \in Issue /\ holder \in [Issue -> SUBSET Slot] /\ holder' = [holder EXCEPT ![I(a)] = @ \ {a}]
  BY SlotIssue DEF GroupTypes, SlotTypes, Done
<1>5. holder' \in [Issue -> SUBSET Slot] /\ \A i \in Issue : holder'[i] = IF i = I(a) THEN holder[i] \ {a} ELSE holder[i]
  BY <1>4
<1>6. \A b \in Slot : b # a => I(b)' = I(b)
  BY <1>2 DEF I
<1>7. \A i \in Issue : holder'[i] = {b \in Slot : On(b, i)}'
  BY <1>1, <1>4, <1>5, <1>6 DEF GroupTypes, SlotTypes, On
<1>8. \A b, c \in Slot : pc'[b] # "idle" /\ pc'[c] # "idle" /\ I(b)' = I(c)' => b = c
  BY <1>1, <1>6 DEF GroupTypes, SlotTypes
<1>9. \A b \in Slot : pc'[b] = "idle" <=> task'[b] = NoTask
  BY <1>1, <1>2 DEF GroupTypes, SlotTypes
<1> QED
  BY <1>1, <1>2, <1>3, <1>5, <1>7, <1>8, <1>9 DEF SlotTypes

LEMMA Edited ==
    ASSUME labels \in [Issue -> SUBSET Label], NEW i, NEW add \in SUBSET Label, NEW remove, Edit(i, add, remove)
    PROVE  labels' \in [Issue -> SUBSET Label]
  BY DEF Edit

LEMMA PushedTask ==
    ASSUME queue \in Seq(Task), NEW t \in Task, LPush(t)
    PROVE  queue' \in Seq(Task)
<1>1. <<t>> \in Seq(Task)
  OBVIOUS
<1> QED
  BY <1>1, ConcatProperties DEF LPush

LEMMA ListOfTasks ==
    ASSUME NEW S \in SUBSET Task, IsFiniteSet(S)
    PROVE  SetToSeq(S) \in Seq(Task) /\ Range(SetToSeq(S)) \subseteq S
<1>1. Cardinality(S) \in Nat
  BY FS_CardinalityType
<1>2. PICK f : f \in Bijection(1 .. Cardinality(S), S)
  BY FS_CardinalityType DEF ExistsBijection
<1>3. f \in [1 .. Cardinality(S) -> S] /\ IsInjective(f)
  BY <1>2 DEF Bijection, Injection, IsInjective
<1>4. SetToSeq(S) \in [1 .. Cardinality(S) -> S]
  BY <1>3 DEF SetToSeq
<1> QED
  BY <1>1, <1>4 DEF Range

-----------------------------------------------------------------------------
LEMMA TypesInit == GroupsInit => GroupTypes
<1> SUFFICES ASSUME GroupsInit
             PROVE  GroupTypes
  OBVIOUS
<1>1. Forgotten \in MemType /\ Between \in SweepType
  BY DEF Forgotten, Between, MemType, SweepType
<1>2. CountTypes
  BY GroupFacts DEF GroupsInit, SweepsInit, CountTypes, SetupType
<1>3. JiraTypes
  BY <1>1 DEF GroupsInit, SweepsInit, JiraTypes
<1>4. MarkerTypes
  BY DEF GroupsInit, MarkerTypes, IsInjective
<1>5. SlotTypes /\ Found
  BY <1>1 DEF GroupsInit, SlotTypes, Found, Place, On
<1> QED
  BY <1>2, <1>3, <1>4, <1>5 DEF GroupTypes

(* Whoever keeps its place finds what it found. *)
LEMMA FoundStays ==
    ASSUME GroupTypes, NEW a \in Slot, pc[a] # "idle", NEW n \in Place \ {"siblings", "unwait", "primary"},
           pc' = [pc EXCEPT ![a] = n], \A b \in Slot \ {a} : task'[b] = task[b],
           \A i \in Issue : markers[i] # <<>> => markers'[i] # <<>>
    PROVE  Found'
<1>1. \A b \in Slot : pc'[b] = IF b = a THEN n ELSE pc[b]
  BY DEF GroupTypes, SlotTypes
<1> SUFFICES ASSUME NEW b \in Slot, pc'[b] \in {"siblings", "unwait", "primary"}
             PROVE  markers'[I(b)'] # <<>>
  BY DEF Found
<1>2. b # a /\ pc[b] \in {"siblings", "unwait", "primary"} /\ I(b)' = I(b)
  BY <1>1 DEF I
<1>3. markers[I(b)] # <<>> /\ I(b) \in Issue
  BY <1>2, SlotIssue DEF GroupTypes, Found
<1> QED
  BY <1>2, <1>3

LEMMA ScalarsStay ==
    ASSUME GroupTypes, UNCHANGED <<setup, blocker, rebaseq, rebasing, merged, reproq>>,
           UNCHANGED failures \/ \E kind : Failure(kind)
    PROVE  CountTypes'
<1>1. failures' \in 0 .. setup.max
  BY DEF GroupTypes, CountTypes, SetupType, Failure
<1> QED
  BY <1>1 DEF GroupTypes, CountTypes

(* A failed step costs a failure or nothing. *)
LEMMA EditsKeep ==
    ASSUME GroupTypes, NEW i, NEW add \in SUBSET Label, NEW remove,
           Edit(i, add, remove) \/ BestEffort(i, add, remove) \/ UNCHANGED labels, UNCHANGED <<queue, sweeps>>
    PROVE  JiraTypes'
<1>1. labels' \in [Issue -> SUBSET Label]
  BY Edited DEF GroupTypes, JiraTypes, BestEffort
<1> QED
  BY <1>1 DEF GroupTypes, JiraTypes

LEMMA TypesTake ==
    ASSUME GroupTypes, NEW a \in Slot, Take(a)
    PROVE  GroupTypes'
<1> DEFINE t == Last(queue)
<1>1. t \in Task /\ t.issue \in Issue /\ Front(queue) \in Seq(Task)
  <2>1. queue \in Seq(Task) /\ queue # <<>> /\ Len(queue) \in Nat \ {0}
    BY DEF GroupTypes, JiraTypes, Take
  <2>2. queue[Len(queue)] \in Task /\ \A k \in 1 .. (Len(queue) - 1) : queue[k] \in Task
    BY <2>1
  <2>3. t \in Task
    BY <2>2 DEF Last
  <2>4. SubSeq(queue, 1, Len(queue) - 1) \in Seq(Task)
    BY <2>1, SubSeqProperties
  <2> QED
    BY <2>3, <2>4 DEF Task, Front
<1>2. CountTypes' /\ MarkerTypes'
  BY ScalarsStay DEF Take, rebase, GroupTypes, MarkerTypes
<1>3. JiraTypes'
  BY <1>1 DEF Take, GroupTypes, JiraTypes
<1>4. CASE UNCHANGED <<holder, task, pc>>
  <2>1. SlotTypes' /\ Found'
    BY <1>4 DEF Take, GroupTypes, SlotTypes, Found, On, I
  <2> QED
    BY <1>2, <1>3, <2>1 DEF GroupTypes
<1>5. CASE holder[t.issue] = {} /\ holder' = [holder EXCEPT ![t.issue] = {a}]
           /\ task' = [task EXCEPT ![a] = t] /\ SlotGoes(a, "guard")
  <2>1. /\ pc' \in [Slot -> Place] /\ pc'[a] = "guard" /\ pc[a] = "idle"
        /\ \A b \in Slot \ {a} : pc'[b] = pc[b]
    BY <1>5 DEF Take, GroupTypes, SlotTypes, SlotGoes, Place
  <2>2. /\ task' \in [Slot -> Task \cup {NoTask}] /\ task'[a] = t /\ t # NoTask
        /\ \A b \in Slot \ {a} : task'[b] = task[b]
    BY <1>1, <1>5, GroupFacts DEF GroupTypes, SlotTypes
  <2>3. I(a)' = t.issue /\ \A b \in Slot \ {a} : I(b)' = I(b)
    BY <2>2 DEF I
  <2>4. \A b \in Slot : pc[b] # "idle" => I(b) # t.issue
    BY <1>1, <1>5 DEF GroupTypes, SlotTypes, On
  <2>5. /\ holder' \in [Issue -> SUBSET Slot]
        /\ \A i \in Issue : holder'[i] = IF i = t.issue THEN {a} ELSE holder[i]
    BY <1>1, <1>5 DEF GroupTypes, SlotTypes
  <2>6. \A i \in Issue : holder'[i] = {b \in Slot : On(b, i)}'
    BY <2>1, <2>3, <2>4, <2>5 DEF GroupTypes, SlotTypes, On
  <2>7. \A b, c \in Slot : pc'[b] # "idle" /\ pc'[c] # "idle" /\ I(b)' = I(c)' => b = c
    BY <2>1, <2>3, <2>4 DEF GroupTypes, SlotTypes
  <2>8. \A b \in Slot : pc'[b] = "idle" <=> task'[b] = NoTask
    BY <2>1, <2>2 DEF GroupTypes, SlotTypes
  <2>9. mem' \in [Slot -> MemType]
    BY DEF Take, GroupTypes, SlotTypes
  <2>10. SlotTypes'
    BY <2>1, <2>2, <2>5, <2>6, <2>7, <2>8, <2>9 DEF SlotTypes
  <2>11. Found'
    BY <2>1, <2>3 DEF Take, GroupTypes, Found
  <2> QED
    BY <1>2, <1>3, <2>10, <2>11 DEF GroupTypes
<1> QED
  BY <1>4, <1>5 DEF Take

LEMMA MemKeeps ==
    ASSUME GroupTypes, NEW a \in Slot, NEW m \in MemType, mem' = [mem EXCEPT ![a] = m]
    PROVE  mem' \in [Slot -> MemType]
  BY DEF GroupTypes, SlotTypes

(* The steps that only move a slot on or end its task. *)
LEMMA TypesGuard ==
    ASSUME GroupTypes, NEW a \in Slot, Guard(a)
    PROVE  GroupTypes'
<1>1. CountTypes' /\ MarkerTypes' /\ JiraTypes'
  BY ScalarsStay DEF Guard, rebase, common, GroupTypes, MarkerTypes, JiraTypes
<1>2. CASE Done(a)
  <2>1. SlotTypes' /\ Found'
    BY <1>2, SlotEnds, FoundStays DEF Guard, Done, SlotGoes, Place
  <2> QED
    BY <1>1, <2>1 DEF GroupTypes
<1>3. CASE SlotGoes(a, "stamp") /\ mem' = [mem EXCEPT ![a].cur = labels[I(a)]] /\ UNCHANGED <<holder, task>>
  <2>1. labels[I(a)] \in SUBSET Label
    BY SlotIssue DEF Guard, GroupTypes, JiraTypes
  <2>2. mem' \in [Slot -> MemType]
    <3>1. mem[a] \in MemType
      BY SlotIssue DEF Guard
    <3>2. [mem[a] EXCEPT !.cur = labels[I(a)]] \in MemType
      BY <2>1, <3>1 DEF MemType
    <3>3. mem' = [mem EXCEPT ![a] = [mem[a] EXCEPT !.cur = labels[I(a)]]]
      BY <1>3
    <3> QED
      BY <3>2, <3>3, MemKeeps
  <2>3. SlotTypes' /\ Found'
    BY <1>3, <2>2, SlotMoves, FoundStays DEF Guard, SlotGoes, Place
  <2> QED
    BY <1>1, <2>3 DEF GroupTypes
<1> QED
  BY <1>2, <1>3 DEF Guard

LEMMA TypesMove ==
    ASSUME GroupTypes, NEW a \in Slot, pc[a] # "idle", NEW n \in Place \ {"idle", "siblings", "unwait", "primary"},
           SlotGoes(a, n), UNCHANGED <<holder, task>>, mem' \in [Slot -> MemType],
           CountTypes', JiraTypes', UNCHANGED markers
    PROVE  GroupTypes'
<1>1. SlotTypes'
  BY SlotMoves
<1>2. Found' /\ MarkerTypes'
  BY FoundStays DEF SlotGoes, GroupTypes, MarkerTypes
<1> QED
  BY <1>1, <1>2 DEF GroupTypes

LEMMA TypesDone ==
    ASSUME GroupTypes, NEW a \in Slot, pc[a] # "idle", Done(a),
           CountTypes', JiraTypes', UNCHANGED markers
    PROVE  GroupTypes'
<1>1. SlotTypes' /\ \A b \in Slot \ {a} : task'[b] = task[b]
  BY SlotEnds
<1>2. Found' /\ MarkerTypes'
  BY <1>1, FoundStays DEF Done, SlotGoes, GroupTypes, MarkerTypes, Place
<1> QED
  BY <1>1, <1>2 DEF GroupTypes

LEMMA TypesStamp ==
    ASSUME GroupTypes, NEW a \in Slot, Stamp(a)
    PROVE  GroupTypes'
<1>1. CountTypes' /\ JiraTypes'
  BY ScalarsStay, EditsKeep DEF Stamp, rebase, Label
<1> QED
  BY <1>1, TypesMove DEF Stamp, Place, GroupTypes, SlotTypes

LEMMA TypesAnalyse ==
    ASSUME GroupTypes, NEW a \in Slot, Analyse(a)
    PROVE  GroupTypes'
<1>1. I(a) \in Issue /\ mem[a] \in MemType
  BY SlotIssue DEF Analyse
<1>2. JiraTypes'
  BY DEF Analyse, GroupTypes, JiraTypes
<1>3. CASE Failure("error") /\ SlotGoes(a, "retry") /\ UNCHANGED <<mem, blocker>>
  <2>1. CountTypes'
    BY <1>3, ScalarsStay DEF Analyse, rebase
  <2> QED
    BY <1>2, <1>3, <2>1, TypesMove DEF Analyse, Place, GroupTypes, SlotTypes
<1>4. ASSUME NEW r \in setup.resolutions[I(a)],
             mem' = [mem EXCEPT ![a] = [mem[a] EXCEPT !.res = r,
                                   !.sib = markers[I(a)] # <<>>,
                                   !.wait = "waiting" \in labels[I(a)]]],
             blocker' = IF r = "postponed" THEN [blocker EXCEPT ![I(a)] = "open"] ELSE blocker,
             SlotGoes(a, IF r = "rebase" THEN "consolidate" ELSE "label"), UNCHANGED failures
      PROVE  GroupTypes'
  <2>1. r \in Resolution
    BY <1>1 DEF GroupTypes, CountTypes, SetupType
  <2>2. [mem[a] EXCEPT !.res = r, !.sib = markers[I(a)] # <<>>, !.wait = "waiting" \in labels[I(a)]] \in MemType
    <3>1. \A x, y \in BOOLEAN : [mem[a] EXCEPT !.res = r, !.sib = x, !.wait = y] \in MemType
      BY <1>1, <2>1 DEF MemType
    <3>2. (markers[I(a)] # <<>>) \in BOOLEAN /\ ("waiting" \in labels[I(a)]) \in BOOLEAN
      OBVIOUS
    <3> QED
      BY ONLY <3>1, <3>2, Zenon
  <2>3. mem' \in [Slot -> MemType]
    BY <1>4, <2>2 DEF GroupTypes, SlotTypes
  <2>4. blocker' \in [Issue -> {"open", "done", "closed"}]
    BY <1>1, <1>4 DEF GroupTypes, CountTypes
  <2>5. CountTypes'
    BY <1>4, <2>4 DEF Analyse, rebase, GroupTypes, CountTypes
  <2> QED
    BY <1>2, <1>4, <2>3, <2>5, TypesMove DEF Analyse, Place
<1> QED
  BY <1>3, <1>4 DEF Analyse

LEMMA TypesConsolidate ==
    ASSUME GroupTypes, NEW a \in Slot, Consolidate(a)
    PROVE  GroupTypes'
<1>1. I(a) \in Issue /\ mem[a] \in MemType
  BY SlotIssue DEF Consolidate
<1>2. CountTypes' /\ JiraTypes'
  BY ScalarsStay DEF Consolidate, common, rebase, GroupTypes, JiraTypes
<1>3. CASE mem' = [mem EXCEPT ![a] = [mem[a] EXCEPT !.sib = TRUE, !.wait = FALSE]] /\ SlotGoes(a, "comment")
  <2>1. [mem[a] EXCEPT !.sib = TRUE, !.wait = FALSE] \in MemType
    BY <1>1 DEF MemType
  <2> QED
    BY <1>2, <1>3, <2>1, MemKeeps, TypesMove DEF Consolidate, Place
<1>4. CASE mem' = [mem EXCEPT ![a].cand = Candidates(I(a))] /\ SlotGoes(a, "candidates")
  <2>1. Candidates(I(a)) \in SUBSET Issue
    BY DEF Candidates
  <2>2. mem' \in [Slot -> MemType]
    <3>1. [mem[a] EXCEPT !.cand = Candidates(I(a))] \in MemType
      BY <1>1, <2>1 DEF MemType
    <3>2. mem' = [mem EXCEPT ![a] = [mem[a] EXCEPT !.cand = Candidates(I(a))]]
      BY <1>4
    <3> QED
      BY <3>1, <3>2, MemKeeps
  <2> QED
    BY <1>2, <1>4, <2>2, TypesMove DEF Consolidate, Place
<1> QED
  BY <1>3, <1>4 DEF Consolidate

LEMMA TypesCheckCandidate ==
    ASSUME GroupTypes, NEW a \in Slot, CheckCandidate(a)
    PROVE  GroupTypes'
<1>1. mem[a] \in MemType
  BY SlotIssue DEF CheckCandidate
<1>2. CountTypes' /\ JiraTypes'
  BY ScalarsStay DEF CheckCandidate, common, rebase, GroupTypes, JiraTypes
<1>3. PICK c \in mem[a].cand :
          \/ mem' = [mem EXCEPT ![a].cand = @ \ {c}] /\ UNCHANGED pc
          \/ SlotGoes(a, "sibling") /\ mem' = [mem EXCEPT ![a] = [mem[a] EXCEPT !.cand = @ \ {c}, !.next = {c}]]
  BY DEF CheckCandidate
<1>4. CASE mem' = [mem EXCEPT ![a].cand = @ \ {c}] /\ UNCHANGED pc
  <2>1. mem' \in [Slot -> MemType]
    BY <1>1, <1>4 DEF GroupTypes, SlotTypes, MemType
  <2>2. SlotGoes(a, "candidates")
    BY <1>4 DEF CheckCandidate, SlotGoes, GroupTypes, SlotTypes
  <2> QED
    BY <1>2, <2>1, <2>2, TypesMove DEF CheckCandidate, Place
<1>5. CASE SlotGoes(a, "sibling") /\ mem' = [mem EXCEPT ![a] = [mem[a] EXCEPT !.cand = @ \ {c}, !.next = {c}]]
  <2>1. [mem[a] EXCEPT !.cand = @ \ {c}, !.next = {c}] \in MemType
    BY <1>1 DEF MemType
  <2> QED
    BY <1>2, <1>5, <2>1, MemKeeps, TypesMove DEF CheckCandidate, Place
<1> QED
  BY <1>3, <1>4, <1>5

LEMMA TypesLabelSibling ==
    ASSUME GroupTypes, NEW a \in Slot, NEW c \in Issue, LabelSibling(a, c)
    PROVE  GroupTypes'
<1>1. CountTypes' /\ JiraTypes'
  BY ScalarsStay, EditsKeep DEF LabelSibling, BestEffort, rebase, Label
<1> QED
  BY <1>1, TypesMove DEF LabelSibling, Place, GroupTypes, SlotTypes

LEMMA MarkersGrow ==
    ASSUME MarkerTypes, NEW c \in Issue, NEW p \in Issue,
           markers' = [markers EXCEPT ![c] = IF p \in Range(@) THEN @ ELSE Append(@, p)]
    PROVE  /\ MarkerTypes'
           /\ \A i \in Issue : i # c => markers'[i] = markers[i]
           /\ markers'[c] # <<>> /\ Range(markers'[c]) = Range(markers[c]) \cup {p}
           /\ markers[c] # <<>> => Head(markers'[c]) = Head(markers[c])
<1> DEFINE q == IF p \in Range(markers[c]) THEN markers[c] ELSE Append(markers[c], p)
<1>1. markers[c] \in Seq(Issue) /\ IsInjective(markers[c]) /\ markers' = [markers EXCEPT ![c] = q]
  BY DEF MarkerTypes
<1>2. Append(markers[c], p) \in Seq(Issue) /\ Len(Append(markers[c], p)) = Len(markers[c]) + 1
      /\ \A k \in 1 .. Len(markers[c]) : Append(markers[c], p)[k] = markers[c][k]
      /\ Append(markers[c], p)[Len(markers[c]) + 1] = p
  BY <1>1
<1>3. q \in Seq(Issue) /\ IsInjective(q)
  <2>1. CASE p \in Range(markers[c])
    BY <1>1, <2>1
  <2>2. CASE p \notin Range(markers[c])
    <3>1. \A k \in 1 .. Len(markers[c]) : markers[c][k] # p
      BY <1>1, <2>2 DEF Range
    <3> QED
      BY <1>1, <1>2, <2>2, <3>1 DEF IsInjective
  <2> QED
    BY <2>1, <2>2
<1>4. Range(q) = Range(markers[c]) \cup {p}
  <2>1. CASE p \in Range(markers[c])
    BY <2>1
  <2>2. CASE p \notin Range(markers[c])
    <3>1. DOMAIN markers[c] = 1 .. Len(markers[c]) /\ DOMAIN Append(markers[c], p) = 1 .. (Len(markers[c]) + 1)
      BY <1>1, <1>2
    <3>2. Len(markers[c]) \in Nat
      BY <1>1
    <3> QED
      BY <1>2, <2>2, <3>1, <3>2 DEF Range
  <2> QED
    BY <2>1, <2>2
<1>5. q # <<>>
  <2>1. p \in Range(q)
    BY <1>4
  <2> QED
    BY <2>1 DEF Range
<1>6. markers[c] # <<>> => Head(q) = Head(markers[c])
  BY <1>1, <1>2
<1>7. markers'[c] = q /\ \A i \in Issue : i # c => markers'[i] = markers[i]
  BY <1>1 DEF MarkerTypes
<1>8. MarkerTypes'
  <2>1. markers' \in [Issue -> Seq(Issue)]
    BY <1>1, <1>3 DEF MarkerTypes
  <2>2. \A i \in Issue : IsInjective(markers'[i])
    BY <1>3, <1>7 DEF MarkerTypes
  <2> QED
    BY <2>1, <2>2 DEF MarkerTypes
<1> QED
  BY <1>4, <1>5, <1>6, <1>7, <1>8

LEMMA TypesMarkSibling ==
    ASSUME GroupTypes, NEW a \in Slot, NEW c \in Issue, MarkSibling(a, c)
    PROVE  GroupTypes'
<1>1. I(a) \in Issue /\ mem[a] \in MemType
  BY SlotIssue DEF MarkSibling
<1>2. CASE /\ markers' = [markers EXCEPT ![c] = IF I(a) \in Range(@) THEN @ ELSE Append(@, I(a))]
           /\ SlotGoes(a, "push")
           /\ UNCHANGED <<labels, mem, failures>>
  <2>1. CountTypes' /\ JiraTypes'
    BY <1>2, ScalarsStay DEF MarkSibling, rebase, GroupTypes, JiraTypes
  <2>2. MarkerTypes' /\ \A i \in Issue : markers[i] # <<>> => markers'[i] # <<>>
    BY <1>1, <1>2, MarkersGrow DEF GroupTypes
  <2>3. SlotTypes' /\ Found'
    BY <1>2, <2>2, SlotMoves, FoundStays DEF MarkSibling, SlotGoes, Place, GroupTypes, SlotTypes
  <2> QED
    BY <2>1, <2>2, <2>3 DEF GroupTypes
<1>3. CASE /\ Failure("marker")
           /\ Edit(c, {}, {"sibling"})
           /\ mem' = [mem EXCEPT ![a].next = {}]
           /\ SlotGoes(a, "candidates")
           /\ UNCHANGED markers
  <2>1. CountTypes' /\ JiraTypes'
    BY <1>3, ScalarsStay, EditsKeep DEF MarkSibling, rebase
  <2>2. mem' \in [Slot -> MemType]
    BY <1>1, <1>3 DEF GroupTypes, SlotTypes, MemType
  <2> QED
    BY <1>3, <2>1, <2>2, TypesMove DEF MarkSibling, Place
<1> QED
  BY <1>2, <1>3 DEF MarkSibling

LEMMA TypesPushSibling ==
    ASSUME GroupTypes, NEW a \in Slot, NEW c \in Issue, PushSibling(a, c)
    PROVE  GroupTypes'
<1>1. mem[a] \in MemType
  BY SlotIssue DEF PushSibling
<1>2. [mem[a] EXCEPT !.next = {}, !.count = 1] \in MemType
  BY <1>1 DEF MemType
<1>3. CountTypes'
  BY ScalarsStay DEF PushSibling, rebase
<1>4. JiraTypes'
  BY FreshTask, PushedTask DEF PushSibling, GroupTypes, JiraTypes
<1> QED
  BY <1>2, <1>3, <1>4, MemKeeps, TypesMove DEF PushSibling, Place

LEMMA TypesLabelWaiting ==
    ASSUME GroupTypes, NEW a \in Slot, LabelWaiting(a)
    PROVE  GroupTypes'
<1>1. CountTypes' /\ JiraTypes'
  BY ScalarsStay, EditsKeep DEF LabelWaiting, BestEffort, rebase, Label
<1>2. mem' \in [Slot -> MemType]
  <2>1. mem[a] \in MemType /\ mem \in [Slot -> MemType]
    BY SlotIssue DEF LabelWaiting, GroupTypes, SlotTypes
  <2>2. [mem[a] EXCEPT !.wait = TRUE] \in MemType
    BY <2>1 DEF MemType
  <2>3. mem' = [mem EXCEPT ![a] = [mem[a] EXCEPT !.wait = TRUE]] \/ mem' = mem
    BY DEF LabelWaiting
  <2> QED
    BY <2>1, <2>2, <2>3
<1> QED
  BY <1>1, <1>2, TypesMove DEF LabelWaiting, Place

LEMMA TypesComment ==
    ASSUME GroupTypes, NEW a \in Slot, Comment(a)
    PROVE  GroupTypes'
<1>1. CountTypes' /\ JiraTypes'
  BY ScalarsStay DEF Comment, rebase, GroupTypes, JiraTypes
<1> QED
  BY <1>1, TypesMove DEF Comment, Place, GroupTypes, SlotTypes

(* What a slot knows where it is. *)
Collecting == {"candidates", "sibling", "marker", "push"}
Checking   == {"check", "siblings", "unwait", "primary"}
Fits(at, m) ==
    /\ at \in {"consolidate", "comment", "label", "dispatch"} \cup Collecting \cup Checking => m.res \in Resolution
    /\ at \in {"consolidate", "comment"} \cup Collecting => m.res = "rebase"
    /\ at \in Checking => m.sib
    /\ at \in Collecting => ~m.sib
    /\ at = "idle" => m = Forgotten
    /\ at \in {"sibling", "marker", "push"} => \E c \in Issue : m.next = {c}
    /\ at \notin {"sibling", "marker", "push"} => m.next = {}
Judged == \A a \in Slot : Fits(pc[a], mem[a])

LEMMA TypesLabelResult ==
    ASSUME GroupTypes, Judged, NEW a \in Slot, LabelResult(a)
    PROVE  GroupTypes'
<1>1. mem[a].res \in Resolution /\ I(a) \in Issue
  BY SlotIssue DEF LabelResult, Judged, Fits
<1>2. CountTypes'
  BY ScalarsStay DEF LabelResult, rebase
<1>3. CASE Failure("terminal") /\ Done(a) /\ UNCHANGED labels
  <2>1. JiraTypes'
    BY <1>3 DEF LabelResult, GroupTypes, JiraTypes
  <2> QED
    BY <1>2, <1>3, <2>1, TypesDone DEF LabelResult
<1>4. CASE ~(Failure("terminal") /\ Done(a) /\ UNCHANGED labels)
  <2> DEFINE result == IF mem[a].res = "rebase" THEN "triaged_rebase" ELSE mem[a].res
  <2>1. /\ SlotGoes(a, IF mem[a].sib THEN "check" ELSE "dispatch")
        /\ UNCHANGED <<failures, holder, task, mem, queue, sweeps, markers>>
    BY <1>4 DEF LabelResult
  <2>2. PICK add, remove :
          /\ Edit(I(a), add, remove)
          /\ \/ mem[a].res \in Postponement /\ add = {mem[a].res}
             \/ add = IF Waits(a) THEN {} ELSE {result}
    BY <1>4 DEF LabelResult
  <2>3. add \in SUBSET Label
    <3>1. mem[a].res \in Postponement => mem[a].res \in Label
      BY DEF Postponement, Label
    <3>2. result \in Label
      BY <1>1 DEF Resolution, Label
    <3> QED
      BY <2>2, <3>1, <3>2
  <2>4. JiraTypes'
    BY <2>1, <2>2, <2>3, EditsKeep
  <2> QED
    BY <1>2, <2>1, <2>4, TypesMove DEF LabelResult, Place, GroupTypes, SlotTypes
<1> QED
  BY <1>3, <1>4

LEMMA TypesCheckPrimary ==
    ASSUME GroupTypes, NEW a \in Slot, CheckPrimary(a) \/ CheckSiblings(a)
    PROVE  GroupTypes'
<1>1. I(a) \in Issue /\ pc[a] \in {"check", "siblings"}
  BY SlotIssue DEF CheckPrimary, CheckSiblings
<1>2. PICK n \in {"siblings", "unwait", "dispatch"} :
         SlotGoes(a, n) /\ (n # "dispatch" => markers[I(a)] # <<>>)
  BY <1>1 DEF CheckPrimary, CheckSiblings, GroupTypes, Found
<1>3. CountTypes' /\ JiraTypes' /\ MarkerTypes'
  BY ScalarsStay DEF CheckPrimary, CheckSiblings, common, rebase, GroupTypes, JiraTypes, MarkerTypes
<1>4. SlotTypes'
  BY <1>1, <1>2, SlotMoves DEF CheckPrimary, CheckSiblings, Place, GroupTypes, SlotTypes
<1>5. Found'
  <2>1. UNCHANGED <<markers, task>> /\ \A b \in Slot : pc'[b] = IF b = a THEN n ELSE pc[b]
    BY <1>2 DEF CheckPrimary, CheckSiblings, SlotGoes, GroupTypes, SlotTypes
  <2> QED
    BY <1>2, <2>1 DEF GroupTypes, Found, I
<1> QED
  BY <1>3, <1>4, <1>5 DEF GroupTypes

LEMMA PrimaryIssue ==
    ASSUME GroupTypes, NEW a \in Slot, pc[a] \in {"siblings", "unwait", "primary"}
    PROVE  I(a) \in Issue /\ markers[I(a)] # <<>> /\ Primary(I(a)) \in Issue /\ Primary(I(a)) \in Range(markers[I(a)])
<1>1. I(a) \in Issue /\ markers[I(a)] # <<>>
  BY SlotIssue DEF GroupTypes, Found
<1>2. markers[I(a)] \in Seq(Issue)
  BY <1>1 DEF GroupTypes, MarkerTypes
<1>3. 1 \in DOMAIN markers[I(a)] /\ Head(markers[I(a)]) = markers[I(a)][1]
  BY <1>1, <1>2
<1> QED
  BY <1>1, <1>2, <1>3 DEF Primary, Range

LEMMA TypesReleasePrimary ==
    ASSUME GroupTypes, NEW a \in Slot, ReleasePrimary(a)
    PROVE  GroupTypes'
<1>1. CountTypes' /\ JiraTypes' /\ MarkerTypes'
  BY ScalarsStay, EditsKeep DEF ReleasePrimary, rebase, GroupTypes, MarkerTypes
<1>2. PICK n \in {"primary", "dispatch"} : SlotGoes(a, n)
  BY DEF ReleasePrimary
<1>3. SlotTypes'
  BY <1>2, SlotMoves DEF ReleasePrimary, Place, GroupTypes, SlotTypes
<1>4. Found'
  <2>1. UNCHANGED <<markers, task>> /\ \A b \in Slot : pc'[b] = IF b = a THEN n ELSE pc[b]
    BY <1>2 DEF ReleasePrimary, SlotGoes, GroupTypes, SlotTypes
  <2> QED
    BY <2>1 DEF ReleasePrimary, GroupTypes, Found, I
<1> QED
  BY <1>1, <1>3, <1>4 DEF GroupTypes

LEMMA TypesPushPrimary ==
    ASSUME GroupTypes, NEW a \in Slot, PushPrimary(a)
    PROVE  GroupTypes'
<1>1. Primary(I(a)) \in Issue
  BY PrimaryIssue DEF PushPrimary
<1>2. JiraTypes'
  BY <1>1, FreshTask, PushedTask DEF PushPrimary, GroupTypes, JiraTypes
<1>3. CountTypes'
  BY ScalarsStay DEF PushPrimary, rebase
<1> QED
  BY <1>2, <1>3, TypesMove DEF PushPrimary, Place, GroupTypes, SlotTypes

LEMMA TypesDispatch ==
    ASSUME GroupTypes, NEW a \in Slot, Dispatch(a)
    PROVE  GroupTypes'
<1>1. I(a) \in Issue
  BY SlotIssue DEF Dispatch
<1>2. rebaseq' \in [Issue -> Nat] /\ reproq' \subseteq Issue
  BY <1>1 DEF Dispatch, GroupTypes, CountTypes
<1>3. CountTypes' /\ JiraTypes'
  BY <1>2 DEF Dispatch, common, GroupTypes, CountTypes, JiraTypes
<1> QED
  BY <1>3, TypesDone DEF Dispatch

LEMMA TypesRetry ==
    ASSUME GroupTypes, NEW a \in Slot, Retry(a)
    PROVE  GroupTypes'
<1> DEFINE again == [task[a] EXCEPT !.attempts = @ + 1]
<1>1. task[a] \in Task
  BY SlotIssue DEF Retry
<1>2. CountTypes'
  BY ScalarsStay DEF Retry, rebase
<1>3. CASE again.attempts < MaxRetries /\ LPush(again) /\ UNCHANGED labels
  <2>1. again \in Task
    BY <1>1, <1>3, GroupFacts DEF Task
  <2>2. JiraTypes'
    BY <1>3, <2>1, PushedTask DEF Retry, GroupTypes, JiraTypes
  <2> QED
    BY <1>2, <2>2, TypesDone DEF Retry
<1>4. CASE Edit(I(a), {"errored"}, {"in_progress"}) /\ UNCHANGED queue
  <2>1. JiraTypes'
    BY <1>4, EditsKeep DEF Retry, Label
  <2> QED
    BY <1>2, <2>1, TypesDone DEF Retry
<1> QED
  BY <1>3, <1>4 DEF Retry

LEMMA TypesCrash ==
    ASSUME GroupTypes, Crash
    PROVE  GroupTypes'
<1>1. CountTypes' /\ JiraTypes' /\ MarkerTypes'
  BY ScalarsStay DEF Crash, rebase, GroupTypes, JiraTypes, MarkerTypes
<1>2. Forgotten \in MemType
  BY DEF Forgotten, MemType
<1>3. SlotTypes' /\ Found'
  BY <1>2 DEF Crash, SlotTypes, Found, Place, On
<1> QED
  BY <1>1, <1>3 DEF GroupTypes

LEMMA TypesTriageRests ==
    ASSUME GroupTypes, UNCHANGED triage, CountTypes', JiraTypes'
    PROVE  GroupTypes'
<1>1. UNCHANGED <<markers, holder, pc, task, mem>>
  BY DEF triage
<1>2. SlotTypes' /\ Found' /\ MarkerTypes'
  BY <1>1 DEF GroupTypes, SlotTypes, Found, MarkerTypes, On, I
<1> QED
  BY <1>2 DEF GroupTypes

LEMMA TypesRebase ==
    ASSUME GroupTypes, NEW i \in Issue, RebaseStart(i) \/ RebaseEnd(i) \/ Reproduce(i) \/ Fetch(i)
    PROVE  GroupTypes'
<1>1. CASE RebaseStart(i)
  <2>1. rebaseq[i] \in Nat /\ rebaseq[i] > 0
    BY <1>1 DEF RebaseStart, GroupTypes, CountTypes
  <2>2. rebaseq' \in [Issue -> Nat] /\ merged' \in [Issue -> SUBSET Issue] /\ rebasing' \subseteq Issue
    BY <1>1, <2>1 DEF RebaseStart, GroupTypes, CountTypes
  <2>3. CountTypes' /\ JiraTypes'
    BY <1>1, <2>2 DEF RebaseStart, common, GroupTypes, CountTypes, JiraTypes
  <2> QED
    BY <1>1, <2>3, TypesTriageRests DEF RebaseStart
<1>2. CASE RebaseEnd(i)
  <2>1. PICK outcome \in {"rebased", "failed"} : Edit(i, {outcome}, {"triaged_rebase"})
    BY <1>2 DEF RebaseEnd
  <2>2. JiraTypes' /\ CountTypes'
    BY <1>2, <2>1, EditsKeep DEF RebaseEnd, Label, GroupTypes, CountTypes
  <2> QED
    BY <1>2, <2>2, TypesTriageRests DEF RebaseEnd
<1>3. CASE Reproduce(i)
  <2>1. JiraTypes' /\ CountTypes'
    BY <1>3, EditsKeep DEF Reproduce, Label, GroupTypes, CountTypes
  <2> QED
    BY <1>3, <2>1, TypesTriageRests DEF Reproduce
<1>4. CASE Fetch(i)
  <2>1. JiraTypes' /\ CountTypes'
    BY <1>4, FreshTask, PushedTask, ScalarsStay DEF Fetch, rebase, GroupTypes, JiraTypes
  <2> QED
    BY <1>4, <2>1, TypesTriageRests DEF Fetch
<1> QED
  BY <1>1, <1>2, <1>3, <1>4

LEMMA AbandonedTasks ==
    ASSUME GroupTypes
    PROVE  {Fresh(i) : i \in Abandoned} \subseteq Task /\ IsFiniteSet({Fresh(i) : i \in Abandoned})
<1> DEFINE S == {Fresh(i) : i \in Abandoned}
           f == [i \in Abandoned |-> Fresh(i)]
<1>1. Abandoned \subseteq Issue /\ IsFiniteSet(Abandoned)
  BY GroupFacts, FS_Subset DEF Abandoned, GroupTypes, CountTypes, SetupType
<1>2. f \in Surjection(Abandoned, S)
  BY DEF Surjection
<1>3. IsFiniteSet(S)
  BY <1>1, <1>2, FS_Surjection
<1> QED
  BY <1>1, <1>3, FreshTask

LEMMA TypesRescue ==
    ASSUME GroupTypes, Rescue
    PROVE  GroupTypes'
<1>2. {Fresh(i) : i \in Abandoned} \subseteq Task /\ IsFiniteSet({Fresh(i) : i \in Abandoned})
  BY AbandonedTasks
<1>3. labels' \in [Issue -> SUBSET Label]
  BY DEF Rescue, GroupTypes, JiraTypes
<1>4. CountTypes' /\ JiraTypes'
  BY <1>2, <1>3, ListOfTasks, ScalarsStay DEF Rescue, rebase, GroupTypes, JiraTypes
<1> QED
  BY <1>4, TypesTriageRests DEF Rescue

LEMMA TypesSweeps ==
    ASSUME GroupTypes, Sweeping
    PROVE  GroupTypes'
<1>1. sweeps \in [Postponement -> SweepType] /\ labels \in [Issue -> SUBSET Label] /\ queue \in Seq(Task)
  BY DEF GroupTypes, JiraTypes
<1>2. Postponement \subseteq Label
  BY DEF Postponement, Label
<1>3. Between \in SweepType
  BY DEF Between, SweepType
<1>4. ASSUME NEW k \in Postponement, SweepStep(k) \/ SweepDies(k)
      PROVE  CountTypes' /\ JiraTypes'
  <2>1. sweeps[k] \in SweepType
    BY <1>1
  <2>2. CASE SweepStart(k)
    <3>1. Sweepable(k) \subseteq Issue
      BY DEF Sweepable
    <3>2. sweeps' \in [Postponement -> SweepType]
      BY <1>1, <2>1, <2>2, <3>1 DEF SweepStart, SweepType
    <3> QED
      BY <1>1, <2>2, <3>2, ScalarsStay DEF SweepStart, Sweeping, rebase, JiraTypes
  <2>3. ASSUME NEW i \in Issue, SweepIssue(k, i)
        PROVE  CountTypes' /\ JiraTypes'
    <3>1. sweeps' \in [Postponement -> SweepType]
      BY <1>1, <2>1, <2>3 DEF SweepIssue, SweepType
    <3>2. queue' \in Seq(Task)
      BY <1>1, <2>3, FreshTask, PushedTask DEF SweepIssue
    <3>3. labels' \in [Issue -> SUBSET Label]
      BY <1>1, <2>3, Edited DEF SweepIssue, Label
    <3> QED
      BY <2>3, <3>1, <3>2, <3>3, ScalarsStay DEF SweepIssue, Sweeping, rebase, JiraTypes
  <2>4. [sweeps[k] EXCEPT !.at = "idle", !.issue = {}] \in SweepType
    BY <2>1 DEF SweepType
  <2>5. ASSUME NEW i \in Issue, SweepProgress(k, i)
        PROVE  CountTypes' /\ JiraTypes'
    <3>1. sweeps' \in [Postponement -> SweepType]
      <4>1. CASE sweeps' = [sweeps EXCEPT ![k].at = "marked"]
        BY <1>1, <2>1, <4>1 DEF SweepType
      <4>2. CASE NextIssue(k)
        BY <1>1, <2>4, <4>2 DEF NextIssue
      <4> QED
        BY <2>5, <4>1, <4>2 DEF SweepProgress
    <3>2. labels' \in [Issue -> SUBSET Label]
      BY <1>1, <2>5, Edited DEF SweepProgress, Label
    <3> QED
      BY <1>1, <2>5, <3>1, <3>2, ScalarsStay DEF SweepProgress, Sweeping, rebase, JiraTypes
  <2>6. ASSUME NEW i \in Issue, SweepRemove(k, i)
        PROVE  CountTypes' /\ JiraTypes'
    <3>1. sweeps' \in [Postponement -> SweepType]
      BY <1>1, <2>4, <2>6 DEF SweepRemove, NextIssue
    <3>2. labels' \in [Issue -> SUBSET Label]
      BY <1>1, <2>6, Edited DEF SweepRemove
    <3> QED
      BY <1>1, <2>6, <3>1, <3>2, ScalarsStay DEF SweepRemove, Sweeping, rebase, JiraTypes
  <2>7. CASE SweepDies(k)
    <3>1. sweeps' \in [Postponement -> SweepType]
      BY <1>1, <1>3, <2>7 DEF SweepDies
    <3> QED
      BY <1>1, <2>7, <3>1, ScalarsStay DEF SweepDies, Sweeping, rebase, JiraTypes
  <2> QED
    BY <1>4, <2>2, <2>3, <2>5, <2>6, <2>7 DEF SweepStep
<1>5. ASSUME NEW i \in Issue, BlockerSettles(i)
      PROVE  CountTypes' /\ JiraTypes'
  BY <1>1, <1>5 DEF BlockerSettles, Sweeping, rebase, GroupTypes, CountTypes, JiraTypes
<1>6. CountTypes' /\ JiraTypes'
  BY <1>4, <1>5 DEF Sweeping
<1> QED
  BY <1>6, TypesTriageRests DEF Sweeping

LEMMA TypesProcess ==
    ASSUME GroupTypes, Judged, NEW a \in Slot, ProcessTask(a)
    PROVE  GroupTypes'
<1>1. CASE Take(a) \/ Guard(a) \/ Stamp(a) \/ Analyse(a)
  BY <1>1, TypesTake, TypesGuard, TypesStamp, TypesAnalyse
<1>2. CASE Consolidate(a) \/ CheckCandidate(a) \/ LabelWaiting(a) \/ Comment(a)
  BY <1>2, TypesConsolidate, TypesCheckCandidate, TypesLabelWaiting, TypesComment
<1>3. CASE \E c \in Issue : LabelSibling(a, c) \/ MarkSibling(a, c) \/ PushSibling(a, c)
  BY <1>3, TypesLabelSibling, TypesMarkSibling, TypesPushSibling
<1>4. CASE LabelResult(a) \/ CheckPrimary(a) \/ CheckSiblings(a) \/ ReleasePrimary(a)
  BY <1>4, TypesLabelResult, TypesCheckPrimary, TypesReleasePrimary
<1>5. CASE PushPrimary(a) \/ Dispatch(a) \/ Retry(a)
  BY <1>5, TypesPushPrimary, TypesDispatch, TypesRetry
<1> QED
  BY <1>1, <1>2, <1>3, <1>4, <1>5 DEF ProcessTask

LEMMA TypesStutter ==
    ASSUME GroupTypes, UNCHANGED groupsVars
    PROVE  GroupTypes'
<1>1. CountTypes' /\ JiraTypes' /\ UNCHANGED triage
  BY DEF groupsVars, common, rebase, GroupTypes, CountTypes, JiraTypes
<1> QED
  BY <1>1, TypesTriageRests

LEMMA TypesNext == GroupTypes /\ Judged /\ [GroupsNext]_groupsVars => GroupTypes'
<1> SUFFICES ASSUME GroupTypes, Judged, [GroupsNext]_groupsVars
             PROVE  GroupTypes'
  OBVIOUS
<1>1. CASE \E a \in Slot : ProcessTask(a)
  BY <1>1, TypesProcess
<1>2. CASE \E i \in Issue : Fetch(i) \/ RebaseStart(i) \/ RebaseEnd(i) \/ Reproduce(i)
  BY <1>2, TypesRebase
<1>3. CASE Sweeping \/ Rescue \/ Crash \/ UNCHANGED groupsVars
  BY <1>3, TypesSweeps, TypesRescue, TypesCrash, TypesStutter
<1> QED
  BY <1>1, <1>2, <1>3 DEF GroupsNext

LEMMA FitsOn ==
    ASSUME GroupTypes, Judged, NEW a \in Slot, NEW n, NEW m, SlotGoes(a, n), mem' = [mem EXCEPT ![a] = m], Fits(n, m)
    PROVE  Judged'
  BY DEF GroupTypes, SlotTypes, SlotGoes, Judged

LEMMA FitsStays ==
    ASSUME GroupTypes, Judged, NEW a \in Slot, NEW n, SlotGoes(a, n), UNCHANGED mem, Fits(n, mem[a])
    PROVE  Judged'
  BY DEF GroupTypes, SlotTypes, SlotGoes, Judged

LEMMA FitsEnds ==
    ASSUME GroupTypes, Judged, NEW a \in Slot, Done(a)
    PROVE  Judged'
<1>1. Fits("idle", Forgotten)
  BY DEF Fits, Collecting, Checking, Forgotten
<1> QED
  BY <1>1, FitsOn DEF Done

LEMMA JudgedProcess ==
    ASSUME GroupTypes, Judged, NEW a \in Slot, ProcessTask(a)
    PROVE  Judged'
<1> USE DEF Fits, Collecting, Checking
<1>0. mem \in [Slot -> MemType] /\ (pc[a] # "idle" => I(a) \in Issue) /\ mem[a] \in MemType
  BY SlotIssue DEF GroupTypes, SlotTypes
<1>1. CASE Take(a)
  BY <1>1, FitsStays DEF Take, Judged
<1>2. CASE Guard(a)
  <2>1. CASE Done(a)
    BY <2>1, FitsEnds
  <2>2. CASE SlotGoes(a, "stamp") /\ mem' = [mem EXCEPT ![a].cur = labels[I(a)]]
    <3>1. mem' = [mem EXCEPT ![a] = [mem[a] EXCEPT !.cur = labels[I(a)]]]
      BY <2>2
    <3> QED
      BY <1>0, <1>2, <2>2, <3>1, FitsOn DEF Guard, Judged, MemType
  <2> QED
    BY <1>2, <2>1, <2>2 DEF Guard
<1>3. CASE Stamp(a)
  BY <1>3, FitsStays DEF Stamp, Judged
<1>4. CASE Analyse(a)
  <2>1. CASE SlotGoes(a, "retry") /\ UNCHANGED mem
    BY <1>4, <2>1, FitsStays DEF Analyse, Judged
  <2>2. CASE ~(SlotGoes(a, "retry") /\ UNCHANGED mem)
    <3>1. PICK r \in setup.resolutions[I(a)] :
             /\ mem' = [mem EXCEPT ![a] = [mem[a] EXCEPT !.res = r,
                                   !.sib = markers[I(a)] # <<>>,
                                   !.wait = "waiting" \in labels[I(a)]]]
             /\ SlotGoes(a, IF r = "rebase" THEN "consolidate" ELSE "label")
      BY <1>4, <2>2 DEF Analyse
    <3>2. r \in Resolution
      BY <1>0, <1>4 DEF Analyse, GroupTypes, CountTypes, SetupType
    <3> DEFINE m == [mem[a] EXCEPT !.res = r, !.sib = markers[I(a)] # <<>>, !.wait = "waiting" \in labels[I(a)]]
    <3>3. m.res = r /\ m.next = mem[a].next
      BY <1>0 DEF MemType
    <3>4. m.next = {}
      BY <1>4, <3>3 DEF Analyse, Judged
    <3>5. mem' = [mem EXCEPT ![a] = m]
      BY <3>1
    <3> HIDE DEF m
    <3> QED
      BY <3>1, <3>2, <3>3, <3>4, <3>5, FitsOn
  <2> QED
    BY <2>1, <2>2
<1>5. CASE Consolidate(a)
  <2>1. CASE SlotGoes(a, "comment") /\ mem' = [mem EXCEPT ![a] = [mem[a] EXCEPT !.sib = TRUE, !.wait = FALSE]]
    BY <1>0, <1>5, <2>1, FitsOn DEF Consolidate, Judged, MemType
  <2>2. CASE SlotGoes(a, "candidates") /\ mem' = [mem EXCEPT ![a].cand = Candidates(I(a))] /\ ~mem[a].sib
    <3>1. mem' = [mem EXCEPT ![a] = [mem[a] EXCEPT !.cand = Candidates(I(a))]]
      BY <2>2
    <3> QED
      BY <1>0, <1>5, <2>2, <3>1, FitsOn DEF Consolidate, Judged, MemType
  <2> QED
    BY <1>5, <2>1, <2>2 DEF Consolidate
<1>6. CASE CheckCandidate(a)
  <2>1. PICK c \in mem[a].cand :
          \/ mem' = [mem EXCEPT ![a].cand = @ \ {c}] /\ UNCHANGED pc
          \/ SlotGoes(a, "sibling") /\ mem' = [mem EXCEPT ![a] = [mem[a] EXCEPT !.cand = @ \ {c}, !.next = {c}]]
    BY <1>6 DEF CheckCandidate
  <2>2. CASE mem' = [mem EXCEPT ![a].cand = @ \ {c}] /\ UNCHANGED pc
    <3>1. mem' = [mem EXCEPT ![a] = [mem[a] EXCEPT !.cand = @ \ {c}]]
      BY <2>2
    <3>2. [mem[a] EXCEPT !.cand = @ \ {c}].res = mem[a].res /\ [mem[a] EXCEPT !.cand = @ \ {c}].sib = mem[a].sib
          /\ [mem[a] EXCEPT !.cand = @ \ {c}].next = mem[a].next
      BY <1>0 DEF MemType
    <3>3. SlotGoes(a, "candidates") /\ Fits("candidates", mem[a])
      BY <1>6, <2>2 DEF CheckCandidate, Judged, SlotGoes, GroupTypes, SlotTypes
    <3> QED
      BY <3>1, <3>2, <3>3, FitsOn
  <2>3. CASE SlotGoes(a, "sibling") /\ mem' = [mem EXCEPT ![a] = [mem[a] EXCEPT !.cand = @ \ {c}, !.next = {c}]]
    BY <1>0, <1>6, <2>3, FitsOn DEF CheckCandidate, Judged, MemType
  <2> QED
    BY <2>1, <2>2, <2>3
<1>7. CASE LabelWaiting(a)
  <2>1. CASE UNCHANGED mem
    BY <1>7, <2>1, FitsStays DEF LabelWaiting, Judged
  <2>2. CASE mem' = [mem EXCEPT ![a].wait = TRUE]
    <3>1. mem' = [mem EXCEPT ![a] = [mem[a] EXCEPT !.wait = TRUE]]
      BY <2>2
    <3> QED
      BY <1>0, <1>7, <3>1, FitsOn DEF LabelWaiting, Judged, MemType
  <2> QED
    BY <1>7, <2>1, <2>2 DEF LabelWaiting
<1>8. CASE Comment(a)
  BY <1>8, FitsStays DEF Comment, Judged
<1>9. CASE \E c \in Issue : LabelSibling(a, c)
  BY <1>9, FitsStays DEF LabelSibling, Judged
<1>10. ASSUME NEW c \in Issue, MarkSibling(a, c)
       PROVE  Judged'
  <2>1. CASE SlotGoes(a, "push") /\ UNCHANGED mem
    BY <1>10, <2>1, FitsStays DEF MarkSibling, Judged
  <2>2. CASE SlotGoes(a, "candidates") /\ mem' = [mem EXCEPT ![a].next = {}]
    <3>1. mem' = [mem EXCEPT ![a] = [mem[a] EXCEPT !.next = {}]]
      BY <2>2
    <3> DEFINE m == [mem[a] EXCEPT !.next = {}]
    <3>2. m.res = mem[a].res /\ m.sib = mem[a].sib /\ m.next = {}
      BY <1>0 DEF MemType
    <3>3. mem[a].res \in Resolution /\ mem[a].res = "rebase" /\ ~mem[a].sib
      BY <1>10 DEF MarkSibling, Judged
    <3> HIDE DEF m
    <3>4. Fits("candidates", m)
      BY <3>2, <3>3
    <3> QED
      BY <2>2, <3>1, <3>4, FitsOn DEF m
  <2> QED
    BY <1>10, <2>1, <2>2 DEF MarkSibling
<1>11. CASE \E c \in Issue : PushSibling(a, c)
  <2> DEFINE m == [mem[a] EXCEPT !.next = {}, !.count = 1]
  <2>1. pc[a] = "push" /\ mem' = [mem EXCEPT ![a] = m] /\ SlotGoes(a, "candidates")
    BY <1>11 DEF PushSibling
  <2>2. m.res = mem[a].res /\ m.sib = mem[a].sib /\ m.next = {}
    BY <1>0 DEF MemType
  <2>3. mem[a].res \in Resolution /\ mem[a].res = "rebase" /\ ~mem[a].sib
    BY <2>1 DEF Judged
  <2> HIDE DEF m
  <2>4. Fits("candidates", m)
    BY <2>2, <2>3
  <2> QED
    BY <2>1, <2>4, FitsOn
<1>12. CASE LabelResult(a)
  <2>1. CASE Done(a)
    BY <2>1, FitsEnds
  <2>2. CASE SlotGoes(a, IF mem[a].sib THEN "check" ELSE "dispatch") /\ UNCHANGED mem
    BY <1>12, <2>2, FitsStays DEF LabelResult, Judged
  <2> QED
    BY <1>12, <2>1, <2>2 DEF LabelResult
<1>13. CASE CheckPrimary(a) \/ CheckSiblings(a) \/ ReleasePrimary(a) \/ PushPrimary(a)
  BY <1>13, FitsStays DEF CheckPrimary, CheckSiblings, ReleasePrimary, PushPrimary, Judged
<1>14. CASE Dispatch(a) \/ Retry(a)
  BY <1>14, FitsEnds DEF Dispatch, Retry
<1> QED
  BY <1>1, <1>2, <1>3, <1>4, <1>5, <1>6, <1>7, <1>8, <1>9, <1>10, <1>11, <1>12, <1>13, <1>14 DEF ProcessTask

LEMMA JudgedNext == GroupTypes /\ Judged /\ [GroupsNext]_groupsVars => Judged'
<1> SUFFICES ASSUME GroupTypes, Judged, [GroupsNext]_groupsVars
             PROVE  Judged'
  OBVIOUS
<1>1. CASE \E a \in Slot : ProcessTask(a)
  BY <1>1, JudgedProcess
<1>2. CASE UNCHANGED triage
  BY <1>2 DEF triage, Judged
<1>3. CASE Crash
  BY <1>3 DEF Crash, Judged, Fits, Collecting, Checking, Forgotten
<1> QED
  BY <1>1, <1>2, <1>3 DEF GroupsNext, Fetch, RebaseStart, RebaseEnd, Reproduce, Sweeping, Rescue, groupsVars

LEMMA JudgedInit == GroupsInit => Judged
  BY DEF GroupsInit, Judged, Fits, Collecting, Checking, Forgotten

-----------------------------------------------------------------------------
(* An issue that triage never postpones is rebased once at a time: while its  *)
(* rebase is queued or under way its label keeps triage away from it.         *)
Steady(i)  == setup.resolutions[i] \cap Postponement = {}
Rebases(i) == rebaseq[i] + (IF i \in rebasing THEN 1 ELSE 0)
Settled(i) == "triaged_rebase" \in labels[i] /\ "in_progress" \notin labels[i]
Sends(a, i) == pc[a] = "dispatch" /\ I(a) = i /\ mem[a].res = "rebase" /\ ~mem[a].sib /\ ~Waits(a)

Unposted(i) ==
    /\ labels[i] \cap Postponement = {}
    /\ \A k \in Postponement : i \notin sweeps[k].todo \cup sweeps[k].issue
    /\ \A a \in Slot : On(a, i) => mem[a].res \notin Postponement
Counted(i) ==
    /\ Rebases(i) <= 1
    /\ Rebases(i) = 1 => Settled(i) /\ \A a \in Slot : On(a, i) => pc[a] = "guard"
    /\ \A a \in Slot : Sends(a, i) => Settled(i)
OnceInv == GroupTypes /\ Judged /\ \A i \in Issue : Steady(i) => Unposted(i) /\ Counted(i)

LEMMA RebasesType ==
    ASSUME GroupTypes, NEW i \in Issue
    PROVE  Rebases(i) \in Nat /\ rebaseq[i] \in Nat
  BY DEF GroupTypes, CountTypes, Rebases

(* A slot goes on with another issue, or with this one past the guard. *)
LEMMA OnceMoves ==
    ASSUME GroupTypes, NEW i \in Issue, Counted(i), NEW a \in Slot, pc[a] \notin {"idle", "guard"},
           NEW n \in Place, SlotGoes(a, n), UNCHANGED <<task, rebaseq, rebasing>>,
           \A b \in Slot \ {a} : mem'[b] = mem[b],
           Settled(i) /\ I(a) # i => Settled(i)',
           Sends(a, i)' => Settled(i)'
    PROVE  Counted(i)'
<1>1. /\ pc'[a] = n /\ \A b \in Slot \ {a} : pc'[b] = pc[b]
      /\ \A b \in Slot : I(b)' = I(b)
  BY DEF GroupTypes, SlotTypes, SlotGoes, I
<1>2. Rebases(i)' = Rebases(i)
  BY DEF Rebases
<1>3. \A b \in Slot \ {a} : Sends(b, i)' = Sends(b, i) /\ On(b, i)' = On(b, i)
  BY <1>1 DEF Sends, Waits, On
<1>4. CASE I(a) = i
  <2>1. On(a, i)
    BY <1>4 DEF On
  <2>2. Rebases(i) # 1
    BY <2>1 DEF Counted
  <2>3. \A b \in Slot \ {a} : ~On(b, i)
    BY <2>1 DEF On, GroupTypes, SlotTypes
  <2>4. \A b \in Slot \ {a} : ~Sends(b, i)
    BY <2>3 DEF On, Sends
  <2>5. \A b \in Slot : Sends(b, i)' => Settled(i)'
    BY <1>3, <2>4
  <2> QED
    BY <1>2, <2>2, <2>5 DEF Counted
<1>5. CASE I(a) # i
  <2>1. ~On(a, i)' /\ ~Sends(a, i)'
    BY <1>1, <1>5 DEF On, Sends
  <2>2. \A b \in Slot : Sends(b, i)' => Settled(i)'
    BY <1>3, <1>5, <2>1 DEF Counted
  <2>3. Rebases(i)' = 1 => Settled(i)' /\ \A b \in Slot : On(b, i)' => pc'[b] = "guard"
    BY <1>1, <1>2, <1>3, <1>5, <2>1 DEF Counted
  <2> QED
    BY <1>2, <2>2, <2>3 DEF Counted
<1> QED
  BY <1>4, <1>5

(* A task ends. *)
LEMMA OnceEnds ==
    ASSUME GroupTypes, NEW i \in Issue, Counted(i), NEW a \in Slot, pc[a] # "idle", Done(a),
           UNCHANGED <<rebaseq, rebasing>>,
           Settled(i) /\ (I(a) # i \/ pc[a] = "guard") => Settled(i)'
    PROVE  Counted(i)'
<1>1. /\ pc'[a] = "idle"
      /\ \A b \in Slot \ {a} : pc'[b] = pc[b] /\ task'[b] = task[b] /\ mem'[b] = mem[b]
  BY SlotEnds
<1>2. Rebases(i)' = Rebases(i) /\ ~On(a, i)' /\ ~Sends(a, i)'
  BY <1>1 DEF Rebases, On, Sends
<1>3. \A b \in Slot \ {a} : Sends(b, i)' = Sends(b, i) /\ On(b, i)' = On(b, i)
  BY <1>1 DEF Sends, Waits, On, I
<1>4. CASE I(a) = i /\ pc[a] # "guard"
  <2>1. On(a, i)
    BY <1>4 DEF On
  <2>2. Rebases(i) # 1
    BY <1>4, <2>1 DEF Counted
  <2>3. \A b \in Slot \ {a} : ~On(b, i)
    BY <2>1 DEF On, GroupTypes, SlotTypes
  <2>4. \A b \in Slot \ {a} : ~Sends(b, i)
    BY <2>3 DEF On, Sends
  <2> QED
    BY <1>2, <1>3, <2>2, <2>4 DEF Counted
<1>5. CASE I(a) # i \/ pc[a] = "guard"
  <2>1. \A b \in Slot : Sends(b, i)' => Settled(i)'
    BY <1>2, <1>3, <1>5 DEF Counted
  <2>2. Rebases(i)' = 1 => Settled(i)' /\ \A b \in Slot : On(b, i)' => pc'[b] = "guard"
    BY <1>1, <1>2, <1>3, <1>5 DEF Counted
  <2> QED
    BY <1>2, <2>1, <2>2 DEF Counted
<1> QED
  BY <1>4, <1>5

(* Nobody's task changes. *)
LEMMA OnceRests ==
    ASSUME GroupTypes, NEW i \in Issue, Counted(i), UNCHANGED <<pc, task, mem>>,
           UNCHANGED <<rebaseq, rebasing>>, Settled(i) => Settled(i)'
    PROVE  Counted(i)'
<1>1. \A b \in Slot : (Sends(b, i)' = Sends(b, i)) /\ (On(b, i)' = On(b, i))
  BY DEF Sends, Waits, On, I
<1>2. Rebases(i)' = Rebases(i)
  BY DEF Rebases
<1> QED
  BY <1>1, <1>2 DEF Counted

LEMMA SettledStays ==
    ASSUME labels \in [Issue -> SUBSET Label], NEW i \in Issue, NEW j, NEW add, NEW remove, Edit(j, add, remove),
           j # i \/ ("triaged_rebase" \notin remove /\ "in_progress" \notin add), Settled(i)
    PROVE  Settled(i)'
  BY DEF Edit, Settled

LEMMA PostsStay ==
    ASSUME labels \in [Issue -> SUBSET Label], NEW i \in Issue, NEW j, NEW add, NEW remove, Edit(j, add, remove),
           j # i \/ add \cap Postponement = {}, labels[i] \cap Postponement = {}
    PROVE  labels'[i] \cap Postponement = {}
  BY DEF Edit

(* A step of a slot that is not the last before its rebase is dispatched. *)
LEMMA OnceSteps ==
    ASSUME GroupTypes, NEW i \in Issue, Counted(i), NEW a \in Slot, pc[a] \notin {"idle", "guard"},
           NEW n \in Place, SlotGoes(a, n), UNCHANGED <<task, rebaseq, rebasing>>,
           \A b \in Slot \ {a} : mem'[b] = mem[b],
           Settled(i) /\ I(a) # i => Settled(i)',
           n = "dispatch" => mem'[a].sib
    PROVE  Counted(i)'
<1>1. pc'[a] = n
  BY DEF GroupTypes, SlotTypes, SlotGoes
<1>2. ~Sends(a, i)'
  BY <1>1 DEF Sends
<1> QED
  BY <1>2, OnceMoves

LEMMA SameLabels == ASSUME NEW i, UNCHANGED labels PROVE Settled(i)' = Settled(i)
  BY DEF Settled

LEMMA OnceProcess ==
    ASSUME GroupTypes, Judged, NEW i \in Issue, Counted(i), NEW a \in Slot, ProcessTask(a)
    PROVE  Counted(i)'
<1>0. /\ labels \in [Issue -> SUBSET Label] /\ mem \in [Slot -> MemType] /\ pc \in [Slot -> Place]
      /\ task \in [Slot -> Task \cup {NoTask}]
  BY DEF GroupTypes, JiraTypes, SlotTypes
<1>a. pc[a] # "idle" => I(a) \in Issue
  BY SlotIssue
<1>1. CASE Take(a)
  <2>1. Rebases(i)' = Rebases(i) /\ Settled(i)' = Settled(i)
    BY <1>1, SameLabels DEF Take, rebase, Rebases
  <2>2. \A b \in Slot : \/ pc'[b] = "guard"
                        \/ pc'[b] = pc[b] /\ task'[b] = task[b] /\ mem'[b] = mem[b]
    BY <1>0, <1>1 DEF Take, SlotGoes
  <2>3. \A b \in Slot : (On(b, i)' => pc'[b] = "guard" \/ On(b, i)) /\ (Sends(b, i)' => Sends(b, i))
    BY <2>2 DEF On, Sends, Waits, I
  <2> QED
    BY <2>1, <2>2, <2>3 DEF Counted
<1>2. CASE Guard(a)
  <2>1. UNCHANGED <<labels, rebaseq, rebasing>> /\ Settled(i)' = Settled(i)
    BY <1>2, SameLabels DEF Guard, common, rebase
  <2>2. CASE Done(a)
    BY <1>2, <2>1, <2>2, OnceEnds DEF Guard
  <2>3. CASE ~Done(a)
    <3>1. SlotGoes(a, "stamp") /\ UNCHANGED task /\ mem' = [mem EXCEPT ![a].cur = labels[I(a)]]
          /\ ~(Terminal(labels[I(a)]) # {} /\ "in_progress" \notin labels[I(a)])
      BY <1>2, <2>3 DEF Guard
    <3>2. I(a) = i => ~Settled(i)
      BY <3>1 DEF Settled, Terminal
    <3>3. /\ pc'[a] = "stamp" /\ \A b \in Slot \ {a} : pc'[b] = pc[b] /\ mem'[b] = mem[b]
      BY <1>0, <3>1 DEF SlotGoes
    <3>4. \A b \in Slot : (Sends(b, i)' => Sends(b, i)) /\ (On(b, i)' => On(b, i) /\ (b # a => pc'[b] = pc[b]))
      BY <1>2, <3>1, <3>3 DEF Guard, Sends, Waits, On, I
    <3>5. Rebases(i)' = Rebases(i)
      BY <2>1 DEF Rebases
    <3>6. Rebases(i) = 1 => Settled(i) /\ ~On(a, i)'
      BY <3>1, <3>2 DEF Counted, On, I
    <3> QED
      BY <2>1, <3>4, <3>5, <3>6 DEF Counted
  <2> QED
    BY <2>2, <2>3
<1>3. CASE Stamp(a)
  <2>1. Settled(i) /\ I(a) # i => Settled(i)'
    BY <1>0, <1>3, SettledStays DEF Stamp
  <2> QED
    BY <1>3, <2>1, OnceSteps DEF Stamp, rebase, Place
<1>4. CASE Analyse(a)
  <2>1. PICK n \in {"retry", "consolidate", "label"} : SlotGoes(a, n)
    BY <1>4 DEF Analyse
  <2>2. \A b \in Slot \ {a} : mem'[b] = mem[b]
    BY <1>0, <1>4 DEF Analyse
  <2>3. Settled(i)' = Settled(i)
    BY <1>4, SameLabels DEF Analyse
  <2> QED
    BY <1>4, <2>1, <2>2, <2>3, OnceSteps DEF Analyse, rebase, Place
<1>5. CASE Consolidate(a) \/ CheckCandidate(a) \/ Comment(a)
  <2>1. pc[a] \in {"consolidate", "candidates", "comment"} /\ UNCHANGED <<labels, task, rebaseq, rebasing>>
    BY <1>5 DEF Consolidate, CheckCandidate, Comment, common, rebase
  <2>2. PICK n \in {"comment", "candidates", "sibling", "label", "retry"} : SlotGoes(a, n)
    BY <1>0, <1>5 DEF Consolidate, CheckCandidate, Comment, SlotGoes
  <2>3. \A b \in Slot \ {a} : mem'[b] = mem[b]
    BY <1>0, <1>5 DEF Consolidate, CheckCandidate, Comment
  <2>4. Settled(i)' = Settled(i)
    BY <2>1, SameLabels
  <2> QED
    BY <2>1, <2>2, <2>3, <2>4, OnceSteps DEF Place
<1>6. ASSUME NEW c \in Issue, LabelSibling(a, c) \/ MarkSibling(a, c) \/ PushSibling(a, c)
      PROVE  Counted(i)'
  <2>1. pc[a] \in {"sibling", "marker", "push"} /\ UNCHANGED <<task, rebaseq, rebasing>>
    BY <1>6 DEF LabelSibling, MarkSibling, PushSibling, rebase
  <2>2. PICK n \in {"marker", "push", "candidates"} : SlotGoes(a, n)
    BY <1>6 DEF LabelSibling, MarkSibling, PushSibling
  <2>3. \A b \in Slot \ {a} : mem'[b] = mem[b]
    BY <1>0, <1>6 DEF LabelSibling, MarkSibling, PushSibling
  <2>4. Settled(i) => Settled(i)'
    BY <1>0, <1>6, SettledStays, SameLabels DEF LabelSibling, BestEffort, MarkSibling, PushSibling
  <2> QED
    BY <2>1, <2>2, <2>3, <2>4, OnceSteps DEF Place
<1>7. CASE LabelWaiting(a)
  <2>1. Settled(i) => Settled(i)'
    BY <1>0, <1>7, SettledStays, SameLabels DEF LabelWaiting, BestEffort
  <2>2. \A b \in Slot \ {a} : mem'[b] = mem[b]
    BY <1>0, <1>7 DEF LabelWaiting
  <2> QED
    BY <1>7, <2>1, <2>2, OnceSteps DEF LabelWaiting, rebase, Place
<1>8. CASE LabelResult(a)
  <2>1. CASE Done(a) /\ UNCHANGED labels
    BY <1>8, <2>1, SameLabels, OnceEnds DEF LabelResult, rebase
  <2>2. CASE ~(Done(a) /\ UNCHANGED labels)
    <3>1. SlotGoes(a, IF mem[a].sib THEN "check" ELSE "dispatch") /\ UNCHANGED <<task, mem, rebaseq, rebasing>>
      BY <1>8, <2>2 DEF LabelResult, rebase
    <3>2. PICK add, remove : Edit(I(a), add, remove)
      BY <1>8, <2>2 DEF LabelResult
    <3>3. Settled(i) /\ I(a) # i => Settled(i)'
      BY <1>0, <3>2, SettledStays
    <3>4. ASSUME Sends(a, i)'
          PROVE  Settled(i)'
      <4>1. I(a) = i /\ mem[a].res = "rebase" /\ ~mem[a].sib /\ ~Waits(a)
        BY <3>1, <3>4 DEF Sends, Waits, I
      <4>2. Edit(i, {"triaged_rebase"}, {"in_progress"} \cup {"waiting"})
        BY <1>8, <2>2, <4>1 DEF LabelResult, Postponement
      <4> QED
        BY <1>0, <4>2 DEF Edit, Settled
    <3> QED
      BY <1>8, <3>1, <3>3, <3>4, OnceMoves DEF LabelResult, Place
  <2> QED
    BY <2>1, <2>2
<1>9. CASE CheckPrimary(a) \/ CheckSiblings(a) \/ ReleasePrimary(a) \/ PushPrimary(a)
  <2>1. pc[a] \in Checking /\ mem[a].sib /\ UNCHANGED <<task, mem, rebaseq, rebasing>>
    BY <1>9 DEF CheckPrimary, CheckSiblings, ReleasePrimary, PushPrimary, Checking, Judged, Fits, rebase
  <2>2. PICK n \in {"siblings", "unwait", "primary", "dispatch"} : SlotGoes(a, n)
    BY <1>9 DEF CheckPrimary, CheckSiblings, ReleasePrimary, PushPrimary
  <2>3. Settled(i) => Settled(i)'
    BY <1>0, <1>9, SettledStays, SameLabels DEF CheckPrimary, CheckSiblings, ReleasePrimary, PushPrimary, common
  <2> QED
    BY <2>1, <2>2, <2>3, OnceSteps DEF Place, Checking
<1>10. CASE Dispatch(a)
  <2>1. pc[a] = "dispatch" /\ Done(a) /\ UNCHANGED <<labels, rebasing>> /\ Settled(i)' = Settled(i)
    BY <1>10, SameLabels DEF Dispatch, common
  <2>2. CASE UNCHANGED rebaseq
    BY <2>1, <2>2, OnceEnds
  <2>3. CASE mem[a].res = "rebase" /\ ~mem[a].sib /\ ~Waits(a) /\ rebaseq' = [rebaseq EXCEPT ![I(a)] = @ + 1]
    <3>1. rebaseq \in [Issue -> Nat] /\ Rebases(i) \in Nat
      BY RebasesType DEF GroupTypes, CountTypes
    <3>2. /\ pc'[a] = "idle"
          /\ \A b \in Slot \ {a} : pc'[b] = pc[b] /\ task'[b] = task[b] /\ mem'[b] = mem[b]
      BY <2>1, SlotEnds
    <3>3. \A b \in Slot : (Sends(b, i)' => Sends(b, i)) /\ (On(b, i)' => On(b, i) /\ b # a /\ pc'[b] = pc[b])
      BY <3>2 DEF Sends, Waits, On, I
    <3>4. CASE I(a) = i
      <4>1. On(a, i) /\ Sends(a, i)
        BY <2>1, <2>3, <3>4 DEF On, Sends
      <4>2. Rebases(i) = 0
        BY <2>1, <3>1, <4>1 DEF Counted
      <4>3. Rebases(i)' = 1
        BY <2>1, <2>3, <3>1, <3>4, <4>2 DEF Rebases
      <4>4. \A b \in Slot : ~On(b, i)'
        BY <3>3, <4>1 DEF On, GroupTypes, SlotTypes
      <4> QED
        BY <2>1, <3>3, <4>1, <4>3, <4>4 DEF Counted
    <3>5. CASE I(a) # i
      <4>1. Rebases(i)' = Rebases(i)
        BY <2>1, <2>3, <3>1, <3>5 DEF Rebases
      <4> QED
        BY <2>1, <3>3, <4>1 DEF Counted
    <3> QED
      BY <3>4, <3>5
  <2> QED
    BY <1>10, <2>2, <2>3 DEF Dispatch
<1>11. CASE Retry(a)
  <2>1. Settled(i) /\ (I(a) # i \/ pc[a] = "guard") => Settled(i)'
    BY <1>0, <1>11, SettledStays, SameLabels DEF Retry
  <2> QED
    BY <1>11, <2>1, OnceEnds DEF Retry, rebase
<1> QED
  BY <1>1, <1>2, <1>3, <1>4, <1>5, <1>6, <1>7, <1>8, <1>9, <1>10, <1>11 DEF ProcessTask

LEMMA OnceOthers ==
    ASSUME GroupTypes, NEW i \in Issue, Counted(i), Unposted(i),
           \/ \E j \in Issue : Fetch(j) \/ RebaseStart(j) \/ RebaseEnd(j) \/ Reproduce(j)
           \/ Sweeping \/ Rescue \/ Crash \/ UNCHANGED groupsVars
    PROVE  Counted(i)'
<1>0. /\ labels \in [Issue -> SUBSET Label] /\ rebaseq \in [Issue -> Nat] /\ rebasing \subseteq Issue
      /\ rebaseq[i] \in Nat /\ sweeps \in [Postponement -> SweepType]
  BY DEF GroupTypes, JiraTypes, CountTypes
<1>1. CASE \E j \in Issue : Fetch(j)
  BY <1>1, OnceRests, SameLabels DEF Fetch, triage, rebase
<1>2. ASSUME NEW j \in Issue, RebaseStart(j)
      PROVE  Counted(i)'
  <2>1. Rebases(i)' = Rebases(i)
    BY <1>0, <1>2 DEF RebaseStart, Rebases
  <2>2. \A b \in Slot : (Sends(b, i)' = Sends(b, i)) /\ (On(b, i)' = On(b, i)) /\ pc'[b] = pc[b]
    BY <1>2 DEF RebaseStart, triage, Sends, Waits, On, I
  <2>3. Settled(i)' = Settled(i)
    BY <1>2, SameLabels DEF RebaseStart, common
  <2> QED
    BY <2>1, <2>2, <2>3 DEF Counted
<1>3. ASSUME NEW j \in Issue, RebaseEnd(j)
      PROVE  Counted(i)'
  <2>1. UNCHANGED <<pc, task, mem, rebaseq>> /\ rebasing' = rebasing \ {j} /\ j \in rebasing
    BY <1>3 DEF RebaseEnd, triage
  <2>2. CASE j = i
    <3>1. Rebases(i) = 1 /\ Rebases(i)' = 0
      BY <1>0, <2>1, <2>2 DEF Rebases, Counted
    <3>2. \A b \in Slot : ~Sends(b, i)'
      BY <2>1, <3>1 DEF Counted, Sends, On, Waits, I
    <3> QED
      BY <3>1, <3>2 DEF Counted
  <2>3. CASE j # i
    <3>1. UNCHANGED <<rebaseq, i \in rebasing>>
      BY <2>1, <2>3
    <3>2. Rebases(i)' = Rebases(i)
      BY <2>1, <2>3 DEF Rebases
    <3>3. Settled(i) => Settled(i)'
      BY <1>0, <1>3, <2>3, SettledStays DEF RebaseEnd
    <3>4. \A b \in Slot : (Sends(b, i)' = Sends(b, i)) /\ (On(b, i)' = On(b, i)) /\ pc'[b] = pc[b]
      BY <2>1 DEF Sends, Waits, On, I
    <3> QED
      BY <3>2, <3>3, <3>4 DEF Counted
  <2> QED
    BY <2>2, <2>3
<1>4. ASSUME NEW j \in Issue, Reproduce(j)
      PROVE  Counted(i)'
  <2>1. Settled(i) => Settled(i)'
    BY <1>0, <1>4, SettledStays DEF Reproduce
  <2> QED
    BY <1>4, <2>1, OnceRests DEF Reproduce, triage
<1>5. CASE Sweeping
  <2>1. Settled(i) => Settled(i)'
    <3>1. CASE UNCHANGED labels
      BY <3>1, SameLabels
    <3>2. ASSUME NEW k \in Postponement, NEW j \in Issue, SweepIssue(k, j) \/ SweepProgress(k, j) \/ SweepRemove(k, j)
          PROVE  Settled(i) => Settled(i)'
      <4>1. j \in sweeps[k].todo \cup sweeps[k].issue
        BY <3>2 DEF SweepIssue, SweepProgress, SweepRemove, At
      <4>2. j # i
        BY <4>1 DEF Unposted
      <4> QED
        BY <1>0, <3>2, <4>2, SettledStays, SameLabels DEF SweepIssue, SweepProgress, SweepRemove
    <3> QED
      BY <1>5, <3>1, <3>2 DEF Sweeping, SweepStep, SweepStart, SweepDies, BlockerSettles
  <2> QED
    BY <1>5, <2>1, OnceRests DEF Sweeping, triage, rebase
<1>6. CASE Rescue
  <2>1. Rebases(i) = 0 /\ \A b \in Slot : pc[b] = "idle"
    BY <1>6 DEF Rescue, Quiet, Rebases
  <2>2. Rebases(i)' = 0 /\ UNCHANGED pc
    BY <1>6, <2>1 DEF Rescue, rebase, triage, Rebases
  <2> QED
    BY <2>1, <2>2 DEF Counted, Sends
<1>7. CASE Crash
  <2>1. Rebases(i)' = Rebases(i) /\ Settled(i)' = Settled(i)
    BY <1>7, SameLabels DEF Crash, rebase, Rebases
  <2>2. \A b \in Slot : ~Sends(b, i)' /\ ~On(b, i)'
    BY <1>7 DEF Crash, Sends, On
  <2> QED
    BY <2>1, <2>2 DEF Counted
<1>8. CASE UNCHANGED groupsVars
  BY <1>8, OnceRests, SameLabels DEF groupsVars, common, triage, rebase
<1> QED
  BY <1>1, <1>2, <1>3, <1>4, <1>5, <1>6, <1>7, <1>8

-----------------------------------------------------------------------------
(* Nothing postpones a steady issue. *)
LEMMA UnpostedTriage ==
    ASSUME GroupTypes, NEW i \in Issue, Unposted(i), UNCHANGED sweeps,
           labels'[i] \cap Postponement = {},
           \A a \in Slot : On(a, i)' => mem'[a].res \notin Postponement
    PROVE  Unposted(i)'
  BY DEF Unposted

LEMMA UnpostedProcess ==
    ASSUME GroupTypes, Judged, NEW i \in Issue, Steady(i), Unposted(i), NEW a \in Slot, ProcessTask(a)
    PROVE  Unposted(i)'
<1>0. /\ labels \in [Issue -> SUBSET Label] /\ mem \in [Slot -> MemType] /\ pc \in [Slot -> Place]
      /\ task \in [Slot -> Task \cup {NoTask}]
  BY DEF GroupTypes, JiraTypes, SlotTypes
<1>a. pc[a] # "idle" => I(a) \in Issue /\ mem[a] \in MemType
  BY SlotIssue
<1>1. UNCHANGED sweeps
  BY DEF ProcessTask, Take, Guard, Stamp, Analyse, Consolidate, CheckCandidate, LabelWaiting, Comment, LabelSibling,
         MarkSibling, PushSibling, LabelResult, CheckPrimary, CheckSiblings, ReleasePrimary, PushPrimary, Dispatch, Retry
<1>2. labels'[i] \cap Postponement = {}
  <2>1. labels[i] \cap Postponement = {}
    BY DEF Unposted
  <2>2. CASE UNCHANGED labels
    BY <2>1, <2>2
  <2>3. CASE LabelResult(a) /\ ~UNCHANGED labels
    <3>1. CASE I(a) = i
      <4>1. mem[a].res \notin Postponement
        BY <2>3, <3>1 DEF LabelResult, On, Unposted
      <4>2. PICK add, remove : Edit(i, add, remove)
                               /\ add = IF Waits(a) THEN {} ELSE {IF mem[a].res = "rebase" THEN "triaged_rebase" ELSE mem[a].res}
        BY <2>3, <3>1, <4>1 DEF LabelResult
      <4>3. add \cap Postponement = {}
        BY <4>1, <4>2 DEF Postponement
      <4> QED
        BY <1>0, <2>1, <4>2, <4>3, PostsStay
    <3>2. CASE I(a) # i
      BY <1>0, <2>1, <2>3, <3>2, PostsStay DEF LabelResult
    <3> QED
      BY <3>1, <3>2
  <2>4. CASE \E j, add, remove : Edit(j, add, remove) /\ add \in SUBSET {"in_progress", "sibling", "waiting", "errored"}
    <3>1. PICK j, add, remove : Edit(j, add, remove) /\ add \in SUBSET {"in_progress", "sibling", "waiting", "errored"}
      BY <2>4
    <3>2. add \cap Postponement = {}
      BY <3>1 DEF Postponement
    <3> QED
      BY <1>0, <2>1, <3>1, <3>2, PostsStay
  <2>5. Stamp(a) => \E j, add, remove : Edit(j, add, remove) /\ add \in SUBSET {"in_progress", "sibling", "waiting", "errored"}
    BY DEF Stamp
  <2>6. LabelWaiting(a) /\ ~UNCHANGED labels =>
           \E j, add, remove : Edit(j, add, remove) /\ add \in SUBSET {"in_progress", "sibling", "waiting", "errored"}
    BY DEF LabelWaiting, BestEffort
  <2>7. \A c \in Issue : (LabelSibling(a, c) \/ MarkSibling(a, c)) /\ ~UNCHANGED labels =>
           \E j, add, remove : Edit(j, add, remove) /\ add \in SUBSET {"in_progress", "sibling", "waiting", "errored"}
    BY DEF LabelSibling, MarkSibling, BestEffort
  <2>8. (ReleasePrimary(a) \/ Retry(a)) /\ ~UNCHANGED labels =>
           \E j, add, remove : Edit(j, add, remove) /\ add \in SUBSET {"in_progress", "sibling", "waiting", "errored"}
    BY DEF ReleasePrimary, Retry
  <2> QED
    BY <2>2, <2>3, <2>4, <2>5, <2>6, <2>7, <2>8
       DEF ProcessTask, Take, Guard, Analyse, Consolidate, CheckCandidate, Comment, PushSibling, CheckPrimary,
           CheckSiblings, PushPrimary, Dispatch, common
<1>3. \A b \in Slot : On(b, i)' => mem'[b].res \notin Postponement
  <2> DEFINE Same == \A b \in Slot : On(b, i)' => On(b, i) /\ mem'[b].res = mem[b].res
  <2>1. CASE Take(a)
    <3>1. UNCHANGED mem /\ mem[a].res = "none" /\ \A b \in Slot \ {a} : On(b, i)' => On(b, i)
      BY <1>0, <2>1 DEF Take, Judged, Fits, Forgotten, SlotGoes, On, I
    <3> QED
      BY <3>1 DEF Unposted, Postponement
  <2>2. CASE Done(a)
    <3>1. /\ pc'[a] = "idle"
          /\ \A b \in Slot \ {a} : pc'[b] = pc[b] /\ task'[b] = task[b] /\ mem'[b] = mem[b]
      BY <1>0, <2>2 DEF Done, SlotGoes
    <3>2. Same
      BY <3>1 DEF On, I
    <3> QED
      BY <3>2 DEF Unposted
  <2>3. CASE Analyse(a)
    <3>1. \A b \in Slot : (On(b, i)' => On(b, i)) /\ (b # a => mem'[b] = mem[b])
      BY <1>0, <2>3 DEF Analyse, SlotGoes, On, I
    <3>2. mem'[a].res = mem[a].res \/ mem'[a].res \in setup.resolutions[I(a)]
      <4>1. CASE UNCHANGED mem
        BY <4>1
      <4>2. CASE ~UNCHANGED mem
        <5>1. PICK r \in setup.resolutions[I(a)] :
                mem' = [mem EXCEPT ![a] = [mem[a] EXCEPT !.res = r,
                                   !.sib = markers[I(a)] # <<>>,
                                   !.wait = "waiting" \in labels[I(a)]]]
          BY <2>3, <4>2 DEF Analyse
        <5>2. mem'[a] = [mem[a] EXCEPT !.res = r, !.sib = markers[I(a)] # <<>>, !.wait = "waiting" \in labels[I(a)]]
          BY <1>0, <5>1
        <5>3. mem'[a].res = r
          BY <1>a, <2>3, <5>2 DEF Analyse, MemType
        <5> QED
          BY <5>3
      <4> QED
        BY <4>1, <4>2
    <3>3. On(a, i) => I(a) = i
      BY DEF On
    <3> QED
      BY <3>1, <3>2, <3>3 DEF Unposted, Steady
  <2>4. CASE pc[a] # "idle" /\ pc' \in [Slot -> Place] /\ (\A b \in Slot \ {a} : pc'[b] = pc[b])
             /\ UNCHANGED task /\ \E m : mem' = [mem EXCEPT ![a] = m] /\ m.res = mem[a].res
    <3>1. \A b \in Slot : On(b, i)' => On(b, i)
      BY <2>4 DEF On, I
    <3>2. \A b \in Slot : mem'[b].res = mem[b].res
      BY <1>0, <2>4
    <3> QED
      BY <3>1, <3>2 DEF Unposted
  <2> DEFINE On1 == pc[a] # "idle" /\ pc' \in [Slot -> Place] /\ (\A b \in Slot \ {a} : pc'[b] = pc[b]) /\ UNCHANGED task
             Res1 == \E m : mem' = [mem EXCEPT ![a] = m] /\ m.res = mem[a].res
  <2>5. \A n \in Place : SlotGoes(a, n) => pc' \in [Slot -> Place] /\ \A b \in Slot \ {a} : pc'[b] = pc[b]
    BY <1>0 DEF SlotGoes
  <2>6. UNCHANGED mem => Res1
    BY <1>0
  <2>7. CASE Guard(a) \/ Stamp(a) \/ Comment(a) \/ LabelResult(a)
    <3>1. Done(a) \/ On1
      BY <1>0, <2>5, <2>7 DEF Guard, Stamp, Comment, LabelResult, Place
    <3>2. Done(a) \/ Res1
      <4>1. CASE Guard(a) /\ ~Done(a)
        <5>1. mem' = [mem EXCEPT ![a] = [mem[a] EXCEPT !.cur = labels[I(a)]]]
          BY <4>1 DEF Guard
        <5>2. [mem[a] EXCEPT !.cur = labels[I(a)]].res = mem[a].res
          BY <1>a, <4>1 DEF Guard, MemType
        <5> QED
          BY <5>1, <5>2
      <4> QED
        BY <2>6, <2>7, <4>1 DEF Stamp, Comment, LabelResult
    <3> QED
      BY <2>2, <2>4, <3>1, <3>2
  <2>8. CASE Consolidate(a) \/ CheckCandidate(a) \/ LabelWaiting(a)
    <3>1. On1
      BY <1>0, <2>5, <2>8 DEF Consolidate, CheckCandidate, LabelWaiting, Place
    <3>2. Res1
      <4>1. \E m : mem' = [mem EXCEPT ![a] = m] /\ (m = mem[a] \/ (\E x : m = [mem[a] EXCEPT !.cand = x])
                \/ (\E x, y : m = [mem[a] EXCEPT !.cand = x, !.next = y])
                \/ m = [mem[a] EXCEPT !.wait = TRUE] \/ m = [mem[a] EXCEPT !.sib = TRUE, !.wait = FALSE])
        BY <1>0, <2>8 DEF Consolidate, CheckCandidate, LabelWaiting
      <4> QED
        BY <1>a, <3>1, <4>1 DEF MemType
    <3> QED
      BY <2>4, <3>1, <3>2
  <2>9. ASSUME NEW c \in Issue, LabelSibling(a, c) \/ MarkSibling(a, c) \/ PushSibling(a, c)
        PROVE  \A b \in Slot : On(b, i)' => mem'[b].res \notin Postponement
    <3>1. On1
      BY <1>0, <2>5, <2>9 DEF LabelSibling, MarkSibling, PushSibling, Place
    <3>2. Res1
      <4>1. \E m : mem' = [mem EXCEPT ![a] = m] /\ (m = mem[a] \/ (\E y : m = [mem[a] EXCEPT !.next = y])
                \/ m = [mem[a] EXCEPT !.next = {}, !.count = 1])
        BY <1>0, <2>9 DEF LabelSibling, MarkSibling, PushSibling
      <4> QED
        BY <1>a, <3>1, <4>1 DEF MemType
    <3> QED
      BY <2>4, <3>1, <3>2
  <2>10. CASE CheckPrimary(a) \/ CheckSiblings(a) \/ ReleasePrimary(a) \/ PushPrimary(a)
    <3>1. On1 /\ UNCHANGED mem
      BY <1>0, <2>5, <2>10 DEF CheckPrimary, CheckSiblings, ReleasePrimary, PushPrimary, Place
    <3> QED
      BY <2>4, <2>6, <3>1
  <2>11. CASE Dispatch(a) \/ Retry(a)
    BY <2>2, <2>11 DEF Dispatch, Retry
  <2> QED
    BY <2>1, <2>3, <2>7, <2>8, <2>9, <2>10, <2>11 DEF ProcessTask
<1> QED
  BY <1>1, <1>2, <1>3, UnpostedTriage

LEMMA UnpostedRests ==
    ASSUME GroupTypes, NEW i \in Issue, Unposted(i), UNCHANGED <<pc, task, mem>>,
           labels'[i] \cap Postponement = {},
           \A k \in Postponement : i \notin sweeps'[k].todo \cup sweeps'[k].issue
    PROVE  Unposted(i)'
<1>1. \A b \in Slot : On(b, i)' = On(b, i)
  BY DEF On, I
<1> QED
  BY <1>1 DEF Unposted

(* An issue without a postponement is nothing to the sweeps. *)
Unswept(i) == labels[i] \cap Postponement = {} /\ \A k \in Postponement : i \notin sweeps[k].todo \cup sweeps[k].issue

LEMMA SweepsPass ==
    ASSUME GroupTypes, NEW i \in Issue, Unswept(i), Sweeping
    PROVE  labels'[i] = labels[i] /\ Unswept(i)'
<1>0. labels \in [Issue -> SUBSET Label] /\ sweeps \in [Postponement -> SweepType]
  BY DEF GroupTypes, JiraTypes
<1>1. ASSUME NEW k \in Postponement, SweepStep(k) \/ SweepDies(k)
      PROVE  labels'[i] = labels[i] /\ \A l \in Postponement : i \notin sweeps'[l].todo \cup sweeps'[l].issue
  <2>1. sweeps[k] \in SweepType /\ i \notin sweeps[k].todo \cup sweeps[k].issue
    BY <1>0 DEF Unswept
  <2>2. CASE SweepStart(k)
    <3>1. i \notin Sweepable(k)
      BY <1>0 DEF Sweepable, Unswept
    <3>2. i \notin sweeps'[k].todo \cup sweeps'[k].issue
      BY <1>0, <2>1, <2>2, <3>1 DEF SweepStart, SweepType
    <3>3. \A l \in Postponement \ {k} : sweeps'[l] = sweeps[l]
      BY <1>0, <2>2 DEF SweepStart
    <3> QED
      BY <1>0, <2>2, <3>2, <3>3 DEF SweepStart, Unswept
  <2>3. ASSUME NEW j \in Issue, SweepIssue(k, j) \/ SweepProgress(k, j) \/ SweepRemove(k, j)
        PROVE  labels'[i] = labels[i] /\ \A l \in Postponement : i \notin sweeps'[l].todo \cup sweeps'[l].issue
    <3>1. j \in sweeps[k].todo \cup sweeps[k].issue
      BY <2>3 DEF SweepIssue, SweepProgress, SweepRemove, At
    <3>2. j # i
      BY <2>1, <3>1
    <3>3. labels'[i] = labels[i]
      BY <1>0, <2>3, <3>2 DEF SweepIssue, SweepProgress, SweepRemove, Edit
    <3>4. i \notin sweeps'[k].todo \cup sweeps'[k].issue
      <4>1. CASE SweepIssue(k, j)
        BY <1>0, <2>1, <3>2, <4>1 DEF SweepIssue, SweepType
      <4>2. CASE SweepProgress(k, j)
        <5>1. CASE sweeps' = [sweeps EXCEPT ![k].at = "marked"]
          BY <1>0, <2>1, <5>1 DEF SweepType
        <5>2. CASE NextIssue(k)
          BY <1>0, <2>1, <5>2 DEF NextIssue, SweepType
        <5> QED
          BY <4>2, <5>1, <5>2 DEF SweepProgress
      <4>3. CASE SweepRemove(k, j)
        BY <1>0, <2>1, <4>3 DEF SweepRemove, NextIssue, SweepType
      <4> QED
        BY <2>3, <4>1, <4>2, <4>3
    <3>5. \A l \in Postponement \ {k} : sweeps'[l] = sweeps[l]
      BY <1>0, <2>3 DEF SweepIssue, SweepProgress, SweepRemove, NextIssue
    <3> QED
      BY <1>0, <3>3, <3>4, <3>5 DEF Unswept
  <2>4. CASE SweepDies(k)
    BY <1>0, <2>4 DEF SweepDies, Between, Unswept
  <2> QED
    BY <1>1, <2>2, <2>3, <2>4 DEF SweepStep
<1>2. CASE \E j \in Issue : BlockerSettles(j)
  BY <1>2 DEF BlockerSettles, Unswept
<1> QED
  BY <1>1, <1>2 DEF Sweeping, Unswept

LEMMA UnpostedOthers ==
    ASSUME GroupTypes, NEW i \in Issue, Unposted(i),
           \/ \E j \in Issue : Fetch(j) \/ RebaseStart(j) \/ RebaseEnd(j) \/ Reproduce(j)
           \/ Sweeping \/ Rescue \/ Crash \/ UNCHANGED groupsVars
    PROVE  Unposted(i)'
<1>0. /\ labels \in [Issue -> SUBSET Label] /\ sweeps \in [Postponement -> SweepType]
      /\ labels[i] \cap Postponement = {}
  BY DEF GroupTypes, JiraTypes, Unposted
<1>1. CASE \E j \in Issue : Fetch(j) \/ RebaseStart(j) \/ RebaseEnd(j) \/ Reproduce(j)
  <2>1. UNCHANGED <<pc, task, mem, sweeps>>
    BY <1>1 DEF Fetch, RebaseStart, RebaseEnd, Reproduce, triage
  <2>2. UNCHANGED labels \/ \E j, add, remove : Edit(j, add, remove) /\ add \in SUBSET {"rebased", "failed", "reproduced"}
    BY <1>1 DEF Fetch, RebaseStart, RebaseEnd, Reproduce, common
  <2>3. \A add \in SUBSET {"rebased", "failed", "reproduced"} : add \cap Postponement = {}
    BY DEF Postponement
  <2>4. labels'[i] \cap Postponement = {}
    BY <1>0, <2>2, <2>3, PostsStay
  <2> QED
    BY <2>1, <2>4, UnpostedRests DEF Unposted
<1>2. CASE Sweeping
  <2>1. labels'[i] = labels[i] /\ Unswept(i)'
    BY <1>2, SweepsPass DEF Unposted, Unswept
  <2> QED
    BY <1>2, <2>1, UnpostedRests DEF Sweeping, triage, Unposted, Unswept
<1>3. CASE Rescue
  <2>1. UNCHANGED <<pc, task, mem, sweeps>> /\ labels'[i] \in {{}, labels[i]}
    BY <1>3 DEF Rescue, triage
  <2> QED
    BY <1>0, <2>1, UnpostedRests DEF Unposted
<1>4. CASE Crash
  BY <1>4 DEF Crash, Unposted, On
<1>5. CASE UNCHANGED groupsVars
  BY <1>5, UnpostedRests DEF groupsVars, common, triage, Unposted
<1> QED
  BY <1>1, <1>2, <1>3, <1>4, <1>5

-----------------------------------------------------------------------------
LEMMA SetupStays == [GroupsNext]_groupsVars => UNCHANGED setup
<1>1. \A a \in Slot : Take(a) \/ Guard(a) \/ Stamp(a) \/ Analyse(a) \/ Consolidate(a) => UNCHANGED setup
  BY DEF Take, Guard, Stamp, Analyse, Consolidate, common
<1>2. \A a \in Slot : CheckCandidate(a) \/ LabelWaiting(a) \/ Comment(a) => UNCHANGED setup
  BY DEF CheckCandidate, LabelWaiting, Comment, common
<1>3. \A a \in Slot, c \in Issue : LabelSibling(a, c) \/ MarkSibling(a, c) \/ PushSibling(a, c) => UNCHANGED setup
  BY DEF LabelSibling, MarkSibling, PushSibling
<1>4. \A a \in Slot : LabelResult(a) \/ CheckPrimary(a) \/ CheckSiblings(a) \/ ReleasePrimary(a) => UNCHANGED setup
  BY DEF LabelResult, CheckPrimary, CheckSiblings, ReleasePrimary, common
<1>5. \A a \in Slot : PushPrimary(a) \/ Dispatch(a) \/ Retry(a) => UNCHANGED setup
  BY DEF PushPrimary, Dispatch, Retry, common
<1>6. \A a \in Slot : ProcessTask(a) => UNCHANGED setup
  BY <1>1, <1>2, <1>3, <1>4, <1>5 DEF ProcessTask
<1>7. \A i \in Issue : Fetch(i) \/ RebaseStart(i) \/ RebaseEnd(i) \/ Reproduce(i) => UNCHANGED setup
  BY DEF Fetch, RebaseStart, RebaseEnd, Reproduce, common
<1>8. Sweeping \/ Rescue \/ Crash \/ UNCHANGED groupsVars => UNCHANGED setup
  BY DEF Sweeping, SweepStep, SweepStart, SweepIssue, SweepProgress, SweepRemove, SweepDies, BlockerSettles,
         Rescue, Crash, groupsVars, common
<1> QED
  BY <1>6, <1>7, <1>8 DEF GroupsNext

LEMMA OnceInit == GroupsInit => OnceInv
<1> SUFFICES ASSUME GroupsInit
             PROVE  OnceInv
  OBVIOUS
<1>1. \A i \in Issue : Unposted(i) /\ Counted(i)
  BY DEF GroupsInit, SweepsInit, Between, Unposted, Counted, Rebases, Sends, On
<1> QED
  BY <1>1, TypesInit, JudgedInit DEF OnceInv

LEMMA OnceNext == OnceInv /\ [GroupsNext]_groupsVars => OnceInv'
<1> SUFFICES ASSUME OnceInv, [GroupsNext]_groupsVars
             PROVE  OnceInv'
  OBVIOUS
<1>1. GroupTypes' /\ Judged'
  BY TypesNext, JudgedNext DEF OnceInv
<1>2. ASSUME NEW i \in Issue, Steady(i)'
      PROVE  Unposted(i)' /\ Counted(i)'
  <2>1. GroupTypes /\ Judged /\ Steady(i) /\ Unposted(i) /\ Counted(i)
    BY <1>2, SetupStays DEF OnceInv, Steady
  <2>2. CASE \E a \in Slot : ProcessTask(a)
    BY <2>1, <2>2, UnpostedProcess, OnceProcess
  <2>3. CASE \/ \E j \in Issue : Fetch(j) \/ RebaseStart(j) \/ RebaseEnd(j) \/ Reproduce(j)
             \/ Sweeping \/ Rescue \/ Crash \/ UNCHANGED groupsVars
    BY <2>1, <2>3, UnpostedOthers, OnceOthers
  <2> QED
    BY <2>2, <2>3 DEF GroupsNext
<1> QED
  BY <1>1, <1>2 DEF OnceInv

(* The invariant behind the theorems about groups: the types, what a slot     *)
(* knows where it is, and why a steady issue is not rebased twice.            *)
THEOREM GroupsInvariant == GroupsSpec => []OnceInv
<1> QED
  BY OnceInit, OnceNext, PTL DEF GroupsSpec

(* The variables of the rebase groups have their types, and the lock of an    *)
(* issue is held by the slot that works on it.                                *)
THEOREM GroupsTyped == GroupsSpec => []GroupsTypeOK
<1>1. OnceInv => GroupsTypeOK
  BY DEF OnceInv, GroupTypes, CountTypes, JiraTypes, SweepType, MarkerTypes, SlotTypes, On, GroupsTypeOK
<1> QED
  BY <1>1, GroupsInvariant, PTL

(* No issue that triage never postpones is in the rebase queue, or with the   *)
(* rebase agent, more than once: however many slots triage it, whatever       *)
(* fails, and however often its siblings release it.                          *)
THEOREM SteadyRebasedOnce == GroupsSpec => [](\A i \in Issue : Steady(i) => Rebases(i) <= 1)
<1>1. OnceInv => \A i \in Issue : Steady(i) => Rebases(i) <= 1
  BY DEF OnceInv, Counted
<1> QED
  BY <1>1, GroupsInvariant, PTL

(* So where nothing is postponed nobody is rebased twice.                     *)
THEOREM GroupsRebaseOnce == GroupsSpec => []((\A i \in Issue : Steady(i)) => OneRebase)
<1>1. OnceInv => ((\A i \in Issue : Steady(i)) => OneRebase)
  BY DEF OnceInv, Counted, OneRebase, Rebases
<1> QED
  BY <1>1, GroupsInvariant, PTL

-----------------------------------------------------------------------------
(* The barrier: its initial state, and what makes a step one of its steps.    *)
LEMMA BarrierInit == GroupsInit => Barrier!Init
<1> SUFFICES ASSUME GroupsInit
             PROVE  Barrier!Init
  OBVIOUS
<1>1. \A p \in Issue : Invited(p) = {}
  BY DEF GroupsInit, Invited, Range
<1> QED
  BY <1>1 DEF GroupsInit, Barrier!Init, Undecided, Needing, Sure

(* What the barrier sees. *)
barrierVars == <<[p \in Issue |-> Undecided(p)], [p \in Issue |-> Needing(p)], merged, Sure>>
Alike == \A p \in Issue : Undecided(p)' = Undecided(p) /\ Needing(p)' = Needing(p)

LEMMA BarrierRests ==
    ASSUME Alike, UNCHANGED <<merged, setup>>
    PROVE  UNCHANGED barrierVars
  BY DEF Alike, barrierVars, Sure

LEMMA BarrierInvite ==
    ASSUME NEW p \in Issue, NEW c \in Issue, c # p, c \notin Needing(p),
           \A q \in Issue : Undecided(q)' = (IF q = p THEN Undecided(q) \cup {c} ELSE Undecided(q)) /\ Needing(q)' = Needing(q),
           UNCHANGED <<merged, setup>>
    PROVE  Barrier!Next
<1>1. Barrier!Invite(p, c)
  BY DEF Barrier!Invite, Sure
<1> QED
  BY <1>1 DEF Barrier!Next

LEMMA BarrierDecide ==
    ASSUME NEW p \in Issue, NEW c \in Undecided(p),
           \A q \in Issue : Undecided(q)' = Undecided(q) \ {c},
           \/ \A q \in Issue : Needing(q)' = Needing(q)
           \/ \A q \in Issue : Needing(q)' = Needing(q) \cup (Undecided(q) \cap {c}),
           UNCHANGED <<merged, setup>>
    PROVE  Barrier!Next
<1>1. c \in Issue
  BY DEF Undecided, Invited
<1>2. Barrier!Decide(c)
  BY DEF Barrier!Decide, Sure
<1> QED
  BY <1>1, <1>2 DEF Barrier!Next

LEMMA BarrierReconsider ==
    ASSUME NEW c \in Issue,
           \A q \in Issue : /\ Needing(q)' = Needing(q) \ {c}
                            /\ Undecided(q)' = Undecided(q) \cup (Needing(q) \cap {c}),
           UNCHANGED <<merged, setup>>
    PROVE  Barrier!Next
<1>1. Barrier!Reconsider({c})
  BY DEF Barrier!Reconsider, Sure
<1> QED
  BY <1>1 DEF Barrier!Next

LEMMA BarrierStart ==
    ASSUME NEW p \in Issue, Sure => Undecided(p) = {}, Alike, merged' = [merged EXCEPT ![p] = Needing(p)], UNCHANGED setup
    PROVE  Barrier!Next
<1>1. Barrier!Start(p)
  BY DEF Barrier!Start, Alike, Sure
<1> QED
  BY <1>1 DEF Barrier!Next

-----------------------------------------------------------------------------
(* One issue of the group is triaged by itself, the others are its siblings.  *)
Lone    == \A i, j \in setup.fetched : i = j
Outside == Issue \ setup.fetched
Invitees == {c \in Issue : markers[c] # <<>>}
After   == {"comment", "label", "dispatch"} \cup Checking

(* Marks are of siblings, by the primary; a primary is no sibling; an issue   *)
(* that is not marked yet was left alone; what a slot holds on to.            *)
MarkedBy ==
    \A i \in Issue : markers[i] = <<>> \/ (i \notin setup.fetched /\ \E q \in setup.fetched : markers[i] = <<q>>)
Heads ==
    \A i \in setup.fetched : "sibling" \notin labels[i] /\ \A a \in Slot : On(a, i) => ~mem[a].sib
Untouched(c) ==
    /\ labels[c] \subseteq {"sibling"} /\ c \notin reproq /\ Tasks(c) = {}
    /\ \A a \in Slot : ~On(a, c)
    /\ \A k \in Postponement : c \notin sweeps[k].todo \cup sweeps[k].issue
Outsider(c) ==
    /\ rebaseq[c] = 0 /\ c \notin rebasing /\ "waiting" \notin labels[c]
    /\ c \notin Invitees => Untouched(c)
Hand(a) ==
    /\ pc[a] \in Collecting => I(a) \in setup.fetched
    /\ mem[a].next \cap setup.fetched = {} /\ mem[a].cand \cap setup.fetched = {}
    /\ pc[a] = "push" => mem[a].next \subseteq Invitees
    /\ pc[a] # "idle" /\ I(a) \notin setup.fetched =>
         /\ "waiting" \notin mem[a].cur /\ ~mem[a].wait
         /\ pc[a] \in After => mem[a].sib
         /\ pc[a] = "stamp" => mem[a].cur \cap Deciding = labels[I(a)] \cap Deciding
         /\ pc[a] \in {"analyse", "consolidate", "comment", "label", "retry"} => labels[I(a)] \cap Deciding = {}
GroupInv == MarkedBy /\ Heads /\ (\A c \in Outside : Outsider(c)) /\ \A a \in Slot : Hand(a)

LEMMA SetupFacts ==
    ASSUME GroupTypes
    PROVE  /\ setup.fetched \subseteq Issue /\ labels \in [Issue -> SUBSET Label] /\ queue \in Seq(Task)
           /\ pc \in [Slot -> Place] /\ mem \in [Slot -> MemType] /\ task \in [Slot -> Task \cup {NoTask}]
           /\ markers \in [Issue -> Seq(Issue)] /\ rebaseq \in [Issue -> Nat]
           /\ sweeps \in [Postponement -> SweepType]
  BY DEF GroupTypes, CountTypes, JiraTypes, SlotTypes, MarkerTypes, SetupType

(* A step of one slot leaves the others alone. *)
LEMMA OnlyOne ==
    ASSUME GroupTypes, NEW a \in Slot, ProcessTask(a)
    PROVE  /\ \A b \in Slot \ {a} : pc'[b] = pc[b] /\ task'[b] = task[b] /\ mem'[b] = mem[b]
           /\ pc[a] # "idle" => pc'[a] = "idle" \/ task'[a] = task[a]
           /\ UNCHANGED <<setup, sweeps>>
<1>1. pc \in [Slot -> Place] /\ mem \in [Slot -> MemType] /\ task \in [Slot -> Task \cup {NoTask}]
  BY SetupFacts
<1>2. CASE Take(a)
  BY <1>1, <1>2 DEF Take, SlotGoes
<1>3. CASE Guard(a) \/ Stamp(a) \/ Analyse(a) \/ Consolidate(a)
  BY <1>1, <1>3 DEF Guard, Stamp, Analyse, Consolidate, common, SlotGoes, Done
<1>4. CASE CheckCandidate(a) \/ LabelWaiting(a) \/ Comment(a)
  BY <1>1, <1>4 DEF CheckCandidate, LabelWaiting, Comment, common, SlotGoes
<1>5. CASE \E c \in Issue : LabelSibling(a, c) \/ MarkSibling(a, c) \/ PushSibling(a, c)
  BY <1>1, <1>5 DEF LabelSibling, MarkSibling, PushSibling, SlotGoes
<1>6. CASE LabelResult(a) \/ Dispatch(a) \/ Retry(a)
  BY <1>1, <1>6 DEF LabelResult, Dispatch, Retry, common, SlotGoes, Done
<1>7. CASE CheckPrimary(a) \/ CheckSiblings(a) \/ ReleasePrimary(a) \/ PushPrimary(a)
  BY <1>1, <1>7 DEF CheckPrimary, CheckSiblings, ReleasePrimary, PushPrimary, common, SlotGoes
<1> QED
  BY <1>2, <1>3, <1>4, <1>5, <1>6, <1>7 DEF ProcessTask

LEMMA EditEffect ==
    ASSUME GroupTypes, NEW x, NEW add, NEW remove, Edit(x, add, remove)
    PROVE  \A j \in Issue : labels'[j] = IF j = x THEN (labels[j] \ remove) \cup add ELSE labels[j]
  BY SetupFacts DEF Edit

(* What a slot does to labels: those of its own issue, the label of a sibling *)
(* and the waiting label of a primary.                                        *)
Coordination == {"sibling", "waiting"}
LEMMA LabelEffect ==
    ASSUME GroupTypes, Judged, NEW a \in Slot, ProcessTask(a), NEW j \in Issue
    PROVE  /\ "sibling" \in labels'[j] => "sibling" \in labels[j] \/ (pc[a] = "sibling" /\ j \in mem[a].next)
           /\ "waiting" \in labels'[j] => "waiting" \in labels[j] \/ (pc[a] = "candidates" /\ j = I(a))
           /\ ~On(a, j) => labels'[j] \ Coordination = labels[j] \ Coordination
<1> DEFINE Effect ==
           /\ "sibling" \in labels'[j] => "sibling" \in labels[j] \/ (pc[a] = "sibling" /\ j \in mem[a].next)
           /\ "waiting" \in labels'[j] => "waiting" \in labels[j] \/ (pc[a] = "candidates" /\ j = I(a))
           /\ ~On(a, j) => labels'[j] \ Coordination = labels[j] \ Coordination
<1>1. CASE UNCHANGED labels
  BY <1>1
<1>2. CASE Stamp(a)
  <2>1. labels'[j] = IF j = I(a) THEN (labels[j] \ (mem[a].cur \ {"in_progress", "waiting"})) \cup {"in_progress"} ELSE labels[j]
    BY <1>2, EditEffect DEF Stamp
  <2> QED
    BY <1>2, <2>1 DEF Stamp, On
<1>3. CASE LabelWaiting(a) /\ ~UNCHANGED labels
  <2>1. labels'[j] = IF j = I(a) THEN (labels[j] \ {}) \cup {"waiting"} ELSE labels[j]
    BY <1>3, EditEffect DEF LabelWaiting, BestEffort
  <2> QED
    BY <1>3, <2>1 DEF LabelWaiting, Coordination
<1>4. ASSUME NEW c \in Issue, LabelSibling(a, c) \/ MarkSibling(a, c), ~UNCHANGED labels
      PROVE  Effect
  <2>1. CASE LabelSibling(a, c)
    <3>1. labels'[j] = IF j = c THEN (labels[j] \ {}) \cup {"sibling"} ELSE labels[j]
      BY <1>4, <2>1, EditEffect DEF LabelSibling, BestEffort
    <3> QED
      BY <2>1, <3>1 DEF LabelSibling, Coordination
  <2>2. CASE MarkSibling(a, c)
    <3>1. labels'[j] = IF j = c THEN (labels[j] \ {"sibling"}) \cup {} ELSE labels[j]
      BY <1>4, <2>2, EditEffect DEF MarkSibling
    <3> QED
      BY <3>1 DEF Coordination
  <2> QED
    BY <1>4, <2>1, <2>2
<1>5. CASE LabelResult(a) /\ ~UNCHANGED labels
  <2>1. mem[a].res \in Resolution /\ pc[a] = "label"
    BY <1>5 DEF LabelResult, Judged, Fits
  <2>2. PICK add, remove :
          /\ Edit(I(a), add, remove)
          /\ \/ mem[a].res \in Postponement /\ add = {mem[a].res}
             \/ add = IF Waits(a) THEN {} ELSE {IF mem[a].res = "rebase" THEN "triaged_rebase" ELSE mem[a].res}
    BY <1>5 DEF LabelResult
  <2>3. "sibling" \notin add /\ "waiting" \notin add
    BY <2>1, <2>2 DEF Resolution, Postponement
  <2>4. labels'[j] = IF j = I(a) THEN (labels[j] \ remove) \cup add ELSE labels[j]
    BY <2>2, EditEffect
  <2> QED
    BY <2>1, <2>3, <2>4 DEF On
<1>6. CASE ReleasePrimary(a) /\ ~UNCHANGED labels
  <2>1. labels'[j] = IF j = Primary(I(a)) THEN (labels[j] \ {"waiting"}) \cup {} ELSE labels[j]
    BY <1>6, EditEffect DEF ReleasePrimary
  <2> QED
    BY <2>1 DEF Coordination
<1>7. CASE Retry(a) /\ ~UNCHANGED labels
  <2>1. labels'[j] = IF j = I(a) THEN (labels[j] \ {"in_progress"}) \cup {"errored"} ELSE labels[j]
    BY <1>7, EditEffect DEF Retry
  <2> QED
    BY <1>7, <2>1 DEF Retry, On
<1> QED
  BY <1>1, <1>2, <1>3, <1>4, <1>5, <1>6, <1>7
     DEF ProcessTask, Take, Guard, Analyse, Consolidate, CheckCandidate, Comment, PushSibling, CheckPrimary,
         CheckSiblings, PushPrimary, Dispatch, common

(* What a slot queues. *)
LEMMA QueueEffect ==
    ASSUME GroupTypes, NEW c \in Issue, Tasks(c) = {}
    PROVE  /\ \A t \in Task : LPush(t) /\ t.issue # c => Tasks(c)' = {}
           /\ queue # <<>> => Last(queue).issue # c /\ (queue' = Front(queue) => Tasks(c)' = {})
           /\ UNCHANGED queue => Tasks(c)' = {}
<1>1. queue \in Seq(Task) /\ \A k \in DOMAIN queue : queue[k].issue # c
  BY SetupFacts DEF Tasks
<1>2. ASSUME NEW t \in Task, LPush(t), t.issue # c
      PROVE  Tasks(c)' = {}
  <2>1. /\ Len(<<t>> \o queue) = 1 + Len(queue)
        /\ \A k \in 1 .. (1 + Len(queue)) : (<<t>> \o queue)[k] = IF k <= 1 THEN t ELSE queue[k - 1]
    BY <1>1
  <2>2. \A k \in DOMAIN queue' : queue'[k].issue # c
    BY <1>1, <1>2, <2>1 DEF LPush
  <2> QED
    BY <2>2 DEF Tasks
<1>3. ASSUME queue # <<>>
      PROVE  Last(queue).issue # c /\ (queue' = Front(queue) => Tasks(c)' = {})
  <2>1. Len(queue) \in Nat \ {0} /\ Len(queue) \in DOMAIN queue
    BY <1>1, <1>3
  <2>2. Last(queue).issue # c
    BY <1>1, <2>1 DEF Last
  <2>3. ASSUME queue' = Front(queue)
        PROVE  Tasks(c)' = {}
    <3>1. DOMAIN queue' \subseteq DOMAIN queue /\ \A k \in DOMAIN queue' : queue'[k] = queue[k]
      BY <1>1, <2>1, <2>3 DEF Front
    <3> QED
      BY <1>1, <3>1 DEF Tasks
  <2> QED
    BY <2>2, <2>3
<1>4. UNCHANGED queue => Tasks(c)' = {}
  BY DEF Tasks
<1> QED
  BY <1>2, <1>3, <1>4

(* A sibling is marked once, with its primary. *)
LEMMA MarkEffect ==
    ASSUME GroupTypes, Judged, Lone, GroupInv, NEW a \in Slot, ProcessTask(a), ~UNCHANGED markers
    PROVE  \E c \in Outside \ Invitees :
              /\ MarkSibling(a, c) /\ mem[a].next = {c} /\ pc'[a] = "push" /\ UNCHANGED <<labels, mem>>
              /\ I(a) \in setup.fetched
              /\ markers' = [markers EXCEPT ![c] = <<I(a)>>]
<1>1. PICK c \in Issue : MarkSibling(a, c)
  BY DEF ProcessTask, Take, Guard, Stamp, Analyse, Consolidate, CheckCandidate, LabelWaiting, Comment, LabelSibling,
         PushSibling, LabelResult, CheckPrimary, CheckSiblings, ReleasePrimary, PushPrimary, Dispatch, Retry
<1>2. /\ markers' = [markers EXCEPT ![c] = IF I(a) \in Range(@) THEN @ ELSE Append(@, I(a))]
      /\ SlotGoes(a, "push") /\ UNCHANGED <<labels, mem>>
  BY <1>1 DEF MarkSibling
<1>3. /\ I(a) \in setup.fetched /\ c \in mem[a].next /\ c \notin setup.fetched /\ pc[a] = "marker" /\ mem[a].next = {c}
  BY <1>1 DEF MarkSibling, Collecting, GroupInv, Hand, Judged, Fits
<1>4. c \notin Invitees
  <2>1. SUFFICES ASSUME c \in Invitees
                 PROVE  FALSE
    OBVIOUS
  <2>2. PICK q \in setup.fetched : markers[c] = <<q>>
    BY <2>1 DEF Invitees, GroupInv, MarkedBy
  <2>3. q = I(a)
    BY <1>3 DEF Lone
  <2>4. I(a) \in Range(markers[c])
    BY <2>2, <2>3 DEF Range
  <2>5. markers' = markers
    BY <1>2, <2>4, SetupFacts
  <2> QED
    BY <2>5
<1>5. markers[c] = <<>>
  BY <1>4 DEF Invitees
<1>6. I(a) \notin Range(markers[c]) /\ Append(markers[c], I(a)) = <<I(a)>>
  BY <1>5 DEF Range
<1>7. markers' = [markers EXCEPT ![c] = <<I(a)>>]
  BY <1>2, <1>6
<1>8. pc'[a] = "push"
  BY <1>2, SetupFacts DEF SlotGoes
<1> QED
  BY <1>1, <1>2, <1>3, <1>4, <1>7, <1>8 DEF Outside

LEMMA MarkedGrows ==
    ASSUME GroupTypes, Judged, Lone, GroupInv, NEW a \in Slot, ProcessTask(a)
    PROVE  Invitees \subseteq Invitees' /\ MarkedBy'
<1>0. UNCHANGED setup /\ markers \in [Issue -> Seq(Issue)]
  BY OnlyOne, SetupFacts
<1>1. CASE UNCHANGED markers
  BY <1>0, <1>1 DEF Invitees, GroupInv, MarkedBy
<1>2. CASE ~UNCHANGED markers
  <2>1. PICK c \in Outside \ Invitees : I(a) \in setup.fetched /\ markers' = [markers EXCEPT ![c] = <<I(a)>>]
    BY <1>2, MarkEffect
  <2>2. \A i \in Issue : markers'[i] = IF i = c THEN <<I(a)>> ELSE markers[i]
    BY <1>0, <2>1 DEF Outside
  <2>3. Invitees \subseteq Invitees'
    BY <2>2 DEF Invitees
  <2>4. MarkedBy'
    BY <1>0, <2>1, <2>2 DEF GroupInv, MarkedBy, Outside
  <2> QED
    BY <2>3, <2>4
<1> QED
  BY <1>1, <1>2

LEMMA HeadsStay ==
    ASSUME GroupTypes, Judged, Lone, GroupInv, NEW a \in Slot, ProcessTask(a)
    PROVE  Heads'
<1>0. UNCHANGED setup /\ setup.fetched \subseteq Issue
  BY OnlyOne, SetupFacts
<1> SUFFICES ASSUME NEW i \in setup.fetched
             PROVE  "sibling" \notin labels'[i] /\ \A b \in Slot : On(b, i)' => ~mem'[b].sib
  BY <1>0 DEF Heads
<1>1. "sibling" \notin labels'[i]
  <2>1. "sibling" \notin labels[i] /\ i \notin mem[a].next /\ i \in Issue
    BY <1>0 DEF GroupInv, Heads, Hand
  <2> QED
    BY <2>1, LabelEffect
<1>2. \A b \in Slot \ {a} : On(b, i)' => ~mem'[b].sib
  BY OnlyOne DEF On, I, GroupInv, Heads
<1>3. ASSUME On(a, i)'
      PROVE  ~mem'[a].sib
  <2>0. /\ pc[a] # "idle" => On(a, i)
    BY <1>3, OnlyOne DEF On, I
  <2>1. pc[a] # "idle" => ~mem[a].sib /\ I(a) = i /\ mem[a] \in MemType
    BY <2>0, SlotIssue DEF On, GroupInv, Heads
  <2>2. mem \in [Slot -> MemType] /\ pc \in [Slot -> Place] /\ markers[i] = <<>> /\ "sibling" \notin labels[i]
    BY SetupFacts DEF GroupInv, Heads, MarkedBy
  <2>3. CASE UNCHANGED mem
    BY <2>1, <2>2, <2>3 DEF Judged, Fits, Forgotten
  <2>4. CASE Done(a)
    BY <2>2, <2>4 DEF Done, Forgotten
  <2>5. CASE Guard(a) /\ ~Done(a)
    <3>1. mem' = [mem EXCEPT ![a].cur = labels[I(a)]] /\ pc[a] # "idle"
      BY <2>5 DEF Guard
    <3> QED
      BY <2>1, <2>2, <3>1 DEF MemType
  <2>6. CASE Analyse(a) /\ ~UNCHANGED mem
    <3>1. PICK r : mem' = [mem EXCEPT ![a] = [mem[a] EXCEPT !.res = r,
                                   !.sib = markers[I(a)] # <<>>,
                                   !.wait = "waiting" \in labels[I(a)]]]
      BY <2>6 DEF Analyse
    <3>2. mem'[a] = [mem[a] EXCEPT !.res = r, !.sib = markers[I(a)] # <<>>, !.wait = "waiting" \in labels[I(a)]]
      BY <2>2, <3>1
    <3>3. pc[a] # "idle" /\ (markers[I(a)] # <<>>) = FALSE
      BY <2>1, <2>2, <2>6 DEF Analyse
    <3>4. mem'[a].sib = FALSE
      BY <2>1, <3>2, <3>3 DEF MemType
    <3> QED
      BY <3>4
  <2>7. CASE (Consolidate(a) \/ CheckCandidate(a) \/ LabelWaiting(a)) /\ ~UNCHANGED mem
    <3>1. ~mem[a].sib /\ I(a) = i /\ mem[a] \in MemType
      BY <2>1, <2>7 DEF Consolidate, CheckCandidate, LabelWaiting
    <3>2. CASE Consolidate(a)
      <4>1. mem' = [mem EXCEPT ![a].cand = Candidates(I(a))]
        BY <2>2, <3>1, <3>2 DEF Consolidate
      <4> QED
        BY <2>2, <3>1, <4>1 DEF MemType
    <3>3. CASE CheckCandidate(a)
      <4>1. PICK x \in mem[a].cand :
               \/ mem' = [mem EXCEPT ![a].cand = @ \ {x}]
               \/ mem' = [mem EXCEPT ![a] = [mem[a] EXCEPT !.cand = @ \ {x}, !.next = {x}]]
        BY <3>3 DEF CheckCandidate
      <4> QED
        BY <2>2, <3>1, <4>1 DEF MemType
    <3>4. CASE LabelWaiting(a)
      <4>1. mem' = [mem EXCEPT ![a].wait = TRUE]
        BY <2>7, <3>4 DEF LabelWaiting
      <4> QED
        BY <2>2, <3>1, <4>1 DEF MemType
    <3> QED
      BY <2>7, <3>2, <3>3, <3>4
  <2>8. ASSUME NEW c \in Issue, MarkSibling(a, c) \/ PushSibling(a, c), ~UNCHANGED mem
        PROVE  ~mem'[a].sib
    <3>1. PICK m : mem' = [mem EXCEPT ![a] = m] /\ ((\E y : m = [mem[a] EXCEPT !.next = y])
                \/ m = [mem[a] EXCEPT !.next = {}, !.count = 1])
      BY <2>8 DEF MarkSibling, PushSibling
    <3>2. pc[a] # "idle"
      BY <2>8 DEF MarkSibling, PushSibling
    <3> QED
      BY <2>1, <2>2, <3>1, <3>2 DEF MemType
  <2> QED
    BY <2>3, <2>4, <2>5, <2>6, <2>7, <2>8
       DEF ProcessTask, Take, Stamp, Comment, LabelSibling, LabelResult, CheckPrimary, CheckSiblings, ReleasePrimary,
           PushPrimary, Dispatch, Retry
<1> QED
  BY <1>1, <1>2, <1>3

LEMMA OutsidersStay ==
    ASSUME GroupTypes, Judged, Lone, GroupInv, NEW a \in Slot, ProcessTask(a), NEW c \in Outside
    PROVE  Outsider(c)'
<1>0. UNCHANGED <<setup, sweeps>> /\ c \in Issue /\ c \notin setup.fetched /\ Outsider(c)
  BY OnlyOne DEF Outside, GroupInv
<1>a. setup.fetched \subseteq Issue /\ rebaseq \in [Issue -> Nat] /\ Hand(a)
  BY SetupFacts DEF GroupInv
<1>1. UNCHANGED rebasing /\ rebaseq'[c] = rebaseq[c]
  <2>1. CASE UNCHANGED <<rebaseq, rebasing>>
    BY <2>1
  <2>2. CASE Dispatch(a)
    <3>1. I(a) = c => mem[a].sib
      BY <1>0, <1>a, <2>2 DEF Dispatch, Hand, After
    <3>2. (rebaseq' = [rebaseq EXCEPT ![I(a)] = @ + 1] /\ ~mem[a].sib) \/ UNCHANGED rebaseq
      BY <2>2 DEF Dispatch
    <3>3. rebaseq'[c] = rebaseq[c]
      BY <1>0, <1>a, <3>1, <3>2
    <3> QED
      BY <2>2, <3>3 DEF Dispatch
  <2> QED
    BY <2>1, <2>2
       DEF ProcessTask, Take, Guard, Stamp, Analyse, Consolidate, CheckCandidate, LabelWaiting, Comment, LabelSibling,
           MarkSibling, PushSibling, LabelResult, CheckPrimary, CheckSiblings, ReleasePrimary, PushPrimary, Retry, rebase
<1>2. "waiting" \notin labels'[c]
  BY <1>0, <1>a, LabelEffect DEF Outsider, Hand, Collecting
<1>3. ASSUME c \notin Invitees'
      PROVE  Untouched(c)'
  <2>1. Untouched(c)
    BY <1>0, <1>3, MarkedGrows DEF Outsider
  <2>2. ~On(a, c) /\ labels[c] \subseteq {"sibling"}
    BY <2>1 DEF Untouched
  <2>3. labels'[c] \subseteq {"sibling"}
    BY <1>0, <1>2, <2>2, LabelEffect DEF Coordination
  <2>4. c \notin reproq'
    <3>1. CASE UNCHANGED reproq
      BY <2>1, <3>1 DEF Untouched
    <3>2. CASE Dispatch(a)
      BY <2>1, <2>2, <3>2 DEF Dispatch, Untouched, On
    <3> QED
      BY <3>1, <3>2
         DEF ProcessTask, Take, Guard, Stamp, Analyse, Consolidate, CheckCandidate, LabelWaiting, Comment, LabelSibling,
             MarkSibling, PushSibling, LabelResult, CheckPrimary, CheckSiblings, ReleasePrimary, PushPrimary, Retry, rebase
  <2>5. Tasks(c)' = {}
    <3>1. Tasks(c) = {}
      BY <2>1 DEF Untouched
    <3>2. CASE UNCHANGED queue
      BY <1>0, <3>1, <3>2, QueueEffect
    <3>3. CASE Take(a)
      BY <1>0, <3>1, <3>3, QueueEffect DEF Take
    <3>4. ASSUME NEW x \in Issue, PushSibling(a, x)
          PROVE  Tasks(c)' = {}
      <4>1. x # c
        BY <1>3, <1>a, <3>4, MarkedGrows DEF PushSibling, Hand
      <4>2. Fresh(x) \in Task /\ Fresh(x).issue # c /\ LPush(Fresh(x))
        BY <3>4, <4>1, FreshTask DEF Fresh, PushSibling
      <4> QED
        BY <1>0, <3>1, <4>2, QueueEffect
    <3>5. CASE PushPrimary(a)
      <4>1. Primary(I(a)) \in setup.fetched /\ Primary(I(a)) \in Issue
        BY <1>a, <3>5, PrimaryIssue DEF PushPrimary, GroupInv, MarkedBy, Primary
      <4>2. Fresh(Primary(I(a))) \in Task /\ Fresh(Primary(I(a))).issue # c /\ LPush(Fresh(Primary(I(a))))
        BY <1>0, <3>5, <4>1, FreshTask DEF Fresh, PushPrimary
      <4> QED
        BY <1>0, <3>1, <4>2, QueueEffect
    <3>6. CASE Retry(a) /\ ~UNCHANGED queue
      <4> DEFINE again == [task[a] EXCEPT !.attempts = @ + 1]
      <4>1. task[a] \in Task /\ I(a) # c /\ again.attempts < MaxRetries /\ LPush(again)
        BY <2>2, <3>6, SlotIssue DEF Retry, On
      <4>2. again \in Task /\ again.issue # c
        BY <4>1, GroupFacts DEF Task, I
      <4> QED
        BY <1>0, <3>1, <4>1, <4>2, QueueEffect
    <3> QED
      BY <3>2, <3>3, <3>4, <3>5, <3>6
         DEF ProcessTask, Guard, Stamp, Analyse, Consolidate, CheckCandidate, LabelWaiting, Comment, LabelSibling,
             MarkSibling, LabelResult, CheckPrimary, CheckSiblings, ReleasePrimary, Dispatch, common
  <2>6. \A b \in Slot : ~On(b, c)'
    <3>1. \A b \in Slot \ {a} : ~On(b, c)'
      BY <2>1, OnlyOne DEF Untouched, On, I
    <3>2. pc[a] # "idle" => ~On(a, c)'
      BY <2>2, OnlyOne DEF On, I
    <3>3. CASE Take(a)
      <4>1. Last(queue).issue # c
        BY <1>0, <2>1, <3>3, QueueEffect DEF Take, Untouched
      <4>2. (task'[a] = task[a] /\ UNCHANGED pc) \/ task'[a] = Last(queue)
        BY <3>3, SetupFacts DEF Take
      <4> QED
        BY <2>2, <3>1, <4>1, <4>2 DEF On, I
    <3>4. CASE pc[a] = "idle" /\ ~Take(a)
      BY <3>4 DEF ProcessTask, Guard, Stamp, Analyse, Consolidate, CheckCandidate, LabelWaiting, Comment, LabelSibling,
                  MarkSibling, PushSibling, LabelResult, CheckPrimary, CheckSiblings, ReleasePrimary, PushPrimary, Dispatch, Retry
    <3> QED
      BY <3>1, <3>2, <3>3, <3>4
  <2>7. \A k \in Postponement : c \notin sweeps'[k].todo \cup sweeps'[k].issue
    BY <1>0, <2>1 DEF Untouched
  <2> QED
    BY <2>3, <2>4, <2>5, <2>6, <2>7 DEF Untouched
<1> QED
  BY <1>0, <1>1, <1>2, <1>3 DEF Outsider

LEMMA OthersHands ==
    ASSUME GroupTypes, Judged, Lone, GroupInv, NEW a \in Slot, ProcessTask(a), NEW b \in Slot \ {a}
    PROVE  Hand(b)'
<1>1. Hand(b) /\ pc'[b] = pc[b] /\ mem'[b] = mem[b] /\ I(b)' = I(b) /\ UNCHANGED setup /\ Invitees \subseteq Invitees'
  BY OnlyOne, MarkedGrows DEF GroupInv, I
<1>2. ASSUME pc[b] # "idle"
      PROVE  labels'[I(b)] \cap Deciding = labels[I(b)] \cap Deciding
  <2>1. I(b) \in Issue /\ ~On(a, I(b))
    BY <1>2, SlotIssue DEF On, GroupTypes, SlotTypes
  <2>2. labels'[I(b)] \ Coordination = labels[I(b)] \ Coordination
    BY <2>1, LabelEffect
  <2> QED
    BY <2>2 DEF Coordination, Deciding
<1>3. pc[b] # "idle" => labels'[I(b)'] \cap Deciding = labels[I(b)] \cap Deciding
  BY <1>1, <1>2
<1> QED
  BY <1>1, <1>3 DEF Hand

(* The slot that acts. *)
LEMMA OwnHand ==
    ASSUME GroupTypes, Judged, Lone, GroupInv, NEW a \in Slot, ProcessTask(a)
    PROVE  Hand(a)'
<1>0. /\ mem \in [Slot -> MemType] /\ pc \in [Slot -> Place] /\ task \in [Slot -> Task \cup {NoTask}]
      /\ setup.fetched \subseteq Issue /\ labels \in [Issue -> SUBSET Label] /\ UNCHANGED setup
  BY SetupFacts, OnlyOne
<1>a. Hand(a) /\ Fits(pc[a], mem[a]) /\ (pc[a] # "idle" => I(a) \in Issue /\ mem[a] \in MemType)
  BY SlotIssue DEF GroupInv, Judged
<1>b. \A n \in Place : SlotGoes(a, n) => pc'[a] = n
  BY <1>0 DEF SlotGoes
<1>c. UNCHANGED task => I(a)' = I(a)
  BY DEF I
<1>1. CASE Take(a)
  <2>1. mem'[a] = Forgotten /\ pc'[a] \in {"idle", "guard"}
    BY <1>0, <1>1, <1>a DEF Take, SlotGoes, Fits
  <2> QED
    BY <2>1 DEF Hand, Forgotten, Collecting, After, Checking
<1>2. CASE Done(a)
  <2>1. mem'[a] = Forgotten /\ pc'[a] = "idle"
    BY <1>0, <1>2 DEF Done, SlotGoes
  <2> QED
    BY <2>1 DEF Hand, Forgotten, Collecting
<1>3. CASE Guard(a) /\ ~Done(a)
  <2>1. mem' = [mem EXCEPT ![a].cur = labels[I(a)]] /\ pc'[a] = "stamp" /\ pc[a] # "idle" /\ I(a)' = I(a)
        /\ UNCHANGED labels
    BY <1>3, <1>b, <1>c DEF Guard, Place, common
  <2>2. /\ mem'[a].cur = labels[I(a)] /\ mem'[a].wait = mem[a].wait
        /\ mem'[a].next = mem[a].next /\ mem'[a].cand = mem[a].cand
    BY <1>0, <1>a, <2>1 DEF MemType
  <2>3. I(a) \notin setup.fetched => "waiting" \notin labels[I(a)]
    BY <1>a, <2>1 DEF GroupInv, Outsider, Outside
  <2> QED
    BY <1>0, <1>a, <2>1, <2>2, <2>3 DEF Hand, Collecting, After, Checking
<1>4. CASE Stamp(a)
  <2>0. UNCHANGED mem /\ pc'[a] = "analyse" /\ pc[a] = "stamp" /\ I(a)' = I(a)
    BY <1>4, <1>b, <1>c DEF Stamp, Place
  <2>a. Edit(I(a), {"in_progress"}, mem[a].cur \ {"in_progress", "waiting"})
    BY <1>4 DEF Stamp
  <2>b. I(a) \in Issue
    BY <1>a, <2>0
  <2>c. labels'[I(a)] = (labels[I(a)] \ (mem[a].cur \ {"in_progress", "waiting"})) \cup {"in_progress"}
    BY <2>a, <2>b, EditEffect
  <2>1. /\ UNCHANGED mem /\ pc'[a] = "analyse" /\ pc[a] = "stamp" /\ I(a)' = I(a)
        /\ labels'[I(a)] = (labels[I(a)] \ (mem[a].cur \ {"in_progress", "waiting"})) \cup {"in_progress"}
    BY <2>0, <2>c
  <2>2. I(a) \notin setup.fetched => labels'[I(a)] \cap Deciding = {}
    BY <1>a, <2>1 DEF Hand, Deciding
  <2> QED
    BY <1>0, <1>a, <2>1, <2>2 DEF Hand, Collecting, After, Checking
<1>5. CASE Analyse(a)
  <2>1. /\ pc[a] = "analyse" /\ I(a)' = I(a) /\ UNCHANGED labels
    BY <1>5, <1>c DEF Analyse
  <2>2. CASE UNCHANGED mem /\ pc'[a] = "retry"
    BY <1>0, <1>a, <2>1, <2>2 DEF Hand, Collecting, After, Checking
  <2>3. CASE ~(UNCHANGED mem /\ pc'[a] = "retry")
    <3>1. PICK r : /\ mem' = [mem EXCEPT ![a] = [mem[a] EXCEPT !.res = r,
                                   !.sib = markers[I(a)] # <<>>,
                                   !.wait = "waiting" \in labels[I(a)]]]
                   /\ SlotGoes(a, IF r = "rebase" THEN "consolidate" ELSE "label")
      BY <1>5, <1>b, <2>3 DEF Analyse, Place
    <3>2. mem'[a] = [mem[a] EXCEPT !.res = r, !.sib = markers[I(a)] # <<>>, !.wait = "waiting" \in labels[I(a)]]
          /\ pc'[a] \in {"consolidate", "label"}
      BY <1>0, <1>b, <3>1 DEF Place
    <3>3. mem'[a].next = mem[a].next /\ mem'[a].cand = mem[a].cand /\ mem'[a].cur = mem[a].cur
      BY <1>a, <2>1, <3>2 DEF MemType
    <3>4. ASSUME I(a) \notin setup.fetched
          PROVE  ~mem'[a].wait /\ mem'[a].sib
      <4>1. I(a) \in Outside /\ On(a, I(a))
        BY <1>a, <2>1, <3>4 DEF Outside, On
      <4>2. ("waiting" \in labels[I(a)]) = FALSE /\ (markers[I(a)] # <<>>) = TRUE
        BY <4>1 DEF GroupInv, Outsider, Untouched, Invitees, Outside
      <4> QED
        BY <1>a, <2>1, <3>2, <4>2 DEF MemType
    <3> QED
      BY <1>0, <1>a, <2>1, <3>2, <3>3, <3>4 DEF Hand, Collecting, After, Checking
  <2> QED
    BY <2>2, <2>3
<1>6. CASE Consolidate(a)
  <2>1. /\ pc[a] = "consolidate" /\ I(a)' = I(a) /\ UNCHANGED labels
    BY <1>6, <1>c DEF Consolidate, common
  <2>2. CASE mem' = [mem EXCEPT ![a] = [mem[a] EXCEPT !.sib = TRUE, !.wait = FALSE]] /\ SlotGoes(a, "comment")
    <3>1. /\ mem'[a].sib /\ ~mem'[a].wait /\ mem'[a].cur = mem[a].cur
          /\ mem'[a].next = mem[a].next /\ mem'[a].cand = mem[a].cand /\ pc'[a] = "comment"
      BY <1>0, <1>a, <1>b, <2>1, <2>2 DEF MemType, Place
    <3> QED
      BY <1>0, <1>a, <2>1, <3>1 DEF Hand, Collecting, After, Checking
  <2>3. CASE mem' = [mem EXCEPT ![a].cand = Candidates(I(a))] /\ SlotGoes(a, "candidates") /\ markers[I(a)] = <<>>
    <3>1. /\ mem'[a].cand = Candidates(I(a)) /\ mem'[a].next = mem[a].next /\ pc'[a] = "candidates"
      BY <1>0, <1>a, <1>b, <2>1, <2>3 DEF MemType, Place
    <3>2. I(a) \in setup.fetched
      <4>1. SUFFICES ASSUME I(a) \notin setup.fetched
                     PROVE  FALSE
        OBVIOUS
      <4>2. I(a) \in Outside \ Invitees /\ On(a, I(a))
        BY <1>a, <2>1, <2>3, <4>1 DEF Outside, On, Invitees
      <4> QED
        BY <4>2 DEF GroupInv, Outsider, Untouched
    <3>3. Candidates(I(a)) \cap setup.fetched = {}
      BY <3>2 DEF Candidates, Lone
    <3> QED
      BY <1>0, <1>a, <2>1, <3>1, <3>2, <3>3 DEF Hand, Collecting, After, Checking
  <2> QED
    BY <1>6, <2>2, <2>3 DEF Consolidate
<1>7. CASE CheckCandidate(a)
  <2>1. /\ pc[a] = "candidates" /\ I(a)' = I(a) /\ I(a) \in setup.fetched
    BY <1>7, <1>a, <1>c DEF CheckCandidate, Hand, Collecting
  <2>2. PICK c \in mem[a].cand :
          \/ mem' = [mem EXCEPT ![a].cand = @ \ {c}] /\ UNCHANGED pc
          \/ SlotGoes(a, "sibling") /\ mem' = [mem EXCEPT ![a] = [mem[a] EXCEPT !.cand = @ \ {c}, !.next = {c}]]
    BY <1>7 DEF CheckCandidate
  <2>3. /\ pc'[a] \in {"candidates", "sibling"}
        /\ mem'[a].cand \subseteq mem[a].cand /\ mem'[a].next \subseteq mem[a].next \cup {c}
    <3>a. mem[a] \in MemType
      BY <1>a, <2>1
    <3> DEFINE fewer == mem[a].cand \ {c}
    <3>b. CASE mem' = [mem EXCEPT ![a].cand = @ \ {c}] /\ UNCHANGED pc
      <4>1. mem' = [mem EXCEPT ![a] = [mem[a] EXCEPT !.cand = fewer]]
        BY <3>b
      <4>2. mem'[a] = [mem[a] EXCEPT !.cand = fewer] /\ fewer \subseteq mem[a].cand
        BY <1>0, <4>1
      <4> HIDE DEF fewer
      <4>3. mem'[a].cand = fewer /\ mem'[a].next = mem[a].next
        BY <3>a, <4>2 DEF MemType
      <4> QED
        BY <2>1, <3>b, <4>2, <4>3
    <3>c. CASE SlotGoes(a, "sibling") /\ mem' = [mem EXCEPT ![a] = [mem[a] EXCEPT !.cand = @ \ {c}, !.next = {c}]]
      <4>1. pc'[a] = "sibling"
        BY <1>b, <3>c DEF Place
      <4>2. mem'[a] = [mem[a] EXCEPT !.cand = fewer, !.next = {c}] /\ fewer \subseteq mem[a].cand
        BY <1>0, <3>c
      <4> HIDE DEF fewer
      <4>3. mem'[a].cand = fewer /\ mem'[a].next = {c}
        BY <3>a, <4>2 DEF MemType
      <4> QED
        BY <4>1, <4>2, <4>3
    <3> QED
      BY <2>2, <3>b, <3>c
  <2> QED
    BY <1>0, <1>a, <2>1, <2>2, <2>3 DEF Hand, Collecting
<1>8. ASSUME NEW c \in Issue, LabelSibling(a, c) \/ MarkSibling(a, c) \/ PushSibling(a, c)
      PROVE  Hand(a)'
  <2>1. /\ pc[a] \in {"sibling", "marker", "push"} /\ I(a)' = I(a) /\ I(a) \in setup.fetched /\ mem[a].next = {c}
    BY <1>8, <1>a, <1>c DEF LabelSibling, MarkSibling, PushSibling, Hand, Collecting, Fits
  <2>2. mem'[a].cand = mem[a].cand /\ mem'[a].next \subseteq mem[a].next
    <3>1. mem[a] \in MemType
      BY <1>a, <2>1
    <3>2. CASE UNCHANGED mem
      BY <3>2
    <3>3. CASE mem' = [mem EXCEPT ![a].next = {}]
      <4>1. mem' = [mem EXCEPT ![a] = [mem[a] EXCEPT !.next = {}]]
        BY <3>3
      <4> QED
        BY <1>0, <3>1, <4>1 DEF MemType
    <3>4. CASE mem' = [mem EXCEPT ![a] = [mem[a] EXCEPT !.next = {}, !.count = 1]]
      BY <1>0, <3>1, <3>4 DEF MemType
    <3> QED
      BY <1>8, <3>2, <3>3, <3>4 DEF LabelSibling, MarkSibling, PushSibling
  <2>3. pc'[a] \in Collecting /\ (pc'[a] = "push" => MarkSibling(a, c) /\ UNCHANGED mem)
    BY <1>8, <1>b DEF LabelSibling, MarkSibling, PushSibling, Place, Collecting
  <2>4. pc'[a] = "push" => c \in Invitees'
    <3>1. SUFFICES ASSUME pc'[a] = "push"
                   PROVE  markers'[c] # <<>>
      BY DEF Invitees
    <3>2. markers' = [markers EXCEPT ![c] = IF I(a) \in Range(@) THEN @ ELSE Append(@, I(a))]
      BY <1>b, <2>3, <3>1 DEF MarkSibling, Place
    <3> QED
      BY <1>0, <2>1, <3>2, MarkersGrow DEF GroupTypes
  <2> QED
    BY <1>0, <1>a, <2>1, <2>2, <2>3, <2>4 DEF Hand, Collecting, After, Checking
<1>9. CASE LabelWaiting(a)
  <2>1. pc'[a] = "comment" /\ I(a)' = I(a) /\ I(a) \in setup.fetched
    BY <1>9, <1>a, <1>b, <1>c DEF LabelWaiting, Place, Hand, Collecting
  <2>2. mem'[a].cand = mem[a].cand /\ mem'[a].next = mem[a].next
    BY <1>0, <1>9, <1>a DEF LabelWaiting, MemType
  <2> QED
    BY <1>0, <1>a, <2>1, <2>2 DEF Hand, Collecting
<1>10. CASE Comment(a)
  <2>1. pc[a] = "comment" /\ pc'[a] \in {"label", "retry"} /\ I(a)' = I(a) /\ UNCHANGED <<mem, labels>>
    BY <1>10, <1>b, <1>c DEF Comment, Place
  <2> QED
    BY <1>0, <1>a, <2>1 DEF Hand, Collecting, After, Checking
<1>11. CASE LabelResult(a) /\ ~Done(a)
  <2>1. pc[a] = "label" /\ pc'[a] = (IF mem[a].sib THEN "check" ELSE "dispatch") /\ I(a)' = I(a) /\ UNCHANGED mem
    BY <1>11, <1>b, <1>c DEF LabelResult, Place
  <2> QED
    BY <1>0, <1>a, <2>1 DEF Hand, Collecting, After, Checking
<1>12. CASE CheckPrimary(a) \/ CheckSiblings(a) \/ ReleasePrimary(a) \/ PushPrimary(a)
  <2>1. /\ pc[a] \in Checking /\ pc'[a] \in {"siblings", "unwait", "primary", "dispatch"}
        /\ I(a)' = I(a) /\ UNCHANGED mem
    BY <1>12, <1>b, <1>c DEF CheckPrimary, CheckSiblings, ReleasePrimary, PushPrimary, Place, Checking
  <2> QED
    BY <1>0, <1>a, <2>1 DEF Hand, Collecting, After, Checking
<1> QED
  BY <1>1, <1>2, <1>3, <1>4, <1>5, <1>6, <1>7, <1>8, <1>9, <1>10, <1>11, <1>12 DEF ProcessTask, Dispatch, Retry

(* Steps of the others. *)
-----------------------------------------------------------------------------
(* The steps of others, and the group as a whole. *)
LEMMA SweptTasks ==
    ASSUME GroupTypes, NEW c \in Issue, Unswept(c), Sweeping, Tasks(c) = {}
    PROVE  Tasks(c)' = {}
<1>1. UNCHANGED queue => Tasks(c)' = {}
  BY QueueEffect
<1>2. ASSUME NEW k \in Postponement, NEW j \in Issue, SweepIssue(k, j), ~UNCHANGED queue
      PROVE  Tasks(c)' = {}
  <2>1. LPush(Fresh(j)) /\ j # c
    BY <1>2 DEF SweepIssue, Unswept
  <2>2. Fresh(j) \in Task /\ Fresh(j).issue # c
    BY <2>1, FreshTask DEF Fresh
  <2> QED
    BY <2>1, <2>2, QueueEffect
<1> QED
  BY <1>1, <1>2 DEF Sweeping, SweepStep, SweepStart, SweepProgress, SweepRemove, SweepDies, BlockerSettles

LEMMA SweptLabels ==
    ASSUME GroupTypes, Sweeping, NEW j \in Issue
    PROVE  labels'[j] \ (Postponement \cup {"in_progress"}) = labels[j] \ (Postponement \cup {"in_progress"})
<1>1. ASSUME NEW k \in Postponement, NEW i \in Issue, SweepIssue(k, i) \/ SweepProgress(k, i) \/ SweepRemove(k, i)
      PROVE  \/ UNCHANGED labels
             \/ \E add \in SUBSET (Postponement \cup {"in_progress"}) : \E remove \in SUBSET Postponement : Edit(i, add, remove)
  <2>1. SweepIssue(k, i) => UNCHANGED labels \/ Edit(i, {"no_patch"}, {})
    BY DEF SweepIssue
  <2>2. SweepProgress(k, i) => UNCHANGED labels \/ Edit(i, {"in_progress"}, {})
    BY DEF SweepProgress
  <2>3. SweepRemove(k, i) => UNCHANGED labels \/ Edit(i, {}, {k})
    BY DEF SweepRemove
  <2>4. {"no_patch"} \subseteq Postponement
    BY DEF Postponement
  <2> QED
    BY <1>1, <2>1, <2>2, <2>3, <2>4
<1>2. UNCHANGED labels \/ \E i \in Issue, add \in SUBSET (Postponement \cup {"in_progress"}), remove \in SUBSET Postponement :
         Edit(i, add, remove)
  BY <1>1 DEF Sweeping, SweepStep, SweepStart, SweepDies, BlockerSettles
<1>3. ASSUME NEW i \in Issue, NEW add \in SUBSET (Postponement \cup {"in_progress"}),
             NEW remove \in SUBSET Postponement, Edit(i, add, remove)
      PROVE  labels'[j] \ (Postponement \cup {"in_progress"}) = labels[j] \ (Postponement \cup {"in_progress"})
  <2>1. labels'[j] = IF j = i THEN (labels[j] \ remove) \cup add ELSE labels[j]
    BY <1>3, EditEffect
  <2> QED
    BY <2>1
<1> QED
  BY <1>2, <1>3

(* Their rescue is nothing to an issue that is not fetched. *)
LEMMA RescueEffect ==
    ASSUME GroupTypes, Rescue
    PROVE  /\ \A j \in Issue : labels'[j] = labels[j] \/ (labels'[j] = {} /\ j \in Abandoned)
           /\ Abandoned \subseteq setup.fetched /\ UNCHANGED <<setup, sweeps, triage, rebase>>
           /\ \A a \in Slot : pc[a] = "idle"
           /\ \A c \in Issue \ setup.fetched : Tasks(c)' = {}
<1>1. Abandoned \subseteq setup.fetched /\ UNCHANGED <<setup, sweeps, triage, rebase>> /\ \A a \in Slot : pc[a] = "idle"
  BY DEF Rescue, Abandoned, Quiet
<1>2. \A j \in Issue : labels'[j] = labels[j] \/ (labels'[j] = {} /\ j \in Abandoned)
  BY DEF Rescue
<1>3. ASSUME NEW c \in Issue \ setup.fetched
      PROVE  Tasks(c)' = {}
  <2> DEFINE S == {Fresh(i) : i \in Abandoned}
  <2>1. S \subseteq Task /\ \A t \in S : t.issue # c
    BY <1>1, FreshTask, SetupFacts DEF Fresh
  <2>2. IsFiniteSet(S)
    BY AbandonedTasks
  <2>3. queue' \in Seq(Task) /\ Range(queue') \subseteq S
    BY <2>1, <2>2, ListOfTasks DEF Rescue
  <2>4. \A k \in DOMAIN queue' : queue'[k] \in S
    BY <2>3 DEF Range
  <2> QED
    BY <2>1, <2>4 DEF Tasks
<1> QED
  BY <1>1, <1>2, <1>3

LEMMA GroupRests ==
    ASSUME GroupTypes, GroupInv, UNCHANGED triage, UNCHANGED setup,
           \A j \in Issue : labels'[j] \cap Coordination \subseteq labels[j],
           \A c \in Outside : /\ labels'[c] \cap Deciding = labels[c] \cap Deciding
                              /\ rebaseq'[c] = rebaseq[c] /\ (c \in rebasing' => c \in rebasing)
                              /\ c \notin Invitees => Untouched(c)'
    PROVE  GroupInv'
<1>1. /\ UNCHANGED <<Outside, Invitees>> /\ UNCHANGED <<markers, pc, task, mem>>
      /\ \A b \in Slot : I(b)' = I(b) /\ \A j \in Issue : On(b, j)' = On(b, j)
  BY DEF triage, Outside, Invitees, On, I
<1>2. MarkedBy'
  BY <1>1 DEF GroupInv, MarkedBy
<1>3. Heads'
  BY <1>1, SetupFacts DEF GroupInv, Heads, Coordination
<1>4. ASSUME NEW c \in Outside
      PROVE  Outsider(c)'
  <2>1. c \in Issue /\ Outsider(c)
    BY DEF GroupInv, Outside
  <2> QED
    BY <1>1, <2>1 DEF Outsider, Coordination
<1>5. ASSUME NEW b \in Slot
      PROVE  Hand(b)'
  <2>1. Hand(b)
    BY DEF GroupInv
  <2>2. pc[b] # "idle" /\ I(b) \notin setup.fetched => labels'[I(b)] \cap Deciding = labels[I(b)] \cap Deciding
    BY SlotIssue DEF Outside
  <2> QED
    BY <1>1, <2>1, <2>2 DEF Hand
<1> QED
  BY <1>1, <1>2, <1>3, <1>4, <1>5 DEF GroupInv

LEMMA GroupOthers ==
    ASSUME GroupTypes, GroupInv,
           \/ \E i \in Issue : Fetch(i) \/ RebaseStart(i) \/ RebaseEnd(i) \/ Reproduce(i)
           \/ Sweeping \/ Rescue \/ UNCHANGED groupsVars
    PROVE  GroupInv'
<1>a. /\ \A c \in Outside : c \in Issue /\ c \notin setup.fetched /\ Outsider(c) /\ Outsider(c)
      /\ \A c \in Outside \ Invitees : Untouched(c)
  BY DEF GroupInv, Outside, Outsider
<1>b. UNCHANGED triage => \A b \in Slot, c \in Issue : On(b, c)' = On(b, c)
  BY DEF triage, On, I
<1>1. ASSUME NEW i \in Issue, Fetch(i)
      PROVE  GroupInv'
  <2>1. UNCHANGED <<triage, setup, labels, sweeps, rebase>> /\ i \in setup.fetched /\ LPush(Fresh(i))
    BY <1>1 DEF Fetch
  <2>2. \A c \in Outside \ Invitees : Tasks(c)' = {}
    <3>1. Fresh(i) \in Task /\ Fresh(i).issue = i
      BY FreshTask DEF Fresh
    <3> QED
      BY <1>a, <2>1, <3>1, QueueEffect DEF Untouched
  <2>3. \A c \in Outside \ Invitees : Untouched(c)'
    BY <1>a, <1>b, <2>1, <2>2 DEF Untouched, rebase
  <2> QED
    BY <2>1, <2>3, GroupRests DEF rebase
<1>2. ASSUME NEW i \in Issue, RebaseStart(i)
      PROVE  GroupInv'
  <2>1. UNCHANGED <<triage, setup, labels, queue, sweeps, reproq>> /\ rebaseq[i] > 0
    BY <1>2 DEF RebaseStart, common
  <2>2. i \notin Outside
    BY <1>a, <2>1 DEF Outsider
  <2>3. \A c \in Outside \ Invitees : Untouched(c)'
    BY <1>a, <1>b, <2>1 DEF Untouched, Tasks
  <2>4. \A c \in Outside : rebaseq'[c] = rebaseq[c] /\ (c \in rebasing' => c \in rebasing)
    BY <1>2, <1>a, <2>2, SetupFacts DEF RebaseStart
  <2> QED
    BY <2>1, <2>3, <2>4, GroupRests
<1>3. ASSUME NEW i \in Issue, RebaseEnd(i)
      PROVE  GroupInv'
  <2>1. UNCHANGED <<triage, setup, queue, sweeps, reproq, rebaseq>> /\ i \in rebasing /\ rebasing' \subseteq rebasing
    BY <1>3 DEF RebaseEnd
  <2>2. i \notin Outside
    BY <1>a, <2>1 DEF Outsider
  <2>3. PICK outcome \in {"rebased", "failed"} : Edit(i, {outcome}, {"triaged_rebase"})
    BY <1>3 DEF RebaseEnd
  <2>4. \A j \in Issue : labels'[j] = IF j = i THEN (labels[j] \ {"triaged_rebase"}) \cup {outcome} ELSE labels[j]
    BY <2>3, EditEffect
  <2>5. \A c \in Outside : labels'[c] = labels[c]
    BY <1>a, <2>2, <2>4
  <2>6. \A c \in Outside \ Invitees : Untouched(c)'
    BY <1>a, <1>b, <2>1, <2>5 DEF Untouched, Tasks
  <2>7. \A j \in Issue : labels'[j] \cap Coordination \subseteq labels[j]
    BY <2>4 DEF Coordination
  <2> QED
    BY <2>1, <2>5, <2>6, <2>7, GroupRests
<1>4. ASSUME NEW i \in Issue, Reproduce(i)
      PROVE  GroupInv'
  <2>1. UNCHANGED <<triage, setup, queue, sweeps, rebaseq, rebasing>> /\ i \in reproq /\ reproq' \subseteq reproq
        /\ Edit(i, {"reproduced"}, {})
    BY <1>4 DEF Reproduce
  <2>2. \A j \in Issue : labels'[j] = IF j = i THEN (labels[j] \ {}) \cup {"reproduced"} ELSE labels[j]
    BY <2>1, EditEffect
  <2>3. \A j \in Issue : labels'[j] \cap Coordination \subseteq labels[j] /\ labels'[j] \cap Deciding = labels[j] \cap Deciding
    BY <2>2 DEF Coordination, Deciding
  <2>4. \A c \in Outside \ Invitees : c # i
    BY <1>a, <2>1 DEF Untouched
  <2>5. \A c \in Outside \ Invitees : Untouched(c)'
    BY <1>a, <1>b, <2>1, <2>2, <2>4 DEF Untouched, Tasks
  <2> QED
    BY <1>a, <2>1, <2>3, <2>5, GroupRests
<1>5. CASE Sweeping
  <2>1. UNCHANGED <<triage, setup, rebaseq, rebasing, reproq>>
    BY <1>5 DEF Sweeping, SweepStep, SweepStart, SweepIssue, SweepProgress, SweepRemove, SweepDies, BlockerSettles, rebase
  <2>2. \A j \in Issue : labels'[j] \cap Coordination \subseteq labels[j] /\ labels'[j] \cap Deciding = labels[j] \cap Deciding
    BY <1>5, SweptLabels DEF Coordination, Deciding, Postponement
  <2>3. ASSUME NEW c \in Outside \ Invitees
        PROVE  Untouched(c)'
    <3>1. c \in Issue /\ Untouched(c)
      BY <1>a
    <3>2. Unswept(c)
      BY <3>1 DEF Untouched, Unswept, Postponement
    <3>3. labels'[c] = labels[c] /\ Unswept(c)' /\ Tasks(c)' = {}
      BY <1>5, <3>1, <3>2, SweepsPass, SweptTasks DEF Untouched
    <3> QED
      BY <1>b, <2>1, <3>1, <3>3 DEF Untouched, Unswept
  <2> QED
    BY <1>a, <2>1, <2>2, <2>3, GroupRests
<1>6. CASE Rescue
  <2>1. /\ UNCHANGED <<setup, sweeps, triage, rebase>>
        /\ \A j \in Issue : labels'[j] \subseteq labels[j]
        /\ \A c \in Outside : labels'[c] = labels[c] /\ Tasks(c)' = {}
    BY <1>6, <1>a, RescueEffect DEF Outside
  <2>2. \A c \in Outside \ Invitees : Untouched(c)'
    BY <1>a, <1>b, <2>1 DEF Untouched, rebase
  <2> QED
    BY <2>1, <2>2, GroupRests DEF rebase
<1>7. CASE UNCHANGED groupsVars
  <2>1. UNCHANGED <<triage, setup, labels, queue, sweeps, rebase>>
    BY <1>7 DEF groupsVars, common
  <2>2. \A c \in Outside \ Invitees : Untouched(c)'
    BY <1>a, <1>b, <2>1 DEF Untouched, Tasks, rebase
  <2> QED
    BY <2>1, <2>2, GroupRests DEF rebase
<1> QED
  BY <1>1, <1>2, <1>3, <1>4, <1>5, <1>6, <1>7

LEMMA GroupCrash ==
    ASSUME GroupTypes, GroupInv, Crash
    PROVE  GroupInv'
<1>1. UNCHANGED <<setup, labels, queue, sweeps, rebase, markers>> /\ UNCHANGED <<Outside, Invitees>>
      /\ \A a \in Slot : pc'[a] = "idle" /\ mem'[a] = Forgotten
  BY DEF Crash, common, Outside, Invitees
<1>2. MarkedBy' /\ Heads'
  BY <1>1 DEF GroupInv, MarkedBy, Heads, On
<1>3. \A a \in Slot : Hand(a)'
  BY <1>1 DEF Hand, Collecting, Forgotten
<1>4. \A c \in Outside : Outsider(c)'
  BY <1>1 DEF GroupInv, Outsider, Untouched, Tasks, On, rebase
<1> QED
  BY <1>1, <1>2, <1>3, <1>4 DEF GroupInv

LEMMA GroupProcess ==
    ASSUME GroupTypes, Judged, Lone, GroupInv, NEW a \in Slot, ProcessTask(a)
    PROVE  GroupInv'
<1>1. UNCHANGED Outside
  BY OnlyOne DEF Outside
<1>2. \A b \in Slot : Hand(b)'
  BY OwnHand, OthersHands
<1> QED
  BY <1>1, <1>2, MarkedGrows, HeadsStay, OutsidersStay DEF GroupInv

LEMMA GroupNext == GroupTypes /\ Judged /\ Lone /\ GroupInv /\ [GroupsNext]_groupsVars => GroupInv'
  BY GroupProcess, GroupCrash, GroupOthers DEF GroupsNext

LEMMA GroupInit == GroupsInit => GroupInv
<1> SUFFICES ASSUME GroupsInit
             PROVE  GroupInv
  OBVIOUS
<1>1. MarkedBy /\ Heads
  BY SetupFacts, TypesInit DEF GroupsInit, MarkedBy, Heads, On
<1>2. \A a \in Slot : Hand(a)
  BY DEF GroupsInit, Hand, Collecting, Forgotten
<1>3. \A c \in Outside : Outsider(c)
  BY DEF GroupsInit, SweepsInit, Between, Outside, Outsider, Untouched, Tasks, On
<1> QED
  BY <1>1, <1>2, <1>3 DEF GroupInv

-----------------------------------------------------------------------------
(* Groups in which nothing is lost and nobody is postponed: the rebase of the *)
(* primary waits for all siblings.                                            *)
Reliable == setup.faults \cap {"label", "crash", "marker"} = {} /\ \A i \in Issue : Steady(i)

Open  == {c \in Invitees : labels[c] \cap Deciding = {}}
AllIn == Outside \subseteq Invitees /\ Open = {}
Holds(a, i) == pc[a] \in Collecting /\ I(a) = i /\ (pc[a] = "push" \/ mem[a].count > 0)

(* While a sibling is undecided its labels say so, and one that is labelled   *)
(* as a sibling is about to be marked.                                        *)
Announced ==
    /\ \A i \in Issue : labels[i] \cap Deciding # {} => "in_progress" \notin labels[i]
    /\ \A c \in Outside \ Invitees : "sibling" \in labels[c] => \E a \in Slot : pc[a] = "marker" /\ c \in mem[a].next
    /\ \A c \in Open : labels[c] \cap {"sibling", "in_progress"} # {}
(* While a sibling is undecided the primary is withheld: it has its waiting   *)
(* label or a result, or a slot still collects.                               *)
Withheld ==
    \A i \in setup.fetched :
        /\ Open # {} => "waiting" \in labels[i] \/ labels[i] \cap Deciding # {} \/ \E a \in Slot : Holds(a, i)
        /\ "waiting" \in labels[i] => Outside \subseteq Invitees
        /\ "triaged_rebase" \in labels[i] => AllIn
(* What a slot at work relies on.                                             *)
Aware(a) ==
    /\ pc[a] \notin {"idle", "guard", "dispatch"} \cup Checking => labels[I(a)] \cap Deciding = {}
    /\ pc[a] \in Collecting => Outside \ Invitees \subseteq mem[a].cand \cup mem[a].next
    /\ pc[a] = "marker" => \A c \in mem[a].next \ Invitees : "sibling" \in labels[c]
    /\ pc[a] = "siblings" => Outside \subseteq Invitees
    /\ pc[a] = "unwait" => AllIn
    /\ pc[a] \in {"comment", "label"} /\ I(a) \in setup.fetched /\ mem[a].res = "rebase" /\ ~Waits(a) => AllIn
    /\ pc[a] \in {"consolidate"} \cup Collecting /\ "waiting" \in labels[I(a)] => mem[a].wait
Barred == Announced /\ Withheld /\ \A a \in Slot : Aware(a)

(* What a slot may do to the labels of an issue. *)
LEMMA ReliableLabels ==
    ASSUME OnceInv, Reliable, NEW a \in Slot, ProcessTask(a), NEW j \in Issue
    PROVE  \/ labels'[j] = labels[j]
           \/ /\ On(a, j) /\ pc[a] = "stamp"
              /\ labels'[j] = (labels[j] \ (mem[a].cur \ {"in_progress", "waiting"})) \cup {"in_progress"}
           \/ /\ On(a, j) /\ pc[a] = "candidates" /\ mem[a].cand = {} /\ mem[a].count > 0
              /\ labels'[j] = labels[j] \cup {"waiting"}
           \/ pc[a] = "sibling" /\ j \in mem[a].next /\ labels'[j] = labels[j] \cup {"sibling"} /\ pc'[a] = "marker"
           \/ /\ On(a, j) /\ pc[a] = "label" /\ Waits(a)
              /\ labels'[j] = labels[j] \ ({"in_progress"} \cup (IF mem[a].sib THEN {"sibling"} ELSE {}))
           \/ /\ On(a, j) /\ pc[a] = "label" /\ ~Waits(a)
              /\ labels'[j] = (labels[j] \ ({"in_progress", "waiting"} \cup (IF mem[a].sib THEN {"sibling"} ELSE {})))
                                 \cup {IF mem[a].res = "rebase" THEN "triaged_rebase" ELSE "decided"}
           \/ pc[a] = "unwait" /\ labels'[j] = labels[j] \ {"waiting"}
           \/ On(a, j) /\ pc[a] = "retry" /\ labels'[j] = (labels[j] \ {"in_progress"}) \cup {"errored"}
<1>0. GroupTypes /\ Judged /\ pc \in [Slot -> Place]
  BY SetupFacts DEF OnceInv
<1>1. CASE Stamp(a)
  <2>1. labels'[j] = IF j = I(a) THEN (labels[j] \ (mem[a].cur \ {"in_progress", "waiting"})) \cup {"in_progress"} ELSE labels[j]
    BY <1>0, <1>1, EditEffect DEF Stamp
  <2> QED
    BY <1>1, <2>1 DEF Stamp, On
<1>2. CASE LabelWaiting(a) /\ ~UNCHANGED labels
  <2>1. labels'[j] = IF j = I(a) THEN (labels[j] \ {}) \cup {"waiting"} ELSE labels[j]
    BY <1>0, <1>2, EditEffect DEF LabelWaiting, BestEffort
  <2> QED
    BY <1>2, <2>1 DEF LabelWaiting, On
<1>3. ASSUME NEW c \in Issue, LabelSibling(a, c)
      PROVE  \/ labels'[j] = labels[j]
             \/ pc[a] = "sibling" /\ j \in mem[a].next /\ labels'[j] = labels[j] \cup {"sibling"} /\ pc'[a] = "marker"
  <2>1. Edit(c, {"sibling"}, {})
    BY <1>3 DEF LabelSibling, BestEffort, Failure, Reliable
  <2>2. labels'[j] = IF j = c THEN (labels[j] \ {}) \cup {"sibling"} ELSE labels[j]
    BY <1>0, <2>1, EditEffect
  <2>3. pc'[a] = "marker"
    BY <1>0, <1>3 DEF LabelSibling, SlotGoes
  <2> QED
    BY <1>3, <2>2, <2>3 DEF LabelSibling
<1>4. ASSUME NEW c \in Issue, MarkSibling(a, c)
      PROVE  labels'[j] = labels[j]
  BY <1>4 DEF MarkSibling, Failure, Reliable
<1>5. CASE LabelResult(a) /\ ~UNCHANGED labels
  <2> DEFINE gone == IF mem[a].sib THEN {"sibling"} ELSE {}
             result == IF mem[a].res = "rebase" THEN "triaged_rebase" ELSE mem[a].res
  <2>1. pc[a] = "label" /\ I(a) \in Issue /\ mem[a].res \in Resolution
    BY <1>0, <1>5, SlotIssue DEF LabelResult, Judged, Fits
  <2>2. mem[a].res \notin Postponement
    <3>1. Steady(I(a)) /\ On(a, I(a))
      BY <2>1 DEF Reliable, On
    <3> QED
      BY <2>1, <3>1 DEF OnceInv, Unposted
  <2>3. Edit(I(a), IF Waits(a) THEN {} ELSE {result}, {"in_progress"} \cup gone \cup (IF Waits(a) THEN {} ELSE {"waiting"}))
    BY <1>5, <2>2 DEF LabelResult
  <2>4. labels'[j] = IF j = I(a) THEN (labels[j] \ ({"in_progress"} \cup gone \cup (IF Waits(a) THEN {} ELSE {"waiting"})))
                                        \cup (IF Waits(a) THEN {} ELSE {result}) ELSE labels[j]
    BY <1>0, <2>3, EditEffect
  <2>5. result = IF mem[a].res = "rebase" THEN "triaged_rebase" ELSE "decided"
    BY <2>1, <2>2 DEF Resolution, Postponement
  <2>6. j # I(a) => labels'[j] = labels[j]
    BY <2>4
  <2>7. j = I(a) => On(a, j)
    BY <2>1 DEF On
  <2>8. CASE Waits(a) /\ j = I(a)
    <3>1. labels'[j] = labels[j] \ ({"in_progress"} \cup gone)
      BY <2>4, <2>8
    <3> QED
      BY <2>1, <2>7, <2>8, <3>1
  <2>9. CASE ~Waits(a) /\ j = I(a)
    <3>1. labels'[j] = (labels[j] \ ({"in_progress", "waiting"} \cup gone)) \cup {result}
      BY <2>4, <2>9
    <3> QED
      BY <2>1, <2>5, <2>7, <2>9, <3>1
  <2> QED
    BY <2>6, <2>8, <2>9
<1>6. CASE ReleasePrimary(a) /\ ~UNCHANGED labels
  <2>1. labels'[j] = IF j = Primary(I(a)) THEN (labels[j] \ {"waiting"}) \cup {} ELSE labels[j]
    BY <1>0, <1>6, EditEffect DEF ReleasePrimary
  <2> QED
    BY <1>6, <2>1 DEF ReleasePrimary
<1>7. CASE Retry(a) /\ ~UNCHANGED labels
  <2>1. labels'[j] = IF j = I(a) THEN (labels[j] \ {"in_progress"}) \cup {"errored"} ELSE labels[j]
    BY <1>0, <1>7, EditEffect DEF Retry
  <2> QED
    BY <1>7, <2>1 DEF Retry, On
<1>8. UNCHANGED labels => labels'[j] = labels[j]
  OBVIOUS
<1>9. CASE UNCHANGED labels \/ Stamp(a) \/ LabelWaiting(a)
  BY <1>1, <1>2, <1>8, <1>9
<1>10. CASE \E c \in Issue : LabelSibling(a, c) \/ MarkSibling(a, c)
  BY <1>3, <1>4, <1>10
<1>11. CASE LabelResult(a) \/ ReleasePrimary(a) \/ Retry(a)
  BY <1>5, <1>6, <1>7, <1>8, <1>11
<1> QED
  BY <1>9, <1>10, <1>11
     DEF ProcessTask, Take, Guard, Analyse, Consolidate, CheckCandidate, Comment, PushSibling, CheckPrimary,
         CheckSiblings, PushPrimary, Dispatch, common

(* A decision stays, and so does the end of all of them. *)
LEMMA DecidedStays ==
    ASSUME OnceInv, Reliable, Barred, NEW a \in Slot, ProcessTask(a), NEW j \in Issue, labels[j] \cap Deciding # {}
    PROVE  labels'[j] \ Coordination = labels[j] \ Coordination /\ labels'[j] \cap Deciding = labels[j] \cap Deciding
<1>1. On(a, j) => pc[a] \notin {"stamp", "label", "retry"}
  BY DEF On, Barred, Aware, Checking
<1>2. labels'[j] \ Coordination = labels[j] \ Coordination
  BY <1>1, ReliableLabels DEF Coordination
<1> QED
  BY <1>2 DEF Coordination, Deciding

LEMMA AllInStays ==
    ASSUME OnceInv, Lone, GroupInv, Reliable, Barred, NEW a \in Slot, ProcessTask(a)
    PROVE  AllIn => AllIn'
<1> SUFFICES ASSUME AllIn
             PROVE  AllIn'
  OBVIOUS
<1>1. Invitees \subseteq Invitees' /\ Outside' = Outside /\ Invitees' \subseteq Outside
  <2>1. UNCHANGED setup
    BY OnlyOne DEF OnceInv
  <2>2. Invitees \subseteq Invitees' /\ MarkedBy'
    BY MarkedGrows DEF OnceInv
  <2> QED
    BY <2>1, <2>2 DEF Outside, Invitees, MarkedBy
<1>2. \A c \in Invitees' : c \in Issue /\ labels[c] \cap Deciding # {}
  BY <1>1 DEF AllIn, Open, Outside
<1>3. \A c \in Invitees' : labels'[c] \cap Deciding # {}
  BY <1>2, DecidedStays
<1> QED
  BY <1>1, <1>3 DEF AllIn, Open

LEMMA OthersAware ==
    ASSUME OnceInv, Lone, GroupInv, Reliable, Barred, NEW a \in Slot, ProcessTask(a), NEW b \in Slot \ {a}
    PROVE  Aware(b)'
<1>1. pc'[b] = pc[b] /\ mem'[b] = mem[b] /\ I(b)' = I(b) /\ UNCHANGED setup /\ Outside' = Outside
  BY OnlyOne DEF OnceInv, I, Outside
<1>2. Invitees \subseteq Invitees' /\ (AllIn => AllIn') /\ Aware(b) /\ Hand(b) /\ Hand(a) /\ Waits(b)' = Waits(b)
  BY <1>1, MarkedGrows, AllInStays DEF OnceInv, Barred, GroupInv, Waits
<1>3. pc[b] # "idle" => I(b) \in Issue /\ ~On(a, I(b))
  BY SlotIssue DEF On, OnceInv, GroupTypes, SlotTypes
<1>4. pc[b] # "idle" => labels'[I(b)] \cap Deciding = labels[I(b)] \cap Deciding
  BY <1>3, LabelEffect DEF OnceInv, Coordination, Deciding
<1>5. pc[b] \in {"consolidate"} \cup Collecting /\ "waiting" \in labels'[I(b)] => "waiting" \in labels[I(b)]
  BY <1>3, ReliableLabels DEF Collecting
<1>6. ASSUME pc[b] = "marker", NEW c \in mem[b].next \ Invitees
      PROVE  "sibling" \in labels'[c]
  <2>1. "sibling" \in labels[c] /\ c \in Outside \ Invitees
    <3>1. mem[b].next \subseteq Issue
      BY <1>6, SlotIssue DEF OnceInv, MemType
    <3> QED
      BY <1>2, <1>6, <3>1 DEF Aware, Hand, Outside
  <2>2. ~On(a, c) /\ c \in Issue
    BY <2>1 DEF GroupInv, Outsider, Untouched, Outside
  <2> QED
    BY <2>1, <2>2, ReliableLabels
<1> QED
  BY <1>1, <1>2, <1>4, <1>5, <1>6 DEF Aware, Collecting

(* A mark is set by the slot of a fetched issue, on a sibling that has its label. *)
LEMMA ReliableMarks ==
    ASSUME OnceInv, Lone, GroupInv, Reliable, NEW a \in Slot, ProcessTask(a), pc[a] = "marker"
    PROVE  mem[a].next \subseteq Invitees' /\ pc'[a] = "push" /\ UNCHANGED <<labels, mem, task>>
<1>1. PICK c \in Issue : MarkSibling(a, c)
  BY DEF ProcessTask, Take, Guard, Stamp, Analyse, Consolidate, CheckCandidate, LabelWaiting, Comment, LabelSibling,
         PushSibling, LabelResult, CheckPrimary, CheckSiblings, ReleasePrimary, PushPrimary, Dispatch, Retry
<1>2. /\ markers' = [markers EXCEPT ![c] = IF I(a) \in Range(@) THEN @ ELSE Append(@, I(a))]
      /\ SlotGoes(a, "push") /\ UNCHANGED <<labels, mem, task>>
  BY <1>1 DEF MarkSibling, Failure, Reliable
<1>3. mem[a].next = {c} /\ I(a) \in Issue
  BY <1>1, SlotIssue DEF MarkSibling, OnceInv, Judged, Fits
<1>4. markers'[c] # <<>>
  BY <1>2, <1>3, MarkersGrow DEF OnceInv, GroupTypes
<1>5. pc'[a] = "push"
  BY <1>2, SetupFacts DEF SlotGoes, OnceInv
<1> QED
  BY <1>2, <1>3, <1>4, <1>5 DEF Invitees

LEMMA NewInvitees ==
    ASSUME OnceInv, Lone, GroupInv, Reliable, NEW a \in Slot, ProcessTask(a), NEW c \in Invitees' \ Invitees
    PROVE  /\ pc[a] = "marker" /\ c \in mem[a].next /\ pc'[a] = "push" /\ UNCHANGED <<labels, mem, task>>
           /\ c \in Outside \ Invitees /\ I(a) \in setup.fetched
<1>1. ~UNCHANGED markers
  BY DEF Invitees
<1>2. PICK d \in Outside \ Invitees :
              /\ MarkSibling(a, d) /\ mem[a].next = {d} /\ pc'[a] = "push" /\ UNCHANGED <<labels, mem>>
              /\ I(a) \in setup.fetched
              /\ markers' = [markers EXCEPT ![d] = <<I(a)>>]
  BY <1>1, MarkEffect DEF OnceInv
<1>3. c = d
  BY <1>2, SetupFacts DEF OnceInv, Invitees, Outside
<1> QED
  BY <1>2, <1>3 DEF MarkSibling

LEMMA AnnouncedStays ==
    ASSUME OnceInv, Lone, GroupInv, Reliable, Barred, NEW a \in Slot, ProcessTask(a)
    PROVE  Announced'
<1>0. Invitees \subseteq Invitees' /\ Outside' = Outside /\ Announced /\ Aware(a)
  BY MarkedGrows, OnlyOne DEF OnceInv, Outside, Barred
<1>1. ASSUME NEW i \in Issue, labels'[i] \cap Deciding # {}
      PROVE  "in_progress" \notin labels'[i]
  <2>1. CASE labels[i] \cap Deciding # {}
    <3>1. "in_progress" \notin labels[i]
      BY <1>0, <2>1 DEF Announced
    <3>2. labels'[i] \ Coordination = labels[i] \ Coordination
      BY <2>1, DecidedStays
    <3> QED
      BY <3>1, <3>2 DEF Coordination
  <2>2. CASE labels[i] \cap Deciding = {}
    BY <1>1, <2>2, ReliableLabels DEF Deciding
  <2> QED
    BY <2>1, <2>2
<1>2. ASSUME NEW c \in Outside \ Invitees', "sibling" \in labels'[c]
      PROVE  \E b \in Slot : pc'[b] = "marker" /\ c \in mem'[b].next
  <2>1. c \in Issue /\ c \in Outside \ Invitees
    BY <1>0 DEF Outside
  <2>2. CASE "sibling" \in labels[c]
    <3>1. PICK b \in Slot : pc[b] = "marker" /\ c \in mem[b].next
      BY <1>0, <2>1, <2>2 DEF Announced
    <3>2. b # a
      BY <1>2, <3>1, ReliableMarks
    <3> QED
      BY <3>1, <3>2, OnlyOne DEF OnceInv
  <2>3. CASE "sibling" \notin labels[c]
    <3>1. pc[a] = "sibling" /\ c \in mem[a].next /\ pc'[a] = "marker"
      BY <1>2, <2>1, <2>3, ReliableLabels
    <3>2. UNCHANGED mem
      BY <3>1 DEF ProcessTask, Take, Guard, Stamp, Analyse, Consolidate, CheckCandidate, LabelWaiting, Comment, LabelSibling,
           MarkSibling, PushSibling, LabelResult, CheckPrimary, CheckSiblings, ReleasePrimary, PushPrimary, Dispatch, Retry
    <3> QED
      BY <3>1, <3>2
  <2> QED
    BY <2>2, <2>3
<1>3. ASSUME NEW c \in Open'
      PROVE  labels'[c] \cap {"sibling", "in_progress"} # {}
  <2>1. c \in Invitees' /\ c \in Issue /\ labels'[c] \cap Deciding = {}
    BY <1>3 DEF Open, Invitees
  <2>2. CASE c \notin Invitees
    <3>1. pc[a] = "marker" /\ c \in mem[a].next /\ UNCHANGED labels
      BY <2>1, <2>2, NewInvitees
    <3>2. "sibling" \in labels[c]
      BY <1>0, <2>2, <3>1 DEF Aware
    <3> QED
      BY <3>1, <3>2
  <2>3. CASE c \in Invitees
    <3>1. labels[c] \cap Deciding = {}
      BY <2>1, DecidedStays
    <3>2. labels[c] \cap {"sibling", "in_progress"} # {}
      BY <1>0, <2>3, <3>1 DEF Announced, Open
    <3>3. pc[a] = "label" /\ On(a, c) => ~Waits(a)
      <4>1. c \notin setup.fetched
        BY <2>3 DEF GroupInv, MarkedBy, Invitees
      <4> QED
        BY <4>1 DEF GroupInv, Hand, Waits, On
    <3> QED
      BY <2>1, <3>2, <3>3, ReliableLabels DEF Deciding
  <2> QED
    BY <2>2, <2>3
<1> QED
  BY <1>0, <1>1, <1>2, <1>3 DEF Announced

(* Whoever collects siblings goes on until the primary has its label. *)
LEMMA HoldsOn ==
    ASSUME OnceInv, Lone, GroupInv, Reliable, NEW a \in Slot, ProcessTask(a), NEW i \in Issue, Holds(a, i)
    PROVE  Holds(a, i)' \/ "waiting" \in labels'[i]
<1>0. /\ mem \in [Slot -> MemType] /\ mem[a] \in MemType /\ pc \in [Slot -> Place] /\ GroupTypes
      /\ pc[a] \in Collecting /\ I(a) = i
  BY SetupFacts DEF OnceInv, Holds
<1>1. \A n \in Place : SlotGoes(a, n) => pc'[a] = n
  BY <1>0 DEF SlotGoes
<1>2. CASE CheckCandidate(a)
  <2>1. mem[a].count > 0 /\ I(a)' = i /\ pc[a] = "candidates"
    BY <1>2 DEF CheckCandidate, Holds, I
  <2>2. PICK c \in mem[a].cand :
          \/ mem' = [mem EXCEPT ![a].cand = @ \ {c}] /\ UNCHANGED pc
          \/ SlotGoes(a, "sibling") /\ mem' = [mem EXCEPT ![a] = [mem[a] EXCEPT !.cand = @ \ {c}, !.next = {c}]]
    BY <1>2 DEF CheckCandidate
  <2> DEFINE fewer == mem[a].cand \ {c}
  <2>3. mem'[a] = [mem[a] EXCEPT !.cand = fewer] \/ mem'[a] = [mem[a] EXCEPT !.cand = fewer, !.next = {c}]
    <3>1. mem' = [mem EXCEPT ![a] = [mem[a] EXCEPT !.cand = fewer]]
             \/ mem' = [mem EXCEPT ![a] = [mem[a] EXCEPT !.cand = fewer, !.next = {c}]]
      BY <2>2
    <3> HIDE DEF fewer
    <3> QED
      BY <1>0, <3>1
  <2>4. pc'[a] \in Collecting
    BY <1>0, <1>1, <2>2 DEF Place, Collecting
  <2> HIDE DEF fewer
  <2>5. mem'[a].count = mem[a].count
    BY <1>0, <2>3 DEF MemType
  <2> QED
    BY <2>1, <2>4, <2>5 DEF Holds
<1>3. CASE LabelWaiting(a)
  <2>1. Edit(i, {"waiting"}, {})
    BY <1>0, <1>3 DEF LabelWaiting, Holds, BestEffort, Failure, Reliable
  <2>2. labels'[i] = (labels[i] \ {}) \cup {"waiting"}
    BY <1>0, <2>1, EditEffect
  <2> QED
    BY <2>2
<1>4. ASSUME NEW c \in Issue, LabelSibling(a, c)
      PROVE  Holds(a, i)'
  BY <1>0, <1>1, <1>4 DEF LabelSibling, Holds, I, Place, Collecting
<1>5. CASE pc[a] = "marker"
  BY <1>0, <1>5, ReliableMarks DEF Holds, I, Collecting
<1>6. ASSUME NEW c \in Issue, PushSibling(a, c)
      PROVE  Holds(a, i)'
  <2>1. mem'[a].count = 1
    BY <1>0, <1>6 DEF PushSibling, MemType
  <2> QED
    BY <1>0, <1>1, <1>6, <2>1 DEF PushSibling, Holds, I, Place, Collecting
<1> QED
  BY <1>0, <1>2, <1>3, <1>4, <1>5, <1>6
     DEF Collecting, ProcessTask, Take, Guard, Stamp, Analyse, Consolidate, Comment, MarkSibling, LabelResult, CheckPrimary,
         CheckSiblings, ReleasePrimary, PushPrimary, Dispatch, Retry

LEMMA WithheldStays ==
    ASSUME OnceInv, Lone, GroupInv, Reliable, Barred, NEW a \in Slot, ProcessTask(a)
    PROVE  Withheld'
<1>0. /\ Invitees \subseteq Invitees' /\ Outside' = Outside /\ UNCHANGED setup /\ Withheld /\ Aware(a) /\ GroupTypes /\ Judged
      /\ setup.fetched \subseteq Issue /\ (AllIn => AllIn')
  BY MarkedGrows, OnlyOne, SetupFacts, AllInStays DEF OnceInv, Outside, Barred
<1> SUFFICES ASSUME NEW i \in setup.fetched
             PROVE  /\ Open' # {} => "waiting" \in labels'[i] \/ labels'[i] \cap Deciding # {} \/ \E b \in Slot : Holds(b, i)'
                    /\ "waiting" \in labels'[i] => Outside \subseteq Invitees'
                    /\ "triaged_rebase" \in labels'[i] => AllIn'
  BY <1>0 DEF Withheld
<1>a. i \in Issue
  BY <1>0
<1>1. ASSUME Open' # {}
      PROVE  "waiting" \in labels'[i] \/ labels'[i] \cap Deciding # {} \/ \E b \in Slot : Holds(b, i)'
  <2>1. PICK c \in Open' : TRUE
    BY <1>1
  <2>2. CASE c \notin Invitees
    <3>1. pc'[a] = "push" /\ I(a) \in setup.fetched /\ UNCHANGED task
      BY <2>1, <2>2, NewInvitees DEF Open
    <3>2. I(a)' = i
      BY <3>1 DEF Lone, I
    <3> QED
      BY <3>1, <3>2 DEF Holds, Collecting
  <2>3. CASE c \in Invitees
    <3>1. c \in Open
      BY <2>1, <2>3, DecidedStays DEF Open, Invitees
    <3>2. ~AllIn
      BY <3>1 DEF AllIn
    <3>3. "waiting" \in labels[i] \/ labels[i] \cap Deciding # {} \/ \E b \in Slot : Holds(b, i)
      BY <1>0, <3>1 DEF Withheld
    <3>4. CASE "waiting" \in labels[i]
      <4>1. pc[a] # "unwait"
        BY <1>0, <3>2 DEF Aware
      <4> QED
        BY <1>a, <3>4, <4>1, ReliableLabels DEF Deciding
    <3>5. CASE labels[i] \cap Deciding # {}
      BY <1>a, <3>5, DecidedStays
    <3>6. ASSUME NEW b \in Slot, Holds(b, i)
          PROVE  "waiting" \in labels'[i] \/ Holds(b, i)'
      <4>1. CASE b = a
        BY <1>a, <3>6, <4>1, HoldsOn
      <4>2. CASE b # a
        BY <3>6, <4>2, OnlyOne DEF OnceInv, Holds, I
      <4> QED
        BY <4>1, <4>2
    <3> QED
      BY <3>3, <3>4, <3>5, <3>6
  <2> QED
    BY <2>2, <2>3
<1>2. ASSUME "waiting" \in labels'[i]
      PROVE  Outside \subseteq Invitees'
  <2>1. CASE "waiting" \in labels[i]
    BY <1>0, <2>1 DEF Withheld
  <2>2. CASE "waiting" \notin labels[i]
    <3>1. pc[a] = "candidates" /\ mem[a].cand = {}
      BY <1>2, <1>a, <2>2, ReliableLabels
    <3>2. mem[a].next = {}
      BY <1>0, <3>1 DEF Judged, Fits
    <3> QED
      BY <1>0, <3>1, <3>2 DEF Aware, Collecting
  <2> QED
    BY <2>1, <2>2
<1>3. ASSUME "triaged_rebase" \in labels'[i]
      PROVE  AllIn'
  <2>1. CASE "triaged_rebase" \in labels[i]
    BY <1>0, <2>1 DEF Withheld
  <2>2. CASE "triaged_rebase" \notin labels[i]
    <3>1. pc[a] = "label" /\ On(a, i) /\ mem[a].res = "rebase" /\ ~Waits(a)
      BY <1>3, <1>a, <2>2, ReliableLabels
    <3> QED
      BY <1>0, <3>1 DEF Aware, On
  <2> QED
    BY <2>1, <2>2
<1> QED
  BY <1>1, <1>2, <1>3

(* The slot that acts. *)
LEMMA AwareGuard ==
    ASSUME OnceInv, Reliable, Barred, NEW a \in Slot, Guard(a), ~Done(a)
    PROVE  Aware(a)'
<1>0. GroupTypes /\ I(a) \in Issue /\ pc \in [Slot -> Place]
  BY SlotIssue, SetupFacts DEF OnceInv, Guard
<1>1. SlotGoes(a, "stamp") /\ UNCHANGED <<labels, task>> /\ (Terminal(labels[I(a)]) = {} \/ "in_progress" \in labels[I(a)])
  BY DEF Guard, common
<1>2. labels[I(a)] \cap Deciding = {}
  <2>1. SUFFICES ASSUME labels[I(a)] \cap Deciding # {}
                 PROVE  FALSE
    OBVIOUS
  <2>2. "in_progress" \notin labels[I(a)]
    BY <1>0, <2>1 DEF Barred, Announced
  <2>3. Terminal(labels[I(a)]) # {}
    BY <2>1 DEF Terminal, Deciding
  <2> QED
    BY <1>1, <2>2, <2>3
<1>3. pc'[a] = "stamp" /\ I(a)' = I(a)
  BY <1>0, <1>1 DEF SlotGoes, I
<1> QED
  BY <1>1, <1>2, <1>3 DEF Aware, Collecting

LEMMA AwareAnalyse ==
    ASSUME OnceInv, Reliable, Barred, NEW a \in Slot, Analyse(a)
    PROVE  Aware(a)'
<1>0. GroupTypes /\ I(a) \in Issue /\ pc \in [Slot -> Place] /\ mem \in [Slot -> MemType] /\ mem[a] \in MemType
  BY SlotIssue, SetupFacts DEF OnceInv, Analyse
<1>1. UNCHANGED <<labels, task>> /\ pc[a] = "analyse" /\ I(a)' = I(a) /\ labels[I(a)] \cap Deciding = {}
  BY DEF Analyse, I, Barred, Aware, Checking
<1>2. CASE SlotGoes(a, "retry")
  <2>1. pc'[a] = "retry"
    BY <1>0, <1>2 DEF SlotGoes
  <2> QED
    BY <1>1, <2>1 DEF Aware, Collecting
<1>3. ASSUME NEW r,
             mem' = [mem EXCEPT ![a] = [mem[a] EXCEPT !.res = r,
                                   !.sib = markers[I(a)] # <<>>,
                                   !.wait = "waiting" \in labels[I(a)]]],
             SlotGoes(a, IF r = "rebase" THEN "consolidate" ELSE "label")
      PROVE  Aware(a)'
  <2>1. mem'[a] = [mem[a] EXCEPT !.res = r, !.sib = markers[I(a)] # <<>>, !.wait = "waiting" \in labels[I(a)]]
        /\ pc'[a] = IF r = "rebase" THEN "consolidate" ELSE "label"
    BY <1>0, <1>3 DEF SlotGoes
  <2>2. mem'[a].res = r
    BY <1>0, <2>1 DEF MemType
  <2>3. "waiting" \in labels[I(a)] => mem'[a].wait
    <3>1. SUFFICES ASSUME "waiting" \in labels[I(a)]
                   PROVE  mem'[a].wait
      OBVIOUS
    <3>2. ("waiting" \in labels[I(a)]) = TRUE
      BY <3>1
    <3>3. mem'[a].wait = TRUE
      BY <1>0, <2>1, <3>2 DEF MemType
    <3> QED
      BY <3>3
  <2>4. pc'[a] \in {"consolidate", "label"} /\ (pc'[a] = "label" => mem'[a].res # "rebase")
    BY <2>1, <2>2
  <2> QED
    BY <1>1, <2>3, <2>4 DEF Aware, Collecting
<1> QED
  BY <1>2, <1>3 DEF Analyse

LEMMA AwareConsolidate ==
    ASSUME OnceInv, Lone, GroupInv, Reliable, Barred, NEW a \in Slot, Consolidate(a)
    PROVE  Aware(a)'
<1>0. GroupTypes /\ I(a) \in Issue /\ pc \in [Slot -> Place] /\ mem \in [Slot -> MemType] /\ mem[a] \in MemType
  BY SlotIssue, SetupFacts DEF OnceInv, Consolidate
<1>1. /\ UNCHANGED <<labels, task, markers, setup>> /\ pc[a] = "consolidate" /\ I(a)' = I(a)
      /\ labels[I(a)] \cap Deciding = {} /\ ("waiting" \in labels[I(a)] => mem[a].wait)
  BY DEF Consolidate, common, I, Barred, Aware, Checking
<1>2. I(a) \in setup.fetched => ~(mem[a].sib \/ "sibling" \in labels[I(a)] \/ markers[I(a)] # <<>>)
  BY <1>0, <1>1 DEF GroupInv, Heads, MarkedBy, On
<1>3. CASE I(a) \notin setup.fetched /\ SlotGoes(a, "comment")
  <2>1. pc'[a] = "comment"
    BY <1>0, <1>3 DEF SlotGoes
  <2> QED
    BY <1>1, <1>3, <2>1 DEF Aware, Collecting
<1>4. CASE mem' = [mem EXCEPT ![a].cand = Candidates(I(a))] /\ SlotGoes(a, "candidates")
  <2>1. mem' = [mem EXCEPT ![a] = [mem[a] EXCEPT !.cand = Candidates(I(a))]]
    BY <1>4
  <2>2. mem'[a].cand = Candidates(I(a)) /\ mem'[a].wait = mem[a].wait /\ pc'[a] = "candidates"
    BY <1>0, <1>4, <2>1 DEF MemType, SlotGoes
  <2>3. I(a) \in setup.fetched
    <3>1. Hand(a)'
      BY <1>4, OwnHand DEF OnceInv, ProcessTask
    <3> QED
      BY <1>1, <2>2, <3>1 DEF Hand, Collecting
  <2>4. ASSUME NEW c \in Outside \ Invitees
        PROVE  c \in Candidates(I(a))
    <3>1. c \in Issue \ {I(a)} /\ labels[c] \subseteq {"sibling"}
      BY <2>3, <2>4 DEF Outside, GroupInv, Outsider, Untouched
    <3> QED
      BY <3>1 DEF Candidates
  <2>5. Outside' = Outside /\ Invitees' = Invitees
    BY <1>1 DEF Outside, Invitees
  <2> QED
    BY <1>1, <2>2, <2>4, <2>5 DEF Aware
<1> QED
  BY <1>2, <1>3, <1>4 DEF Consolidate

LEMMA AwareCheckCandidate ==
    ASSUME OnceInv, Lone, GroupInv, Reliable, Barred, NEW a \in Slot, CheckCandidate(a)
    PROVE  Aware(a)'
<1>0. GroupTypes /\ I(a) \in Issue /\ pc \in [Slot -> Place] /\ mem \in [Slot -> MemType] /\ mem[a] \in MemType
  BY SlotIssue, SetupFacts DEF OnceInv, CheckCandidate
<1>1. /\ UNCHANGED <<labels, task, markers, setup>> /\ pc[a] = "candidates" /\ I(a)' = I(a) /\ I(a) \in setup.fetched
      /\ labels[I(a)] \cap Deciding = {} /\ ("waiting" \in labels[I(a)] => mem[a].wait)
      /\ Outside \ Invitees \subseteq mem[a].cand \cup mem[a].next /\ mem[a].next = {}
  BY DEF CheckCandidate, common, I, Barred, Aware, Checking, Collecting, GroupInv, Hand, OnceInv, Judged, Fits
<1>2. PICK c \in mem[a].cand :
          \/ mem' = [mem EXCEPT ![a].cand = @ \ {c}] /\ UNCHANGED pc
             /\ labels[c] \cap {"sibling", "triaged_rebase", "decided", "rebased", "errored"} # {}
          \/ SlotGoes(a, "sibling") /\ mem' = [mem EXCEPT ![a] = [mem[a] EXCEPT !.cand = @ \ {c}, !.next = {c}]]
  BY DEF CheckCandidate
<1> DEFINE fewer == mem[a].cand \ {c}
<1>3. Outside' = Outside /\ Invitees' = Invitees
  BY <1>1 DEF Outside, Invitees
<1>4. CASE mem' = [mem EXCEPT ![a].cand = @ \ {c}] /\ UNCHANGED pc
             /\ labels[c] \cap {"sibling", "triaged_rebase", "decided", "rebased", "errored"} # {}
  <2>1. c \notin Outside \ Invitees
    <3>1. SUFFICES ASSUME c \in Outside \ Invitees
                   PROVE  FALSE
      OBVIOUS
    <3>2. "sibling" \in labels[c]
      BY <1>4, <3>1 DEF GroupInv, Outsider, Untouched
    <3>3. PICK b \in Slot : pc[b] = "marker" /\ c \in mem[b].next
      BY <3>1, <3>2 DEF Barred, Announced
    <3>4. I(b) = I(a)
      BY <1>1, <3>3 DEF GroupInv, Hand, Collecting, Lone
    <3>5. b = a
      BY <1>0, <1>1, <3>3, <3>4 DEF GroupTypes, SlotTypes
    <3> QED
      BY <1>1, <3>3, <3>5
  <2>2. Outside \ Invitees \subseteq fewer
    BY <1>1, <2>1
  <2>3. mem' = [mem EXCEPT ![a] = [mem[a] EXCEPT !.cand = fewer]]
    BY <1>4
  <2> HIDE DEF fewer
  <2>4. mem'[a].cand = fewer /\ mem'[a].wait = mem[a].wait /\ pc'[a] = "candidates"
    BY <1>0, <1>1, <1>4, <2>3 DEF MemType
  <2> QED
    BY <1>1, <1>3, <2>2, <2>4 DEF Aware
<1>5. CASE SlotGoes(a, "sibling") /\ mem' = [mem EXCEPT ![a] = [mem[a] EXCEPT !.cand = @ \ {c}, !.next = {c}]]
  <2>1. Outside \ Invitees \subseteq fewer \cup {c}
    BY <1>1
  <2>2. mem' = [mem EXCEPT ![a] = [mem[a] EXCEPT !.cand = fewer, !.next = {c}]] /\ pc'[a] = "sibling"
    BY <1>0, <1>5 DEF SlotGoes
  <2> HIDE DEF fewer
  <2>3. mem'[a].cand = fewer /\ mem'[a].next = {c} /\ mem'[a].wait = mem[a].wait
    BY <1>0, <2>2 DEF MemType
  <2> QED
    BY <1>1, <1>3, <2>1, <2>2, <2>3 DEF Aware
<1> QED
  BY <1>2, <1>4, <1>5

LEMMA AwareSibling ==
    ASSUME OnceInv, Lone, GroupInv, Reliable, Barred, NEW a \in Slot, NEW c \in Issue,
           LabelSibling(a, c) \/ MarkSibling(a, c) \/ PushSibling(a, c)
    PROVE  Aware(a)'
<1>0. GroupTypes /\ I(a) \in Issue /\ pc \in [Slot -> Place] /\ mem \in [Slot -> MemType] /\ mem[a] \in MemType /\ ProcessTask(a)
  BY SlotIssue, SetupFacts DEF OnceInv, LabelSibling, MarkSibling, PushSibling, ProcessTask
<1>1. /\ UNCHANGED <<task, setup>> /\ pc[a] \in {"sibling", "marker", "push"} /\ I(a)' = I(a)
      /\ labels[I(a)] \cap Deciding = {} /\ ("waiting" \in labels[I(a)] => mem[a].wait)
      /\ Outside \ Invitees \subseteq mem[a].cand \cup mem[a].next
  BY DEF LabelSibling, MarkSibling, PushSibling, I, Barred, Aware, Checking, Collecting
<1>2. labels'[I(a)] \cap Deciding = {} /\ ("waiting" \in labels'[I(a)] => "waiting" \in labels[I(a)])
  BY <1>0, <1>1, ReliableLabels DEF Deciding
<1>3. Outside' = Outside /\ Invitees \subseteq Invitees'
  BY <1>0, <1>1, MarkedGrows DEF Outside, OnceInv
<1>4. CASE LabelSibling(a, c)
  <2>1. UNCHANGED mem /\ pc'[a] = "marker"
    BY <1>0, <1>4 DEF LabelSibling, SlotGoes
  <2>2. ASSUME NEW d \in mem[a].next
        PROVE  "sibling" \in labels'[d]
    <3>1. mem[a].next = {c}
      BY <1>4 DEF LabelSibling, OnceInv, Judged, Fits
    <3>2. Edit(c, {"sibling"}, {})
      BY <1>4 DEF LabelSibling, BestEffort, Failure, Reliable
    <3>3. labels'[c] = (labels[c] \ {}) \cup {"sibling"}
      BY <1>0, <3>2, EditEffect
    <3> QED
      BY <3>1, <3>3
  <2> QED
    BY <1>1, <1>2, <1>3, <2>1, <2>2 DEF Aware
<1>5. CASE MarkSibling(a, c)
  <2>1. UNCHANGED mem /\ pc'[a] = "push"
    BY <1>0, <1>5, ReliableMarks DEF MarkSibling
  <2> QED
    BY <1>1, <1>2, <1>3, <2>1 DEF Aware
<1>6. CASE PushSibling(a, c)
  <2>1. mem'[a].cand = mem[a].cand /\ mem'[a].wait = mem[a].wait /\ pc'[a] = "candidates"
    BY <1>0, <1>6 DEF PushSibling, SlotGoes, MemType
  <2>2. mem[a].next \subseteq Invitees
    BY <1>6 DEF PushSibling, GroupInv, Hand
  <2> QED
    BY <1>1, <1>2, <1>3, <2>1, <2>2 DEF Aware
<1> QED
  BY <1>4, <1>5, <1>6

LEMMA AwareLabelWaiting ==
    ASSUME OnceInv, Lone, GroupInv, Reliable, Barred, NEW a \in Slot, LabelWaiting(a)
    PROVE  Aware(a)'
<1>0. GroupTypes /\ I(a) \in Issue /\ pc \in [Slot -> Place] /\ mem \in [Slot -> MemType] /\ mem[a] \in MemType /\ ProcessTask(a)
  BY SlotIssue, SetupFacts DEF OnceInv, LabelWaiting, ProcessTask
<1>1. /\ UNCHANGED <<task, setup>> /\ pc[a] = "candidates" /\ I(a)' = I(a) /\ pc'[a] = "comment"
      /\ labels[I(a)] \cap Deciding = {} /\ ("waiting" \in labels[I(a)] => mem[a].wait)
      /\ Outside \ Invitees \subseteq mem[a].cand \cup mem[a].next /\ mem[a].cand = {} /\ mem[a].next = {}
      /\ I(a) \in setup.fetched
  BY <1>0 DEF LabelWaiting, I, Barred, Aware, Checking, Collecting, OnceInv, Judged, Fits, SlotGoes, GroupInv, Hand
<1>2. labels'[I(a)] \cap Deciding = {}
  BY <1>0, <1>1, ReliableLabels DEF Deciding
<1>3. CASE mem[a].count > 0
  <2>1. mem' = [mem EXCEPT ![a] = [mem[a] EXCEPT !.wait = TRUE]]
    BY <1>3 DEF LabelWaiting
  <2>2. mem'[a].wait /\ mem'[a].res = mem[a].res
    BY <1>0, <2>1 DEF MemType
  <2>3. mem'[a].res = "rebase" => Waits(a)'
    BY <2>2 DEF Waits
  <2> QED
    BY <1>1, <1>2, <2>3 DEF Aware, Collecting
<1>4. CASE ~(mem[a].count > 0)
  <2>1. UNCHANGED <<mem, labels>>
    BY <1>4 DEF LabelWaiting
  <2>2. mem[a].wait => (mem[a].res = "rebase" => Waits(a)')
    BY <2>1 DEF Waits
  <2>3. ~mem[a].wait => AllIn
    <3>1. SUFFICES ASSUME ~mem[a].wait, Open # {}
                   PROVE  FALSE
      BY <1>1 DEF AllIn
    <3>2. "waiting" \notin labels[I(a)] /\ labels[I(a)] \cap Deciding = {}
      BY <1>1, <3>1
    <3>3. PICK b \in Slot : Holds(b, I(a))
      BY <1>1, <3>1, <3>2 DEF Barred, Withheld
    <3>4. b = a
      BY <1>0, <1>1, <3>3 DEF Holds, Collecting, GroupTypes, SlotTypes
    <3> QED
      BY <1>1, <1>4, <3>3, <3>4 DEF Holds
  <2>4. AllIn => AllIn'
    BY <1>0, AllInStays
  <2> QED
    BY <1>1, <1>2, <2>1, <2>2, <2>3, <2>4 DEF Aware, Collecting
<1> QED
  BY <1>3, <1>4

(* What the primary waits for shows in the labels of its siblings. *)
LEMMA AwareChecking ==
    ASSUME OnceInv, Lone, GroupInv, Reliable, Barred, NEW a \in Slot,
           CheckPrimary(a) \/ CheckSiblings(a) \/ ReleasePrimary(a) \/ PushPrimary(a)
    PROVE  Aware(a)'
<1>0. GroupTypes /\ I(a) \in Issue /\ pc \in [Slot -> Place] /\ ProcessTask(a)
  BY SlotIssue, SetupFacts DEF OnceInv, CheckPrimary, CheckSiblings, ReleasePrimary, PushPrimary, ProcessTask
<1>1. UNCHANGED <<task, setup, markers>> /\ I(a)' = I(a) /\ Outside' = Outside /\ Invitees' = Invitees
  BY DEF CheckPrimary, CheckSiblings, ReleasePrimary, PushPrimary, common, I, Outside, Invitees
<1>2. markers[I(a)] # <<>> => Primary(I(a)) \in setup.fetched /\ markers[I(a)] = <<Primary(I(a))>>
  BY <1>0 DEF GroupInv, MarkedBy, Primary
<1>3. CASE CheckPrimary(a)
  <2>1. /\ UNCHANGED labels
        /\ pc'[a] = (IF markers[I(a)] # <<>> /\ "waiting" \in labels[Primary(I(a))] THEN "siblings" ELSE "dispatch")
    BY <1>0, <1>3 DEF CheckPrimary, common, SlotGoes
  <2>2. pc'[a] = "siblings" => Outside \subseteq Invitees
    BY <1>2, <2>1 DEF Barred, Withheld
  <2> QED
    BY <1>1, <2>1, <2>2 DEF Aware, Collecting, Checking
<1>4. CASE CheckSiblings(a)
  <2>1. /\ UNCHANGED labels /\ Outside \subseteq Invitees /\ markers[I(a)] # <<>>
        /\ pc'[a] = (IF Pending(Primary(I(a))) = {} THEN "unwait" ELSE "dispatch")
    BY <1>0, <1>4, PrimaryIssue DEF CheckSiblings, common, SlotGoes, Barred, Aware
  <2>2. ASSUME NEW c \in Open
        PROVE  c \in Pending(Primary(I(a)))
    <3>1. c \in Issue /\ labels[c] \cap Deciding = {} /\ labels[c] \cap {"sibling", "in_progress"} # {}
      BY DEF Open, Invitees, Barred, Announced
    <3>2. PICK q \in setup.fetched : markers[c] = <<q>> /\ c \notin setup.fetched
      BY DEF Open, Invitees, GroupInv, MarkedBy
    <3>3. Primary(I(a)) = q /\ c # q
      BY <1>2, <2>1, <3>2 DEF Lone
    <3>4. q \in Range(markers[c])
      BY <3>2 DEF Range
    <3> QED
      BY <3>1, <3>3, <3>4 DEF Pending, Deciding
  <2>3. pc'[a] = "unwait" => AllIn
    BY <2>1, <2>2 DEF AllIn
  <2>4. AllIn => AllIn'
    BY <1>0, AllInStays
  <2> QED
    BY <1>1, <2>1, <2>3, <2>4 DEF Aware, Collecting, Checking
<1>5. CASE ReleasePrimary(a) \/ PushPrimary(a)
  <2>1. pc'[a] \in {"primary", "dispatch"}
    BY <1>0, <1>5 DEF ReleasePrimary, PushPrimary, SlotGoes
  <2> QED
    BY <2>1 DEF Aware, Collecting, Checking
<1> QED
  BY <1>3, <1>4, <1>5

LEMMA OwnAware ==
    ASSUME OnceInv, Lone, GroupInv, Reliable, Barred, NEW a \in Slot, ProcessTask(a)
    PROVE  Aware(a)'
<1>0. GroupTypes /\ Judged /\ pc \in [Slot -> Place] /\ Aware(a)
  BY SetupFacts DEF OnceInv, Barred
<1>1. pc'[a] \in {"idle", "guard", "dispatch", "check"} => Aware(a)'
  BY DEF Aware, Collecting, Checking
<1>2. CASE Take(a) \/ Done(a)
  <2>1. pc'[a] \in {"idle", "guard"}
    BY <1>0, <1>2 DEF Take, Done, SlotGoes
  <2> QED
    BY <1>1, <2>1
<1>3. CASE Stamp(a)
  <2>1. pc[a] = "stamp" /\ pc'[a] = "analyse" /\ I(a)' = I(a) /\ I(a) \in Issue /\ labels[I(a)] \cap Deciding = {}
    BY <1>0, <1>3, SlotIssue DEF Stamp, SlotGoes, I, Aware, Checking
  <2>2. labels'[I(a)] \cap Deciding = {}
    BY <2>1, ReliableLabels DEF Deciding
  <2> QED
    BY <2>1, <2>2 DEF Aware, Collecting
<1>4. CASE Comment(a)
  <2>1. /\ pc[a] = "comment" /\ pc'[a] \in {"label", "retry"} /\ UNCHANGED <<labels, task, mem, setup>> /\ I(a)' = I(a)
    BY <1>0, <1>4 DEF Comment, SlotGoes, I
  <2>2. (AllIn => AllIn') /\ Waits(a)' = Waits(a)
    BY <2>1, AllInStays DEF Waits
  <2> QED
    BY <1>0, <2>1, <2>2 DEF Aware, Collecting, Checking
<1>5. CASE LabelResult(a) /\ ~Done(a)
  <2>1. pc'[a] \in {"check", "dispatch"}
    BY <1>0, <1>5 DEF LabelResult, SlotGoes
  <2> QED
    BY <1>1, <2>1
<1>6. CASE Guard(a) \/ Dispatch(a) \/ Retry(a)
  BY <1>2, <1>6, AwareGuard DEF Dispatch, Retry
<1>7. CASE Analyse(a) \/ Consolidate(a) \/ CheckCandidate(a) \/ LabelWaiting(a)
  BY <1>7, AwareAnalyse, AwareConsolidate, AwareCheckCandidate, AwareLabelWaiting
<1>8. CASE \E c \in Issue : LabelSibling(a, c) \/ MarkSibling(a, c) \/ PushSibling(a, c)
  BY <1>8, AwareSibling
<1>9. CASE CheckPrimary(a) \/ CheckSiblings(a) \/ ReleasePrimary(a) \/ PushPrimary(a)
  BY <1>9, AwareChecking
<1> QED
  BY <1>2, <1>3, <1>4, <1>5, <1>6, <1>7, <1>8, <1>9 DEF ProcessTask

LEMMA BarredProcess ==
    ASSUME OnceInv, Lone, GroupInv, Reliable, Barred, NEW a \in Slot, ProcessTask(a)
    PROVE  Barred'
<1>1. \A b \in Slot : Aware(b)'
  BY OwnAware, OthersAware
<1> QED
  BY <1>1, AnnouncedStays, WithheldStays DEF Barred

(* Steps of others, which leave the labels of the group as they are. *)
LEMMA BarredRests ==
    ASSUME Barred, UNCHANGED <<triage, setup>>, setup.fetched \subseteq Issue,
           \A a \in Slot : pc[a] # "idle" => I(a) \in Issue /\ mem[a].next \subseteq Issue,
           \A j \in Issue : /\ \A l \in {"sibling", "waiting", "in_progress"} : l \in labels'[j] <=> l \in labels[j]
                            /\ labels'[j] \cap Deciding = {} <=> labels[j] \cap Deciding = {}
                            /\ "triaged_rebase" \in labels'[j] => "triaged_rebase" \in labels[j]
    PROVE  Barred'
<1>1. /\ UNCHANGED <<pc, mem, task, Outside, Invitees>>
      /\ \A b \in Slot : I(b)' = I(b) /\ Waits(b)' = Waits(b) /\ \A j \in Issue : Holds(b, j)' = Holds(b, j)
  BY DEF triage, Outside, Invitees, I, Waits, Holds
<1>2. UNCHANGED Open /\ (AllIn' <=> AllIn) /\ Invitees \subseteq Issue /\ Outside \subseteq Issue
  BY <1>1 DEF Open, AllIn, Invitees, Outside
<1>3. Announced'
  <2>1. ASSUME NEW c \in Open
        PROVE  labels'[c] \cap {"sibling", "in_progress"} # {}
    <3>1. c \in Issue /\ labels[c] \cap {"sibling", "in_progress"} # {}
      BY <1>2 DEF Barred, Announced, Open
    <3> QED
      BY <3>1
  <2>2. \A i \in Issue : labels'[i] \cap Deciding # {} => "in_progress" \notin labels'[i]
    BY DEF Barred, Announced
  <2>3. \A c \in Outside \ Invitees : "sibling" \in labels'[c] => \E a \in Slot : pc[a] = "marker" /\ c \in mem[a].next
    BY <1>2 DEF Barred, Announced
  <2> QED
    BY <1>1, <1>2, <2>1, <2>2, <2>3 DEF Announced
<1>4. Withheld'
  <2>1. ASSUME NEW i \in setup.fetched
        PROVE  /\ Open # {} => "waiting" \in labels'[i] \/ labels'[i] \cap Deciding # {} \/ \E a \in Slot : Holds(a, i)
               /\ "waiting" \in labels'[i] => Outside \subseteq Invitees
               /\ "triaged_rebase" \in labels'[i] => AllIn
    BY DEF Barred, Withheld
  <2>2. \A i \in setup.fetched, a \in Slot : Holds(a, i)' = Holds(a, i)
    BY <1>1
  <2> QED
    BY <1>1, <1>2, <2>1, <2>2 DEF Withheld
<1>5. ASSUME NEW a \in Slot
      PROVE  Aware(a)'
  <2>1. Aware(a)
    BY DEF Barred
  <2>2. CASE pc[a] = "idle"
    BY <1>1, <2>2 DEF Aware, Collecting
  <2>3. CASE pc[a] # "idle"
    <3>1. I(a) \in Issue /\ mem[a].next \subseteq Issue
      BY <2>3
    <3>2. "waiting" \in labels'[I(a)] <=> "waiting" \in labels[I(a)]
      BY <3>1
    <3>3. labels'[I(a)] \cap Deciding = {} <=> labels[I(a)] \cap Deciding = {}
      BY <3>1
    <3>4. \A c \in mem[a].next : "sibling" \in labels'[c] <=> "sibling" \in labels[c]
      BY <3>1
    <3> QED
      BY <1>1, <1>2, <2>1, <3>2, <3>3, <3>4 DEF Aware
  <2> QED
    BY <2>2, <2>3
<1> QED
  BY <1>3, <1>4, <1>5 DEF Barred

(* The net of the fetcher takes a label only when the siblings are done. *)
LEMMA BarredRescue ==
    ASSUME OnceInv, GroupInv, Barred, Rescue
    PROVE  Barred'
<1>1. /\ \A j \in Issue : labels'[j] = labels[j] \/ (labels'[j] = {} /\ j \in Abandoned)
      /\ Abandoned \subseteq setup.fetched /\ UNCHANGED <<setup, triage>> /\ \A a \in Slot : pc[a] = "idle"
  BY RescueEffect DEF OnceInv
<1>2. UNCHANGED <<pc, mem, markers, task, setup, Outside, Invitees>> /\ setup.fetched \subseteq Issue

  BY <1>1, SetupFacts DEF triage, Outside, Invitees, OnceInv
<1>3. \A c \in Outside \cup Invitees : c \in Issue /\ labels'[c] = labels[c]
  BY <1>1 DEF Outside, Invitees, GroupInv, MarkedBy
<1>4. UNCHANGED Open /\ (AllIn' <=> AllIn) /\ Open \subseteq Invitees
  BY <1>2, <1>3 DEF Open, AllIn
<1>5. Announced'
  BY <1>1, <1>2, <1>3, <1>4 DEF Barred, Announced
<1>6. \A a \in Slot : Aware(a)'
  BY <1>1, <1>2 DEF Aware, Collecting
<1>7. ASSUME NEW i \in Abandoned
      PROVE  Open = {}
  <2>1. labels[i] \in {{"in_progress"}, {"triaged_rebase"}} /\ i \in setup.fetched
    BY <1>1 DEF Abandoned
  <2>2. CASE labels[i] = {"triaged_rebase"}
    BY <2>1, <2>2 DEF Barred, Withheld, AllIn
  <2>3. CASE labels[i] = {"in_progress"}
    <3>1. "waiting" \notin labels[i] /\ labels[i] \cap Deciding = {} /\ \A a \in Slot : ~Holds(a, i)
      BY <1>1, <2>3 DEF Deciding, Holds, Collecting
    <3> QED
      BY <2>1, <3>1 DEF Barred, Withheld
  <2> QED
    BY <2>1, <2>2, <2>3
<1>8. Withheld'
  <2>1. ASSUME NEW i \in setup.fetched
        PROVE  /\ Open # {} => "waiting" \in labels'[i] \/ labels'[i] \cap Deciding # {} \/ \E a \in Slot : Holds(a, i)
               /\ "waiting" \in labels'[i] => Outside \subseteq Invitees
               /\ "triaged_rebase" \in labels'[i] => AllIn
    BY <1>1, <1>2, <1>7 DEF Barred, Withheld
  <2>2. \A a \in Slot : pc[a] = "idle"
    BY <1>1
  <2>3. \A i \in setup.fetched, a \in Slot : ~Holds(a, i)
    BY <2>2 DEF Holds, Collecting
  <2> QED
    BY <1>2, <1>4, <2>1, <2>3 DEF Withheld
<1> QED
  BY <1>5, <1>6, <1>8 DEF Barred

LEMMA BarredOthers ==
    ASSUME OnceInv, GroupInv, Reliable, Barred,
           \/ \E i \in Issue : Fetch(i) \/ RebaseStart(i) \/ RebaseEnd(i) \/ Reproduce(i)
           \/ Sweeping \/ Rescue \/ Crash \/ UNCHANGED groupsVars
    PROVE  Barred'
<1>0. /\ setup.fetched \subseteq Issue /\ labels \in [Issue -> SUBSET Label]
      /\ \A a \in Slot : pc[a] # "idle" => I(a) \in Issue /\ mem[a].next \subseteq Issue
  BY SetupFacts, SlotIssue DEF OnceInv, MemType
<1>1. ASSUME UNCHANGED <<labels, triage, setup>>
      PROVE  Barred'
  BY <1>0, <1>1, BarredRests
<1>2. CASE \E i \in Issue : Fetch(i) \/ RebaseStart(i)
  BY <1>1, <1>2 DEF Fetch, RebaseStart, common
<1>3. ASSUME NEW i \in Issue, Reproduce(i)
      PROVE  Barred'
  <2>1. UNCHANGED <<triage, setup>> /\ Edit(i, {"reproduced"}, {})
    BY <1>3 DEF Reproduce
  <2>2. \A j \in Issue : labels'[j] = IF j = i THEN (labels[j] \ {}) \cup {"reproduced"} ELSE labels[j]
    BY <2>1, EditEffect DEF OnceInv
  <2>3. \A j \in Issue : /\ \A l \in {"sibling", "waiting", "in_progress"} : l \in labels'[j] <=> l \in labels[j]
                         /\ labels'[j] \cap Deciding = {} <=> labels[j] \cap Deciding = {}
                         /\ "triaged_rebase" \in labels'[j] => "triaged_rebase" \in labels[j]
    <3>1. ASSUME NEW j \in Issue
          PROVE  labels'[j] = labels[j] \/ labels'[j] = labels[j] \cup {"reproduced"}
      BY <2>2
    <3>2. "reproduced" \notin Deciding \cup {"sibling", "waiting", "in_progress", "triaged_rebase"}
      BY DEF Deciding
    <3> QED
      BY <3>1, <3>2
  <2> QED
    BY <1>0, <2>1, <2>3, BarredRests

<1>4. ASSUME NEW i \in Issue, RebaseEnd(i)
      PROVE  Barred'
  <2>1. UNCHANGED <<triage, setup>> /\ i \in rebasing
    BY <1>4 DEF RebaseEnd
  <2>2. "triaged_rebase" \in labels[i]
    <3>1. Counted(i) /\ Rebases(i) = rebaseq[i] + 1 /\ rebaseq[i] \in Nat
      BY <2>1, SetupFacts DEF OnceInv, Reliable, Rebases
    <3> QED
      BY <3>1 DEF Counted, Settled
  <2>3. PICK outcome \in {"rebased", "failed"} : Edit(i, {outcome}, {"triaged_rebase"})
    BY <1>4 DEF RebaseEnd
  <2>4. \A j \in Issue : labels'[j] = IF j = i THEN (labels[j] \ {"triaged_rebase"}) \cup {outcome} ELSE labels[j]
    BY <2>3, EditEffect DEF OnceInv
  <2>5. \A j \in Issue : /\ \A l \in {"sibling", "waiting", "in_progress"} : l \in labels'[j] <=> l \in labels[j]
                         /\ labels'[j] \cap Deciding = {} <=> labels[j] \cap Deciding = {}
                         /\ "triaged_rebase" \in labels'[j] => "triaged_rebase" \in labels[j]
    BY <2>2, <2>4 DEF Deciding
  <2> QED
    BY <1>0, <2>1, <2>5, BarredRests
<1>5. CASE Sweeping
  <2>1. UNCHANGED triage /\ GroupTypes
    BY <1>5 DEF Sweeping, OnceInv
  <2>2. \A j \in Issue : labels'[j] = labels[j]
    BY <1>5, <2>1, SweepsPass DEF OnceInv, Reliable, Unposted, Unswept
  <2>3. UNCHANGED setup
    BY <1>5, SetupStays DEF GroupsNext
  <2> QED
    BY <1>0, <2>1, <2>2, <2>3, BarredRests
<1>6. CASE UNCHANGED groupsVars
  BY <1>1, <1>6 DEF groupsVars, common
<1>7. ~Crash
  BY DEF Crash, Failure, Reliable
<1> QED
  BY <1>2, <1>3, <1>4, <1>5, <1>6, <1>7, BarredRescue

LEMMA BarredNext ==
    ASSUME OnceInv, Lone, GroupInv, Reliable, Barred, [GroupsNext]_groupsVars
    PROVE  Barred'
  BY BarredProcess, BarredOthers DEF GroupsNext

LEMMA BarredInit == GroupsInit => Barred
<1> SUFFICES ASSUME GroupsInit
             PROVE  Barred
  OBVIOUS
<1>1. Invitees = {} /\ Open = {} /\ \A i \in Issue : labels[i] = {}
  BY DEF GroupsInit, Invitees, Open
<1>2. setup.fetched \subseteq Issue
  BY TypesInit, SetupFacts
<1>3. Announced /\ Withheld
  BY <1>1, <1>2 DEF Announced, Withheld, Outside
<1>4. \A a \in Slot : Aware(a)
  BY DEF GroupsInit, Aware, Collecting
<1> QED
  BY <1>3, <1>4 DEF Barred

-----------------------------------------------------------------------------
(* The barrier sees decisions about issues that are marked.                   *)
LEMMA AlikeWhen ==
    ASSUME UNCHANGED markers, \A c \in Invitees : labels'[c] \cap Deciding = labels[c] \cap Deciding
    PROVE  Alike
<1>1. \A p \in Issue : Invited(p)' = Invited(p) /\ Invited(p) \subseteq Invitees
  BY DEF Invited, Invitees, Range
<1>2. \A c \in Invitees : "triaged_rebase" \in labels'[c] <=> "triaged_rebase" \in labels[c]
  BY DEF Deciding
<1> QED
  BY <1>1, <1>2 DEF Alike, Undecided, Needing

(* A slot takes back the decisions about its issue, or decides.               *)
LEMMA OwnDecision ==
    ASSUME GroupTypes, GroupInv, NEW a \in Slot, ProcessTask(a), pc[a] # "idle", NEW c \in Invitees, I(a) = c
    PROVE  labels'[c] \cap Deciding \in {labels[c] \cap Deciding, {}} \/ labels[c] \cap Deciding = {}
<1>0. c \in Issue /\ c \notin setup.fetched
  BY DEF GroupInv, MarkedBy, Invitees
<1>1. CASE pc[a] \in {"label", "retry"}
  BY <1>0, <1>1 DEF GroupInv, Hand
<1>2. CASE Stamp(a)
  <2>1. labels'[c] = (labels[c] \ (mem[a].cur \ {"in_progress", "waiting"})) \cup {"in_progress"}
    <3>1. labels'[c] = IF c = I(a) THEN (labels[c] \ (mem[a].cur \ {"in_progress", "waiting"})) \cup {"in_progress"}
                                   ELSE labels[c]
      BY <1>0, <1>2, EditEffect DEF Stamp
    <3> QED
      BY <3>1
  <2>2.
 mem[a].cur \cap Deciding = labels[c] \cap Deciding
    BY <1>0, <1>2 DEF Stamp, GroupInv, Hand
  <2> QED
    BY <2>1, <2>2 DEF Deciding
<1>3. ASSUME NEW d, NEW add \in SUBSET Coordination, NEW remove \in SUBSET Coordination, Edit(d, add, remove)
      PROVE  labels'[c] \cap Deciding = labels[c] \cap Deciding
  <2>1. labels'[c] = IF c = d THEN (labels[c] \ remove) \cup add ELSE labels[c]
    BY <1>0, <1>3, EditEffect
  <2>2. Coordination \cap Deciding = {}
    BY DEF Coordination, Deciding
  <2> QED
    BY <1>3, <2>1, <2>2
<1>4. UNCHANGED labels => labels'[c] \cap Deciding = labels[c] \cap Deciding
  OBVIOUS
<1>5. {"sibling"} \subseteq Coordination /\ {"waiting"} \subseteq Coordination /\ {} \subseteq Coordination
  BY DEF Coordination
<1>6. LabelWaiting(a) => labels'[c] \cap Deciding = labels[c] \cap Deciding
  BY <1>3, <1>4, <1>5 DEF LabelWaiting, BestEffort
<1>7. \A d \in Issue : LabelSibling(a, d) \/ MarkSibling(a, d) => labels'[c] \cap Deciding = labels[c] \cap Deciding
  BY <1>3, <1>4, <1>5 DEF LabelSibling, MarkSibling, BestEffort
<1>8. ReleasePrimary(a) => labels'[c] \cap Deciding = labels[c] \cap Deciding
  BY <1>3, <1>4, <1>5 DEF ReleasePrimary
<1> QED
  BY <1>1, <1>2, <1>4, <1>6, <1>7, <1>8
     DEF ProcessTask, Take, Guard, Analyse, Consolidate, CheckCandidate, Comment, PushSibling, LabelResult, CheckPrimary,
         CheckSiblings, PushPrimary, Dispatch, Retry, common

(* A step of triage is a step of the barrier.                                 *)
LEMMA BarrierMarks ==
    ASSUME GroupTypes, Judged, Lone, GroupInv, NEW a \in Slot, ProcessTask(a), ~UNCHANGED markers, UNCHANGED <<merged, setup>>
    PROVE  Barrier!Next
<1>1. PICK c \in Outside \ Invitees :
         /\ UNCHANGED labels /\ I(a) \in setup.fetched /\ markers' = [markers EXCEPT ![c] = <<I(a)>>]
  BY MarkEffect
<1>2. c \in Issue /\ c # I(a) /\ I(a) \in Issue /\ markers \in [Issue -> Seq(Issue)] /\ markers[c] = <<>>
  BY <1>1, SetupFacts DEF Outside, Invitees
<1>3. labels[c] \cap Deciding = {} /\ "triaged_rebase" \notin labels[c]
  BY <1>1 DEF GroupInv, Outsider, Untouched, Deciding
<1>4. \A d \in Issue : markers'[d] = IF d = c THEN <<I(a)>> ELSE markers[d]
  BY <1>1, <1>2
<1>5. Range(<<>>) = {} /\ Range(<<I(a)>>) = {I(a)}
  BY DEF Range
<1>6. \A q \in Issue : Invited(q)' = (IF q = I(a) THEN Invited(q) \cup {c} ELSE Invited(q))
  BY <1>2, <1>4, <1>5 DEF Invited
<1>7. c \notin Needing(I(a))
  BY <1>3 DEF Needing
<1>8. \A q \in Issue : Undecided(q)' = (IF q = I(a) THEN Undecided(q) \cup {c} ELSE Undecided(q)) /\ Needing(q)' = Needing(q)
  BY <1>1, <1>3, <1>6 DEF Undecided, Needing
<1> QED
  BY <1>2, <1>7, <1>8, BarrierInvite

LEMMA BarrierTriage ==
    ASSUME GroupTypes, Judged, Lone, GroupInv, NEW a \in Slot, ProcessTask(a)
    PROVE  [Barrier!Next]_barrierVars
<1>1. UNCHANGED setup /\ UNCHANGED merged
  <2>1. UNCHANGED setup
    BY OnlyOne
  <2>2. UNCHANGED merged
    BY DEF ProcessTask, Take, Guard, Stamp, Analyse, Consolidate, CheckCandidate, LabelWaiting, Comment, LabelSibling,
           MarkSibling, PushSibling, LabelResult, CheckPrimary, CheckSiblings, ReleasePrimary, PushPrimary, Dispatch, Retry, rebase
  <2> QED
    BY <2>1, <2>2
<1>2. CASE ~UNCHANGED markers
  BY <1>1, <1>2, BarrierMarks
<1>3. CASE UNCHANGED markers /\ \A c \in Invitees : labels'[c] \cap Deciding = labels[c] \cap Deciding
  BY <1>1, <1>3, AlikeWhen, BarrierRests
<1>4. ASSUME UNCHANGED markers, NEW c \in Invitees, labels'[c] \cap Deciding # labels[c] \cap Deciding
      PROVE  Barrier!Next
  <2>1. \A d \in Issue : d # c => labels'[d] \cap Deciding = labels[d] \cap Deciding
    <3>1. On(a, c)
      BY <1>4, LabelEffect DEF Invitees, Coordination, Deciding
    <3> QED
      BY <3>1, LabelEffect DEF On, Coordination, Deciding
  <2>2. labels'[c] \cap Deciding = {} \/ labels[c] \cap Deciding = {}
    <3>1. On(a, c)
      BY <1>4, LabelEffect DEF Invitees, Coordination, Deciding
    <3> QED
      BY <1>4, <3>1, OwnDecision DEF On
  <2>3. \A d \in Issue : d # c => ("triaged_rebase" \in labels'[d] <=> "triaged_rebase" \in labels[d])
    BY <2>1 DEF Deciding
  <2>4. PICK q \in Issue : markers[c] = <<q>> /\ q \in setup.fetched /\ c \notin setup.fetched
    BY SetupFacts DEF GroupInv, MarkedBy, Invitees
  <2>5. \A r \in Issue : Invited(r)' = Invited(r) /\ (c \in Invited(r) <=> r = q) /\ Invited(r) \subseteq Issue
    <3>1. Range(<<q>>) = {q} /\ c \in Issue
      BY DEF Range, Invitees
    <3> QED
      BY <1>4, <2>4, <3>1 DEF Invited
  <2>6. c # q /\ c \in Invited(q) /\ c \in Issue
    BY <2>4, <2>5 DEF Invitees
  <2>7. CASE labels[c] \cap Deciding = {}
    <3>1. c \in Undecided(q) /\ "triaged_rebase" \notin labels[c] /\ labels'[c] \cap Deciding # {}
      BY <1>4, <2>6, <2>7 DEF Undecided, Deciding
    <3>2. \A r \in Issue : Undecided(r)' = Undecided(r) \ {c}
      BY <2>1, <2>5, <3>1 DEF Undecided
    <3>3. CASE "triaged_rebase" \in labels'[c]
      <4>1. \A r \in Issue : Needing(r)' = Needing(r) \cup (Undecided(r) \cap {c})
        BY <2>3, <2>5, <2>7, <3>3 DEF Needing, Undecided
      <4> QED
        BY <1>1, <2>6, <3>1, <3>2, <4>1, BarrierDecide
    <3>4. CASE "triaged_rebase" \notin labels'[c]
      <4>1. \A r \in Issue : Needing(r)' = Needing(r)
        BY <2>3, <2>5, <3>1, <3>4 DEF Needing
      <4> QED
        BY <1>1, <2>6, <3>1, <3>2, <4>1, BarrierDecide
    <3> QED
      BY <3>3, <3>4
  <2>8. CASE labels[c] \cap Deciding # {}
    <3>1. labels'[c] \cap Deciding = {} /\ "triaged_rebase" \notin labels'[c]
      BY <2>2, <2>8 DEF Deciding
    <3>2. CASE "triaged_rebase" \in labels[c]
      <4>1. \A r \in Issue : Needing(r)' = Needing(r) \ {c}
        BY <2>3, <2>5, <3>1 DEF Needing
      <4>2. \A r \in Issue : Undecided(r)' = Undecided(r) \cup (Needing(r) \cap {c})
        BY <2>1, <2>5, <3>1, <3>2 DEF Undecided, Needing
      <4> QED
        BY <1>1, <2>6, <4>1, <4>2, BarrierReconsider
    <3>3. CASE "triaged_rebase" \notin labels[c]
      <4>1. \A r \in Issue : Needing(r)' = Needing(r)
        BY <2>3, <2>5, <3>1, <3>3 DEF Needing
      <4>2. \A r \in Issue : Undecided(r)' = (IF r = q THEN Undecided(r) \cup {c} ELSE Undecided(r))
        BY <2>1, <2>5, <3>1 DEF Undecided
      <4>3. c \notin Needing(q)
        BY <3>3 DEF Needing
      <4> QED
        BY <1>1, <2>6, <4>1, <4>2, <4>3, BarrierInvite
    <3> QED
      BY <3>2, <3>3
  <2> QED
    BY <2>7, <2>8
<1> QED
  BY <1>2, <1>3, <1>4

(* So is the start of a rebase: where nothing is lost, all are decided.       *)
LEMMA BarrierRebases ==
    ASSUME OnceInv, GroupInv, Sure => Reliable /\ Barred, NEW i \in Issue, RebaseStart(i)
    PROVE  Barrier!Next
<1>1. UNCHANGED <<labels, setup, markers>> /\ rebaseq[i] > 0 /\ rebaseq[i] \in Nat
  BY SetupFacts DEF RebaseStart, common, triage, OnceInv
<1>2. i \in setup.fetched
  BY <1>1 DEF GroupInv, Outsider, Outside
<1>3. Alike
  BY <1>1, AlikeWhen
<1>4. \A c \in Invited(i) : c # i /\ c \in Invitees
  BY <1>2 DEF Invited, Invitees, Range, GroupInv, MarkedBy
<1>5. merged' = [merged EXCEPT ![i] = Needing(i)]
  <2>1. {c \in Issue \ {i} : "triaged_rebase" \in labels[c] /\ i \in Range(markers[c])} = Needing(i)
    BY <1>4 DEF Needing, Invited
  <2> QED
    BY <2>1 DEF RebaseStart
<1>6. Sure => Undecided(i) = {}
  <2> SUFFICES ASSUME Sure
               PROVE  Undecided(i) = {}
    OBVIOUS
  <2>1. Counted(i)
    BY DEF Reliable, OnceInv
  <2>2. Rebases(i) = 1
    BY <1>1, <2>1 DEF Counted, Rebases
  <2>3. AllIn
    BY <1>2, <2>1, <2>2 DEF Counted, Settled, Barred, Withheld
  <2> QED
    BY <1>4, <2>3 DEF AllIn, Open, Undecided
<1> QED
  BY <1>1, <1>3, <1>5, <1>6, BarrierStart

LEMMA BarrierOthers ==
    ASSUME GroupTypes, GroupInv,
           \/ \E i \in Issue : Fetch(i) \/ RebaseEnd(i) \/ Reproduce(i)
           \/ Sweeping \/ Rescue \/ Crash \/ UNCHANGED groupsVars
    PROVE  UNCHANGED barrierVars
<1>0. \A c \in Invitees : c \in Issue /\ c \in Outside /\ c \notin setup.fetched /\ c \notin rebasing
  BY DEF Invitees, Outside, GroupInv, MarkedBy, Outsider
<1>1. UNCHANGED setup
  BY SetupStays DEF GroupsNext
<1>2. UNCHANGED <<markers, merged>>
  BY DEF Fetch, RebaseEnd, Reproduce, Sweeping, Rescue, Crash, groupsVars, triage, rebase
<1>3. ASSUME NEW c \in Invitees
      PROVE  labels'[c] \cap Deciding = labels[c] \cap Deciding
  <2>1. CASE UNCHANGED labels
    BY <2>1
  <2>2. ASSUME NEW i \in Issue, RebaseEnd(i)
        PROVE  labels'[c] \cap Deciding = labels[c] \cap Deciding
    <3>1. PICK outcome : Edit(i, {outcome}, {"triaged_rebase"})
      BY <2>2 DEF RebaseEnd
    <3>2. i # c
      BY <1>0, <2>2 DEF RebaseEnd
    <3> QED
      BY <1>0, <3>1, <3>2, EditEffect
  <2>3. ASSUME NEW i \in Issue, Reproduce(i)
        PROVE  labels'[c] \cap Deciding = labels[c] \cap Deciding
    <3>1. labels'[c] = labels[c] \/ labels'[c] = (labels[c] \ {}) \cup {"reproduced"}
      BY <1>0, <2>3, EditEffect DEF Reproduce
    <3> QED
      BY <3>1 DEF Deciding
  <2>4. CASE Sweeping
    <3>1. labels'[c] \ (Postponement \cup {"in_progress"}) = labels[c] \ (Postponement \cup {"in_progress"})
      BY <1>0, <2>4, SweptLabels
    <3>2. Deciding \cap (Postponement \cup {"in_progress"}) = {}
      BY DEF Deciding, Postponement
    <3> QED
      BY <3>1, <3>2
  <2>5. CASE Rescue
    BY <1>0, <2>5, RescueEffect
  <2> QED
    BY <2>1, <2>2, <2>3, <2>4, <2>5 DEF Fetch, Crash, groupsVars, common
<1> QED
  BY <1>1, <1>2, <1>3, AlikeWhen, BarrierRests

LEMMA BarrierSteps ==
    ASSUME OnceInv, Lone, GroupInv, Sure => Reliable /\ Barred, [GroupsNext]_groupsVars
    PROVE  [Barrier!Next]_barrierVars
  BY BarrierTriage, BarrierRebases, BarrierOthers DEF GroupsNext, OnceInv

(* What the theorem below is about never changes. *)
LEMMA SameSetup ==
    ASSUME UNCHANGED setup
    PROVE  Lone' = Lone /\ Sure' = Sure /\ Reliable' = Reliable
  BY DEF Lone, Sure, Reliable, Steady

Guarded == Lone /\ (Sure => Reliable)
BarrierInv == OnceInv /\ GroupInv /\ (Sure => Barred)

(* The labels and comments of triage (rebase_consolidation.py) implement the  *)
(* barrier where one issue of the group is fetched and, unless labels may be  *)
(* lost or pods die, no comment to a sibling fails and nobody is postponed:   *)
(* the rebase of the primary takes in exactly the siblings found to need it   *)
(* and, where no label is lost and no pod dies, starts when triage has        *)
(* decided about all of them.                                                 *)
THEOREM GroupsKeepBarrier == GroupsSpec /\ Guarded => BarrierKept
<1>1. GroupsInit => BarrierInv
  BY OnceInit, GroupInit, BarredInit DEF BarrierInv
<1>2. Guarded /\ [GroupsNext]_groupsVars => Guarded'
  BY SetupStays, SameSetup DEF Guarded
<1>3. Guarded /\ BarrierInv /\ [GroupsNext]_groupsVars => BarrierInv'
  BY OnceNext, GroupNext, BarredNext, SetupStays, SameSetup DEF Guarded, BarrierInv, OnceInv
<1>4. Guarded /\ BarrierInv /\ [GroupsNext]_groupsVars => [Barrier!Next]_barrierVars
  BY BarrierSteps DEF Guarded, BarrierInv
<1> QED
  BY <1>1, <1>2, <1>3, <1>4, BarrierInit, PTL DEF GroupsSpec, BarrierKept, Barrier!Spec, barrierVars
=============================================================================
