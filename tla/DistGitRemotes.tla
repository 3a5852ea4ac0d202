--------------------------- MODULE DistGitRemotes ---------------------------
(***************************************************************************)
(* What agents that fix several issues of one package share outside the    *)
(* cluster: the fork of its repository, the Z-stream branch that the first *)
(* of them creates in dist-git and that GitLab mirrors, and the merge      *)
(* requests (ymir/tools/privileged/gitlab.py, distgit.py, and their caller *)
(* fork_and_prepare_dist_git in ymir/agents/tasks.py).  Nothing locks      *)
(* them.  Credentials, paths and file contents are left out.               *)
(***************************************************************************)
EXTENDS Integers, Sequences, FiniteSetsExt

CONSTANTS
    Fixer,              \* agents, each with an issue and an update branch
    Versions,           \* the NVR of each commit of the main branch
    MaxRemoteFaults,    \* failing calls and lost answers
    MaxRemoteAttempts,  \* attempts of an agent
    MaxMerges           \* merge requests that people merge

ASSUME RemoteAssumption ==
    /\ MaxRemoteFaults \in Nat /\ MaxRemoteAttempts \in Nat /\ MaxMerges \in Nat
    /\ DOMAIN Versions = 1..Cardinality(DOMAIN Versions)

VARIABLES
    distgit,    \* the package in dist-git: main, builds of the stream, branch
    mirror,     \* its branch in GitLab
    fork,       \* the fork, and the update branch of each agent in it
    mrs,        \* merge requests
    fixer,      \* fixer[a]: the agent
    remoteFaults
remoteVars == <<distgit, mirror, fork, mrs, fixer, remoteFaults>>

Commit   == DOMAIN Versions
NoBranch == [base |-> 0, merged |-> 0]
NoMR     == 0
NewFixer == [pc |-> "fork", attempt |-> 1, seen |-> 0, ref |-> 0, mr |-> NoMR, new |-> FALSE]

(* fromMain: the branch is cut from the main branch, not a later Z-stream's.  *)
RemoteInit ==
    /\ distgit \in [main : {2}, builds : {{1}}, branch : {NoBranch}, fromMain : BOOLEAN]
    /\ mirror = NoBranch
    /\ fork = [state |-> "absent", heads |-> [a \in Fixer |-> 0]]
    /\ mrs = <<>> /\ fixer = [a \in Fixer |-> NewFixer]
    /\ remoteFaults = 0

-----------------------------------------------------------------------------
FixerAt(a, pc)   == fixer[a].pc = pc
FixerGoes(a, pc) == fixer' = [fixer EXCEPT ![a].pc = pc]
RemoteFault      == remoteFaults < MaxRemoteFaults /\ remoteFaults' = remoteFaults + 1
Sound            == UNCHANGED remoteFaults
RemotesSame      == UNCHANGED <<distgit, mirror, fork, mrs>>

(* A call that fails, or a wait that takes too long, ends the attempt.        *)
CallFails(a) ==
    /\ fixer[a].pc \notin {"done", "failed", "clone"} /\ RemoteFault
    /\ FixerGoes(a, "failed") /\ RemotesSame
Retry(a) ==
    /\ FixerAt(a, "failed") /\ fixer[a].attempt < MaxRemoteAttempts
    /\ fixer' = [fixer EXCEPT ![a] = [NewFixer EXCEPT !.attempt = fixer[a].attempt + 1]]
    /\ RemotesSame /\ Sound

(* fork_repository: a fork that exists is taken as it is; one that is created *)
(* here, or by another agent in the meantime, is waited for.                  *)
FindFork(a) ==
    /\ FixerAt(a, "fork") /\ FixerGoes(a, IF fork.state = "absent" THEN "create fork" ELSE "check")
    /\ RemotesSame /\ Sound
CreateFork(a) ==
    /\ FixerAt(a, "create fork") /\ FixerGoes(a, "wait for fork")
    /\ fork' = [fork EXCEPT !.state = IF @ = "absent" THEN "importing" ELSE @]
    /\ UNCHANGED <<distgit, mirror, mrs>> /\ Sound
ForkReady(a) ==
    /\ FixerAt(a, "wait for fork") /\ fork.state \in {"ready", "failed"}
    /\ FixerGoes(a, IF fork.state = "ready" THEN "check" ELSE "failed")
    /\ RemotesSame /\ Sound
ForkImported ==
    /\ fork.state = "importing"
    /\ \/ fork' = [fork EXCEPT !.state = "ready"] /\ Sound
       \/ fork' = [fork EXCEPT !.state = "failed"] /\ RemoteFault
    /\ UNCHANGED <<distgit, mirror, mrs, fixer>>

-----------------------------------------------------------------------------
(* create_zstream_branch *)

CheckMirror(a) ==
    /\ FixerAt(a, "check") /\ FixerGoes(a, IF mirror = NoBranch THEN "clone dist-git" ELSE "clone")
    /\ RemotesSame /\ Sound
(* The branches that the clone shows; it is not looked at again.              *)
CloneDistGit(a) ==
    /\ FixerAt(a, "clone dist-git")
    /\ fixer' = [fixer EXCEPT ![a] = [fixer[a] EXCEPT !.seen = distgit.main,
                    !.pc = IF distgit.branch = NoBranch THEN "pick" ELSE "wait for mirror"]]
    /\ RemotesSame /\ Sound

(* _find_latest_same_nvr_ref: from the build on, while the NVR is the same. *)
LatestSameNVR(ref, seen) == Max({c \in ref..seen : \A d \in ref..c : Versions[d] = Versions[ref]})

PickRef(a) ==
    /\ FixerAt(a, "pick")
    /\ LET build == Max(distgit.builds) IN
       IF build > fixer[a].seen THEN FixerGoes(a, "failed")
       ELSE fixer' = [fixer EXCEPT ![a] = [fixer[a] EXCEPT !.pc = "push branch", !.seen = 0,
                    !.ref = IF distgit.fromMain THEN LatestSameNVR(build, fixer[a].seen) ELSE build]]
    /\ RemotesSame /\ Sound

(* Mutant: the push is forced. *)
PushForced(a) ==
    /\ FixerAt(a, "push branch") /\ FixerGoes(a, "wait for mirror")
    /\ distgit' = [distgit EXCEPT !.branch = [base |-> fixer[a].ref, merged |-> 0]]
    /\ UNCHANGED <<mirror, fork, mrs>> /\ Sound

(* A push of the commit to the branch, which may exist by now: it is refused  *)
(* unless it is a fast-forward.  A server may refuse it silently, which is    *)
(* noticed; an answer that is lost is followed by another push.               *)
PushBranch(a) ==
    /\ FixerAt(a, "push branch")
    /\ LET ref == fixer[a].ref  old == distgit.branch
           forward == old.merged = 0 /\ ref >= old.base
       IN  \/ /\ forward /\ distgit' = [distgit EXCEPT !.branch = [base |-> ref, merged |-> 0]]
              /\ (Sound /\ FixerGoes(a, "wait for mirror")) \/ (RemoteFault /\ UNCHANGED fixer)
           \/ ~forward /\ FixerGoes(a, "failed") /\ UNCHANGED distgit /\ Sound
    /\ UNCHANGED <<mirror, fork, mrs>>

MirrorSeen(a) ==
    /\ FixerAt(a, "wait for mirror") /\ mirror # NoBranch
    /\ fixer' = [fixer EXCEPT ![a] = [fixer[a] EXCEPT !.pc = "clone", !.seen = 0, !.ref = 0]] /\ RemotesSame /\ Sound

(* Dist-git: main goes on, the stream gets another build, GitLab follows.     *)
MainAdvances == /\ distgit.main < Cardinality(Commit) /\ distgit' = [distgit EXCEPT !.main = @ + 1]
                /\ UNCHANGED <<mirror, fork, mrs, fixer>> /\ Sound
StreamBuilt  == /\ \E c \in 1..distgit.main : c > Max(distgit.builds) /\ distgit' = [distgit EXCEPT !.builds = @ \cup {c}]
                /\ UNCHANGED <<mirror, fork, mrs, fixer>> /\ Sound
Mirrored     == /\ mirror # distgit.branch /\ mirror' = distgit.branch
                /\ UNCHANGED <<distgit, fork, mrs, fixer>> /\ Sound

-----------------------------------------------------------------------------
(* clone_repository; the work; push_to_remote_repository, with --force.       *)
CloneAndWork(a) == FixerAt(a, "clone") /\ FixerGoes(a, "push") /\ RemotesSame /\ Sound
Push(a) ==
    /\ FixerAt(a, "push")
    /\ IF fork.state # "ready" THEN FixerGoes(a, "failed") /\ UNCHANGED fork /\ Sound
       ELSE /\ fork' = [fork EXCEPT !.heads[a] = fixer[a].attempt]
            /\ \/ FixerGoes(a, "create mr") /\ Sound
               \/ FixerGoes(a, "failed") /\ RemoteFault
    /\ UNCHANGED <<distgit, mirror, mrs>>

(* open_merge_request *)
OpenMRs(a) == {m \in DOMAIN mrs : mrs[m].by = a /\ mrs[m].state = "open"}
NewMR(a)   == [by |-> a, state |-> "open", attempt |-> fixer[a].attempt, text |-> fixer[a].attempt,
               title |-> fixer[a].attempt]
CreateMR(a) ==
    /\ FixerAt(a, "create mr")
    /\ \/ OpenMRs(a) # {} /\ FixerGoes(a, "list") /\ UNCHANGED mrs /\ Sound
       \/ /\ OpenMRs(a) = {} /\ mrs' = Append(mrs, NewMR(a))
          /\ \/ /\ fixer' = [fixer EXCEPT ![a] = [fixer[a] EXCEPT !.pc = "done", !.mr = Len(mrs'), !.new = TRUE]]
                /\ Sound
             \/ FixerGoes(a, "failed") /\ RemoteFault
    /\ UNCHANGED <<distgit, mirror, fork>>
(* It may have been closed since. *)
ListMRs(a) ==
    /\ FixerAt(a, "list")
    /\ \/ OpenMRs(a) = {} /\ FixerGoes(a, "failed")
       \/ \E m \in OpenMRs(a) : fixer' = [fixer EXCEPT ![a] = [fixer[a] EXCEPT !.pc = "describe", !.mr = m]]
    /\ RemotesSame /\ Sound

Describe(a) ==
    /\ FixerAt(a, "describe") /\ FixerGoes(a, "entitle")
    /\ mrs' = [mrs EXCEPT ![fixer[a].mr].text = fixer[a].attempt]
    /\ UNCHANGED <<distgit, mirror, fork>> /\ Sound
Entitle(a) ==
    /\ FixerAt(a, "entitle") /\ FixerGoes(a, "done")
    /\ mrs' = [mrs EXCEPT ![fixer[a].mr].title = fixer[a].attempt]
    /\ UNCHANGED <<distgit, mirror, fork>> /\ Sound

(* People merge it, on the branch and its mirror, or close it.                *)
PeopleMerge(m) ==
    /\ mrs[m].state = "open" /\ distgit.branch # NoBranch /\ mirror = distgit.branch
    /\ distgit.branch.merged < MaxMerges
    /\ mrs' = [mrs EXCEPT ![m].state = "merged"]
    /\ distgit' = [distgit EXCEPT !.branch.merged = @ + 1] /\ mirror' = distgit'.branch
    /\ UNCHANGED <<fork, fixer>> /\ Sound
PeopleClose(m) ==
    /\ mrs[m].state = "open" /\ mrs' = [mrs EXCEPT ![m].state = "closed"]
    /\ UNCHANGED <<distgit, mirror, fork, fixer>> /\ Sound

RemoteNext ==
    \/ ForkImported \/ MainAdvances \/ StreamBuilt \/ Mirrored
    \/ \E m \in DOMAIN mrs : PeopleMerge(m) \/ PeopleClose(m)
    \/ \E a \in Fixer :
          \/ CallFails(a) \/ Retry(a) \/ FindFork(a) \/ CreateFork(a) \/ ForkReady(a) \/ CheckMirror(a)
          \/ CloneDistGit(a) \/ PickRef(a) \/ PushBranch(a) \/ MirrorSeen(a) \/ CloneAndWork(a) \/ Push(a)
          \/ CreateMR(a) \/ ListMRs(a) \/ Describe(a) \/ Entitle(a)

-----------------------------------------------------------------------------
(* A Z-stream branch starts from a commit that a build of its stream has, or  *)
(* that has the build's NVR: nothing of the next release is on it, whichever  *)
(* agent pushed it and however main and the builds went on meanwhile.         *)
BranchOfBuild ==
    distgit.branch # NoBranch =>
        \E b \in distgit.builds : b <= distgit.branch.base
            /\ \A c \in b..distgit.branch.base : Versions[c] = Versions[b]

(* No agent that took the branch for missing takes back what was merged.      *)
MergedKept == [][distgit'.branch.merged >= distgit.branch.merged
                 /\ distgit'.branch.base >= distgit.branch.base]_remoteVars

(* A merge request that is reported has the content, the text and the title   *)
(* of the attempt that reports it, and is new only if that attempt opened it. *)
ReportedMR ==
    [][\A a \in Fixer : fixer[a].pc # "done" /\ fixer'[a].pc = "done" =>
          LET m == mrs'[fixer'[a].mr] IN
          /\ {m.text, m.title, fork'.heads[a]} = {fixer[a].attempt}
          /\ fixer'[a].new = (m.attempt = fixer[a].attempt)]_remoteVars

(* What the agents of a package share outside stays right for each of them:   *)
(* the stream's branch, what was merged, and the merge request reported.      *)
RemotesSound == []BranchOfBuild /\ MergedKept /\ ReportedMR
=============================================================================
