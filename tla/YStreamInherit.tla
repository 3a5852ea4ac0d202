--------------------------- MODULE YStreamInherit ---------------------------
(***************************************************************************)
(* How a shipped Z-stream fix is carried to the Y-stream in the clone of   *)
(* the dist-git repository (ymir/agents/ystream_inherit.py, with its       *)
(* callers in backport_agent.py): the fix is looked up in the history, its *)
(* patch copied, a model edits the spec, tools release, unpack and build,  *)
(* and the result is committed, or every trace of it removed before the    *)
(* normal backport starts.  A repository is three trees: what is           *)
(* committed, the index and the working files.  URLs, patch text and       *)
(* messages are left out.                                                  *)
(***************************************************************************)
EXTENDS Integers, FiniteSets

CONSTANTS
    Commits,            \* commits of the shipped build's branch
    Histories,          \* what they may be, by commit
    MaxInheritBuilds    \* max_build_attempts

ASSUME InheritAssumption ==
    /\ MaxInheritBuilds \in Nat /\ IsFiniteSet(Commits)
    /\ Histories \subseteq [Commits -> [place : {"z", "side", "shared"}, keys : SUBSET {"z", "other"}]]

(* The spec; the patch of the fix; another tracked file; what tools leave     *)
(* behind, listed in .gitignore or not.                                       *)
File == {"spec", "patch", "other", "extra", "ignored"}

VARIABLES
    zstream,    \* the Z-stream's history and commit, and the Y-stream's files
    repo,       \* repo.head, repo.index, repo.work: a content for every file
    inherit     \* the attempt
inheritVars == <<zstream, repo, inherit>>

(* patch: what the Y-stream has at the patch's name, if anything; "source" is *)
(* the Z-stream's content.  hidden: .gitignore matches the patch.  odd: the   *)
(* commit deletes, renames, or touches files that are not its patches.        *)
Shipped == [log : Histories, files : SUBSET {"spec", "patch"}, odd : BOOLEAN,
            patch : {"none", "old", "source"}, hidden : BOOLEAN]
Saved   == [f \in File |-> CASE f = "patch" -> zstream.patch
                             [] f \in {"spec", "other"} -> "old"
                             [] OTHER -> "none"]
Fresh   == [head |-> Saved, index |-> Saved, work |-> Saved]
NewInherit == [step |-> "source", disabled |-> FALSE, retried |-> FALSE, fix |-> "none",
               builds |-> MaxInheritBuilds, srpm |-> <<"none", "none">>]
InheritInit == zstream \in Shipped /\ repo = Fresh /\ inherit = NewInherit

-----------------------------------------------------------------------------
InheritAt(step) == inherit.step = step
InheritGoes(step) == inherit' = [inherit EXCEPT !.step = step] /\ UNCHANGED zstream
HasPatch   == "patch" \in zstream.files
Tracked(f) == repo.index[f] # "none"
Others     == {f \in File : ~Tracked(f) /\ repo.work[f] # "none"}
Ignored    == {f \in Others : f = "ignored" \/ (f = "patch" /\ zstream.hidden)}
InWork(new) == repo' = [repo EXCEPT !.work = new]

(* find_zstream_fix_commit: the one commit after the merge base that resolves *)
(* the issue, and nothing else; not one that the Y-stream has.  "side": after *)
(* that merge base and in the Y-stream; "shared": before it, so in both.      *)
Resolving == {c \in Commits : "z" \in zstream.log[c].keys}
Clean(c)  == zstream.log[c].keys = {"z"}
After     == {c \in Resolving : zstream.log[c].place # "shared"}
(* Before the merge base, the first one found decides. *)
FixLookup ==
    IF Resolving = {} THEN {"unusable"}
    ELSE IF After = {} THEN {IF Clean(c) THEN "already" ELSE "unusable" : c \in Resolving}
    ELSE IF Cardinality(After) > 1 \/ (\E c \in After : ~Clean(c)) THEN {"unusable"}
    ELSE {IF zstream.log[c].place = "side" THEN "already" ELSE "found" : c \in After}

(* Mutant: only what git status shows is removed. *)
ResetShown == repo' = [head |-> Saved, index |-> Saved,
                       work |-> [f \in File |-> IF f \in Ignored \/ (f \in Others /\ repo.work[f] = "repository")
                                                THEN repo.work[f] ELSE Saved[f]]]

(* cleanup_inherit_attempt, reset_inherit_attempt: the saved head is restored *)
(* and the files that are not tracked unlinked, the ignored ones too; a       *)
(* repository is no file and stays.                                           *)
ResetTree == repo' = [head |-> Saved, index |-> Saved,
                      work |-> [f \in File |-> IF f \in Others /\ repo.work[f] = "repository"
                                               THEN "repository" ELSE Saved[f]]]
(* git status, which does not list ignored files *)
LooksClean == \A f \in Others \ Ignored : repo.work[f] # "repository"

(* Inheritance is given up for good with the clean-up; when that fails, the   *)
(* clone is made anew, once for another attempt.                              *)
CleanedUp == /\ LooksClean /\ ResetTree /\ UNCHANGED zstream
             /\ inherit' = [inherit EXCEPT !.step = "normal", !.disabled = TRUE]
CleanUpFails(off) ==
    /\ UNCHANGED <<zstream, repo>>
    /\ inherit' = IF off \/ inherit.disabled \/ inherit.retried
                  THEN [inherit EXCEPT !.step = "fork", !.disabled = TRUE]
                  ELSE [inherit EXCEPT !.step = "fork", !.retried = TRUE]
GiveUp(off) == CleanedUp \/ CleanUpFails(off)

-----------------------------------------------------------------------------
ForkClone ==
    /\ InheritAt("fork") /\ repo' = Fresh
    /\ inherit' = [NewInherit EXCEPT !.step = IF inherit.disabled THEN "normal" ELSE "source",
                                     !.disabled = inherit.disabled, !.retried = inherit.retried]
    /\ UNCHANGED zstream

(* resolve_brew_source, spec_matches_brew_version and the fetch: the build is *)
(* not of this package, its repository, its commit or this version.           *)
SourceUnusable == InheritAt("source") /\ GiveUp(FALSE)
FindFix ==
    /\ InheritAt("source")
    /\ \/ /\ "found" \in FixLookup /\ \E c \in After : inherit' = [inherit EXCEPT !.step = "apply", !.fix = c]
          /\ UNCHANGED <<zstream, repo>>
       \/ "already" \in FixLookup /\ InheritGoes("ended") /\ UNCHANGED repo
       \/ "unusable" \in FixLookup /\ GiveUp(FALSE)

(* inspect_commit_files, apply_zstream_change *)
Inspected == ~zstream.odd /\ zstream.files # {}
ApplyChange ==
    /\ InheritAt("apply")
    /\ \/ /\ Inspected
          /\ InWork(IF HasPatch THEN [repo.work EXCEPT !["patch"] = "source"] ELSE repo.work)
          /\ InheritGoes("adapt")
       \/ GiveUp(FALSE)

(* The model has tools that edit the files there are.  "meddled": protected   *)
(* fields differ; "unapplied": the patch is not declared and applied once;    *)
(* "legacy": applied by a form of %patch that new versions refuse.            *)
Adapt ==
    /\ InheritAt("adapt")
    /\ \/ \E f \in {"patch", "other"} : /\ repo.work[f] # "none"
                                       /\ InWork([repo.work EXCEPT ![f] = "edited"])
       \/ \E new \in {"adapted", "meddled", "unapplied", "legacy"} : InWork([repo.work EXCEPT !["spec"] = new])
    /\ UNCHANGED <<zstream, inherit>>
Adapted ==
    /\ InheritAt("adapt")
    /\ \/ InheritGoes("normalize") /\ UNCHANGED repo
       \/ GiveUp(HasPatch) \/ GiveUp(FALSE)

(* normalize_first_inherited_patch_applications *)
Normalize ==
    /\ InheritAt("normalize") /\ InheritGoes("validate")
    /\ InWork(IF HasPatch /\ zstream.patch = "none" /\ repo.work["spec"] = "legacy"
              THEN [repo.work EXCEPT !["spec"] = "adapted"] ELSE repo.work)

(* verify_inherited_patches *)
Verified == HasPatch => repo.work["patch"] = "source"
Applied  == repo.work["spec"] \in {"adapted", "legacy"} \/ (repo.work["spec"] = "old" /\ zstream.patch # "none")
Changed  == {f \in File : repo.work[f] # repo.head[f]}

(* validate_inherited_adaptation, whose list of changed files has the ignored *)
(* ones too.                                                                  *)
Protected == repo.work["spec"] # "meddled"
Valid == /\ Verified /\ Protected
         /\ Changed \subseteq ({"spec"} \cup zstream.files)
         /\ HasPatch => Applied
         /\ zstream.files = {"spec"} => repo.work["spec"] # "old"
         /\ Changed # {}
Validate ==
    /\ InheritAt("validate")
    /\ \/ Valid /\ InheritGoes("release") /\ UNCHANGED repo
       \/ ~Valid /\ GiveUp(~Verified)

(* update_release and AddChangelogEntryTool; download_sources. *)
Release ==
    /\ InheritAt("release")
    /\ \/ /\ InWork([repo.work EXCEPT !["spec"] = IF @ = "legacy" THEN "released legacy" ELSE "released",
                                      !["ignored"] = "tarball"])
          /\ InheritGoes("prep")
       \/ GiveUp(FALSE)

(* %prep runs what the spec says, on the clone.  It must be clean.            *)
Prep ==
    /\ InheritAt("prep")
    /\ \/ /\ \E new \in {repo.work, [repo.work EXCEPT !["extra"] = "output"],
                         [repo.work EXCEPT !["extra"] = "repository"],
                         [repo.work EXCEPT !["ignored"] = "repository"],
                         [repo.work EXCEPT !["patch"] = IF HasPatch THEN "edited" ELSE @]} : InWork(new)
          /\ InheritGoes("srpm")
       \/ GiveUp(HasPatch)

BuildSRPM ==
    /\ InheritAt("srpm") /\ UNCHANGED zstream
    /\ \/ /\ inherit' = [inherit EXCEPT !.step = "stage", !.srpm = <<repo.work["spec"], repo.work["patch"]>>]
          /\ UNCHANGED repo
       \/ GiveUp(FALSE)

Expected   == {"spec"} \cup zstream.files
(* git add --all, whose failure is logged only; it refuses an ignored file    *)
(* that is not tracked yet.                                                   *)
Addable(f) == Tracked(f) \/ f \notin Ignored
Staged(fs) == [f \in File |-> IF f \in fs THEN repo.work[f] ELSE repo.index[f]]
Cached(fs) == {f \in File : Staged(fs)[f] # repo.head[f]}

(* stage_changes with _validate_inherited_staged_files *)
StageInherited ==
    /\ InheritAt("stage")
    /\ \/ GiveUp(TRUE)
       \/ /\ Verified /\ InheritGoes("commit")
          /\ \E fs \in SUBSET {f \in Expected : Addable(f)} :
                Cached(fs) = Expected /\ repo' = [repo EXCEPT !.index = Staged(fs)]

CommitInherited ==
    /\ InheritAt("commit")
    /\ \/ repo' = [repo EXCEPT !.head = repo.index] /\ InheritGoes("build")
       \/ GiveUp(FALSE)

(* validate_inherited_build; the checkpoint may fail to be made. *)
BuildInherited ==
    /\ InheritAt("build")
    /\ \/ InheritGoes("publish") /\ UNCHANGED repo
       \/ /\ inherit.builds > 1 /\ inherit' = [inherit EXCEPT !.builds = @ - 1]
          /\ UNCHANGED <<zstream, repo>>
       \/ GiveUp(FALSE)

InheritNext == ForkClone \/ SourceUnusable \/ FindFix \/ ApplyChange \/ Adapt \/ Adapted \/ Normalize \/ Validate \/ Release
               \/ Prep \/ BuildSRPM \/ StageInherited \/ CommitInherited \/ BuildInherited

-----------------------------------------------------------------------------
(* The normal backport starts from the Y-stream's own files: nothing of a     *)
(* failed attempt is left, committed, staged, in the tree or ignored, but for *)
(* a repository that something unpacked under an ignored name.                *)
CleanFallback ==
    InheritAt("normal") =>
        /\ repo.head = Saved /\ repo.index = Saved
        /\ \A f \in File : repo.work[f] \in {Saved[f]} \cup (IF f = "ignored" THEN {"repository"} ELSE {})

(* What is built and published is the shipped fix: its patch as the Z-stream  *)
(* has it, with a spec that applies it, nothing else, from a commit that the  *)
(* Y-stream does not have; and what was built is what was committed.          *)
OnlyTheFix ==
    inherit.step \in {"build", "publish"} =>
        /\ repo.head["patch"] = IF HasPatch THEN "source" ELSE Saved["patch"]
        /\ repo.head["spec"] \in {"released"} \cup (IF HasPatch /\ zstream.patch = "none" THEN {} ELSE {"released legacy"})
        /\ \A f \in File \ {"spec", "patch"} : repo.head[f] = Saved[f]
        /\ zstream.log[inherit.fix] = [place |-> "z", keys |-> {"z"}]
        /\ inherit.srpm = <<repo.head["spec"], repo.head["patch"]>>

(* The attempt is published as the fix that it is, or leaves nothing behind.  *)
InheritanceSound == CleanFallback /\ OnlyTheFix
=============================================================================
