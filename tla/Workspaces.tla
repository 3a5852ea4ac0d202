----------------------------- MODULE Workspaces -----------------------------
(***************************************************************************)
(* The volume on which agents and gateway keep their clones: a directory   *)
(* of a fix agent's task under the directory of its issue, or one of a     *)
(* triaged issue.  The agent empties it as far as it may (the gateway's    *)
(* files belong to another user), the gateway removes the old clone and    *)
(* makes the new one, and every clone call first removes directories that  *)
(* are a week old, whoever they belong to                                  *)
(* (ymir/tools/privileged/utils.py).  Nothing locks the volume.            *)
(***************************************************************************)
EXTENDS Integers, FiniteSets

CONSTANTS
    Space,          \* workspaces, all of one issue
    Marked,         \* those of fix agents, with ACTIVE_WORKSPACE_MARKER
    CloneFile,      \* files of a clone
    Cleaner,        \* clean-ups at the same time
    MaxRuns         \* jobs that use a workspace, one after another

ASSUME WorkspaceAssumption ==
    Marked \subseteq Space /\ MaxRuns \in Nat /\ CloneFile \cap {"clone", "marker"} = {}

VARIABLES
    issueDir,   \* the issue's directory exists
    space,      \* space[w]: the directory w, its marker and its clone
    user,       \* user[w]: the job that uses w
    cleaner     \* cleaner[c]: a clean-up
volumeVars == <<issueDir, space, user, cleaner>>

(* Ages: of the directory's and the marker's mtime, against the cutoff.       *)
(* raced: a clean-up was removing w when the present clone was begun.         *)
NoFiles == [f \in CloneFile |-> "none"]
NoSpace == [dir |-> "none", marker |-> "none", clone |-> FALSE, files |-> NoFiles]
VolumeInit ==
    /\ issueDir = FALSE
    /\ space = [w \in Space |-> NoSpace]
    /\ user = [w \in Space |-> [at |-> "idle", listed |-> {}, runs |-> 0, raced |-> FALSE]]
    /\ cleaner = [c \in Cleaner |-> [at |-> "idle", w |-> CHOOSE w \in Space : TRUE, listed |-> {}]]

-----------------------------------------------------------------------------
UserAt(w, s)    == user[w].at = s
UserGoes(w, s)  == user' = [user EXCEPT ![w].at = s]
SetSpace(w, d)  == space' = [space EXCEPT ![w] = d]
(* What is in w: the files of its clone, the clone and the marker. *)
Present(d)  == {f \in CloneFile : d.files[f] # "none"} \cup (IF d.clone THEN {"clone"} ELSE {})
                 \cup (IF d.marker # "none" THEN {"marker"} ELSE {})
(* Without x; only what lies in w itself changes the time of w. *)
Without(d, x) == CASE x = "clone"  -> [d EXCEPT !.clone = FALSE, !.dir = "recent"]
                   [] x = "marker" -> [d EXCEPT !.marker = "none", !.dir = "recent"]
                   [] OTHER        -> [d EXCEPT !.files[x] = "none"]
Inside(d)   == Present(d) \cap CloneFile

(* A job begins with rm -rf, which may leave any of what is there. *)
BeginJob(w) ==
    /\ UserAt(w, "idle") /\ user[w].runs < MaxRuns
    /\ user' = [user EXCEPT ![w] = [user[w] EXCEPT !.runs = @ + 1, !.at = IF space[w].dir = "none" THEN "mkdir" ELSE "wipe"]]
    /\ UNCHANGED <<issueDir, space, cleaner>>
Wiped(d, kept) ==
    [dir |-> IF Present(d) \subseteq kept \cup CloneFile THEN d.dir ELSE "recent",
     marker |-> IF "marker" \in kept THEN d.marker ELSE "none", clone |-> d.clone /\ "clone" \in kept,
     files |-> [f \in CloneFile |-> IF f \in kept THEN d.files[f] ELSE "none"]]
ForceRmtree(w) ==
    /\ UserAt(w, "wipe")
    /\ \E kept \in SUBSET Present(space[w]) :
          /\ kept \cap CloneFile # {} => "clone" \in kept
          /\ \/ SetSpace(w, Wiped(space[w], kept))
             \/ kept = {} /\ SetSpace(w, NoSpace)
    /\ UserGoes(w, "mkdir") /\ UNCHANGED <<issueDir, cleaner>>

(* mkdir(parents=True, exist_ok=True): a missing parent is made first, and    *)
(* may be gone again at the second try.                                       *)
MkdirParent(w) ==
    /\ UserAt(w, "mkdir") /\ ~issueDir /\ issueDir' = TRUE
    /\ UserGoes(w, "mkdir again") /\ UNCHANGED <<space, cleaner>>
Mkdir(w) ==
    /\ user[w].at \in {"mkdir", "mkdir again"} /\ (UserAt(w, "mkdir") => issueDir)
    /\ IF issueDir
       THEN /\ SetSpace(w, IF space[w].dir = "none" THEN [NoSpace EXCEPT !.dir = "recent"] ELSE space[w])
            /\ UserGoes(w, IF w \in Marked THEN "mark" ELSE "call")
       ELSE UserGoes(w, "idle") /\ UNCHANGED space
    /\ UNCHANGED <<issueDir, cleaner>>
TouchMarker(w) ==
    /\ UserAt(w, "mark")
    /\ \/ /\ space[w].dir # "none" /\ UserGoes(w, "call")
          /\ SetSpace(w, [space[w] EXCEPT !.marker = "recent",
                                          !.dir = IF space[w].marker = "none" THEN "recent" ELSE @])
       \/ space[w].dir = "none" /\ UserGoes(w, "idle") /\ UNCHANGED space
    /\ UNCHANGED <<issueDir, cleaner>>

(* clone_repository, after its clean-up (a Cleaner) has ended. *)
ListClone(w) ==
    /\ UserAt(w, "call")
    /\ user' = IF space[w].clone THEN [user EXCEPT ![w] = [user[w] EXCEPT !.at = "remove", !.listed = Inside(space[w])]]
                                 ELSE [user EXCEPT ![w].at = "init"]
    /\ UNCHANGED <<issueDir, space, cleaner>>
(* A removal that finds something missing stops there: the call fails unless  *)
(* the whole clone is gone.                                                   *)
MissingTolerated(w) == UserGoes(w, "init")
Missing(w) == UserGoes(w, IF space[w].clone THEN "idle" ELSE "init")
RemoveClone(w) ==
    /\ UserAt(w, "remove")
    /\ \/ \E f \in user[w].listed :
             \/ /\ f \in Inside(space[w]) /\ SetSpace(w, Without(space[w], f))
                /\ user' = [user EXCEPT ![w].listed = @ \ {f}]
             \/ f \notin Inside(space[w]) /\ Missing(w) /\ UNCHANGED space
       \/ /\ user[w].listed = {}
          /\ \/ space[w].clone /\ Inside(space[w]) = {} /\ SetSpace(w, Without(space[w], "clone")) /\ UserGoes(w, "init")
             \/ ~space[w].clone /\ Missing(w) /\ UNCHANGED space
    /\ UNCHANGED <<issueDir, cleaner>>
(* mkdir of the clone with all its parents, then fetch and checkout. *)
InitClone(w) ==
    /\ UserAt(w, "init") /\ issueDir' = TRUE
    /\ SetSpace(w, [space[w] EXCEPT !.dir = IF space[w].clone THEN @ ELSE "recent", !.clone = TRUE])
    /\ user' = [user EXCEPT ![w] = [user[w] EXCEPT !.at = "fetch",
                            !.raced = \E c \in Cleaner : cleaner[c].at = "remove" /\ cleaner[c].w = w]]
    /\ UNCHANGED cleaner
Checkout(w) ==
    /\ UserAt(w, "fetch")
    /\ \/ /\ space[w].clone /\ UserGoes(w, "work")
          /\ SetSpace(w, [space[w] EXCEPT !.files = [f \in CloneFile |-> IF @[f] = "none" THEN "new" ELSE "mixed"]])
       \/ ~space[w].clone /\ UserGoes(w, "idle") /\ UNCHANGED space
    /\ UNCHANGED <<issueDir, cleaner>>
(* A triage removes its directory in the end, a fix agent leaves it. *)
JobDone(w) ==
    /\ UserAt(w, "work") /\ UserGoes(w, "idle")
    /\ SetSpace(w, IF w \in Marked
                   THEN [space[w] EXCEPT !.files = [f \in CloneFile |-> IF @[f] = "none" THEN "none" ELSE "old"]]
                   ELSE NoSpace)
    /\ UNCHANGED <<issueDir, cleaner>>
JobFails(w) ==
    /\ user[w].at \in {"call", "init", "fetch"} /\ UserGoes(w, "idle")
    /\ UNCHANGED <<issueDir, space, cleaner>>
(* No job takes REPO_CLEANUP_DAYS. *)
WeekPasses(w) ==
    /\ UserAt(w, "idle") /\ space[w].dir = "recent"
    /\ SetSpace(w, [space[w] EXCEPT !.dir = "stale", !.marker = IF @ = "none" THEN @ ELSE "stale"])
    /\ UNCHANGED <<issueDir, user, cleaner>>

-----------------------------------------------------------------------------
(* clean_stale_repositories on a thread; it swallows what goes wrong with one *)
(* directory.                                                                 *)
CleanerGoes(c, r) == cleaner' = [cleaner EXCEPT ![c] = r] /\ UNCHANGED user
SeeInactive(c) ==
    /\ cleaner[c].at = "idle"
    /\ \E w \in Space : /\ space[w].dir # "none" /\ ~(w \in Marked /\ space[w].marker = "recent")
                        /\ CleanerGoes(c, [at |-> "look", w |-> w, listed |-> {}])
    /\ UNCHANGED <<issueDir, space>>
SeeStale(c) ==
    LET d == space[cleaner[c].w] IN
    /\ cleaner[c].at = "look"
    /\ CleanerGoes(c, IF d.dir = "stale" THEN [cleaner[c] EXCEPT !.at = "remove", !.listed = Present(d)]
                                         ELSE [cleaner[c] EXCEPT !.at = "idle"])
    /\ UNCHANGED <<issueDir, space>>
RemoveStale(c) ==
    LET w == cleaner[c].w
        d == space[w] IN
    /\ cleaner[c].at = "remove"
    /\ \/ \E x \in cleaner[c].listed :
             /\ x = "clone" => cleaner[c].listed \cap CloneFile = {}
             /\ \/ /\ x \in Present(d) /\ (x = "clone" => Inside(d) = {})
                   /\ SetSpace(w, Without(d, x)) /\ CleanerGoes(c, [cleaner[c] EXCEPT !.listed = @ \ {x}])
                \/ /\ x \notin Present(d) \/ (x = "clone" /\ Inside(d) # {})
                   /\ CleanerGoes(c, [cleaner[c] EXCEPT !.at = "idle", !.listed = {}]) /\ UNCHANGED space
       \/ /\ cleaner[c].listed = {} /\ CleanerGoes(c, [cleaner[c] EXCEPT !.at = "idle"])
          /\ IF Present(d) = {} THEN SetSpace(w, NoSpace) ELSE UNCHANGED space
    /\ UNCHANGED issueDir
RemoveIfEmpty(c) ==
    /\ cleaner[c].at = "idle" /\ issueDir /\ \A w \in Space : space[w].dir = "none"
    /\ issueDir' = FALSE /\ UNCHANGED <<space, user, cleaner>>

VolumeNext ==
    \/ \E w \in Space :
          \/ BeginJob(w) \/ ForceRmtree(w) \/ MkdirParent(w) \/ Mkdir(w) \/ TouchMarker(w)
          \/ ListClone(w) \/ RemoveClone(w) \/ InitClone(w) \/ Checkout(w)
          \/ JobDone(w) \/ JobFails(w) \/ WeekPasses(w)
    \/ \E c \in Cleaner : SeeInactive(c) \/ SeeStale(c) \/ RemoveStale(c) \/ RemoveIfEmpty(c)

-----------------------------------------------------------------------------
(* A job works on a clone without any file of an earlier run, although agent, *)
(* gateway and clean-ups may all have been removing it at the same time; and  *)
(* none of its files is removed, except by a clean-up that was removing the   *)
(* old directory when the clone was begun (_remove_existing_clone_path,       *)
(* cleanup_stale_directories).                                                *)
CloneSound ==
    \A w \in Space : UserAt(w, "work") =>
        /\ \A f \in CloneFile : space[w].files[f] \in {"new", "none"}
        /\ user[w].raced \/ Inside(space[w]) = CloneFile
=============================================================================
