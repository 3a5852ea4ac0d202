---------------------------- MODULE RebaseBarrier ---------------------------
(***************************************************************************)
(* What a group of issues is promised (docs of rebase consolidation): a    *)
(* primary invites siblings, triage decides about each of them, and the    *)
(* rebase of the primary starts when nobody is undecided and takes in      *)
(* exactly those that were found to need it.  A decision may be taken      *)
(* back, and then the primary waits again.  When a label is lost or a pod  *)
(* dies the rebase may start early: it still takes in the right issues.    *)
(***************************************************************************)
CONSTANT Issue

VARIABLES
    pending,    \* pending[p]: invited by p and undecided
    ready,      \* ready[p]: to be rebased with p
    merged,     \* merged[p]: what the last rebase of p took in
    reliable    \* whether no label is lost and no pod dies

Init ==
    /\ pending = [p \in Issue |-> {}]
    /\ ready   = [p \in Issue |-> {}]
    /\ merged  = [p \in Issue |-> {}]
    /\ reliable \in BOOLEAN

Invite(p, c) ==
    /\ c # p /\ c \notin ready[p]
    /\ pending' = [pending EXCEPT ![p] = @ \cup {c}]
    /\ UNCHANGED <<ready, merged, reliable>>

(* The decision about c concerns all that invited it. *)
Decide(c) ==
    /\ \E p \in Issue : c \in pending[p]
    /\ pending' = [p \in Issue |-> pending[p] \ {c}]
    /\ \/ ready' = [p \in Issue |-> ready[p] \cup (pending[p] \cap {c})]
       \/ UNCHANGED ready
    /\ UNCHANGED <<merged, reliable>>

Reconsider(C) ==
    /\ ready' = [p \in Issue |-> ready[p] \ C]
    /\ pending' = [p \in Issue |-> pending[p] \cup (ready[p] \cap C)]
    /\ UNCHANGED <<merged, reliable>>

Start(p) ==
    /\ reliable => pending[p] = {}
    /\ merged' = [merged EXCEPT ![p] = ready[p]]
    /\ UNCHANGED <<pending, ready, reliable>>

Next ==
    \/ \E p, c \in Issue : Invite(p, c)
    \/ \E c \in Issue : Decide(c)
    \/ \E C \in SUBSET Issue : Reconsider(C)
    \/ \E p \in Issue : Start(p)

Spec == Init /\ [][Next]_<<pending, ready, merged, reliable>>
=============================================================================
