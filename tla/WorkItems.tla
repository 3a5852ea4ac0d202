------------------------------ MODULE WorkItems ------------------------------
(* The supervisor's work queue (ymir/supervisor/work_queue.py) and the loop of *)
(* the processor (ymir/supervisor/main.py).  The queue is a sorted set, scored *)
(* by the time at which an item is ready.  Any time may pass between two       *)
(* steps, so any item may be the first one that is ready, and the set alone    *)
(* is modelled.  A pop does not remove its item: it moves the score fifteen    *)
(* minutes ahead, so that an item whose handler fails comes back by itself.    *)
(* One processor runs (replicas: 1, strategy Recreate).                        *)

EXTENDS Naturals, FiniteSets

CONSTANTS
    Item,       \* work items
    NoItem,
    MaxUpsets   \* bound on failed handlers and on what people do

VARIABLES
    queue,      \* the items in it
    pc,         \* position of the processor
    item,       \* the item in its hands
    result,     \* reschedule_in of the handler: "now", "later", or "remove"
    upsets      \* how many there were

queueVars == <<queue, pc, item, result, upsets>>

QueueTypeOK ==
    /\ queue \subseteq Item
    /\ item \in Item \cup {NoItem}
    /\ result \in {"none", "now", "later", "remove"}
    /\ upsets \in 0..MaxUpsets

QueueInit ==
    /\ queue = {}
    /\ pc = "idle"
    /\ item = NoItem
    /\ result = "none"
    /\ upsets = 0

pop_first_ready_work_item(w) ==
    /\ pc = "idle"
    /\ w \in queue
    /\ pc' = "run"
    /\ item' = w
    /\ UNCHANGED <<queue, result, upsets>>

(* A handler's step that goes on at another position. *)
Goto(next) ==
    /\ pc' = next
    /\ UNCHANGED <<queue, item, result, upsets>>

(* The handler returns a WorkflowResult. *)
Return(reschedule) ==
    /\ pc' = "finish"
    /\ result' = reschedule
    /\ UNCHANGED <<queue, item, upsets>>

Idle ==
    /\ pc' = "idle"
    /\ item' = NoItem
    /\ result' = "none"

process_once ==
    /\ pc = "finish"
    /\ queue' = IF result = "remove" THEN queue \ {item} ELSE queue \cup {item}
    /\ Idle
    /\ UNCHANGED upsets

(* A call of the handler raises, or the processor is killed. *)
HandlerFails ==
    /\ pc # "idle"
    /\ upsets < MaxUpsets
    /\ upsets' = upsets + 1
    /\ Idle
    /\ UNCHANGED queue
=============================================================================
