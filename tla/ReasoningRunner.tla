--------------------------- MODULE ReasoningRunner ---------------------------
(***************************************************************************)
(* One agent and the message history of its runs                           *)
(* (ymir/agents/reasoning_agent): the loop that asks the model and invokes *)
(* tools, with requirements (constrained) or without, and the compaction   *)
(* of the history that the model may ask for, with protected tools or      *)
(* without.  Messages carry no text; the model answers anything; what a    *)
(* tool returns is left out, but not whether it fails.                     *)
(***************************************************************************)
EXTENDS Integers, Sequences, FiniteSets, SequencesExt

CONSTANTS
    Batches,            \* the sequences of tools that one answer of the model calls
    Keeps,              \* values of keep_recent_exchanges
    MaxIterations,      \* max_iterations (20)
    MaxStepErrors,      \* max_retries_per_step (3)
    MaxErrors,          \* total_max_retries (20)
    MaxCycles,          \* cycles found in one iteration; the code has no limit
    MaxTurns            \* turns of the model over all tasks of an agent

ASSUME RunnerAssumption ==
    /\ \A b \in {MaxIterations, MaxStepErrors, MaxErrors, MaxCycles, MaxTurns} : b \in Nat
    /\ Keeps \subseteq Nat \ {0}

(* "think" is the tool that the requirement forces first; "rules" is one of   *)
(* context_protected_tool_names.                                              *)
ToolName == {"work", "think", "rules", "manage_context", "final_answer"}

VARIABLES
    mode,       \* how the agent was built
    history,    \* state.memory: a sequence of messages
    runner      \* the rest of the run's state
runnerVars == <<mode, history, runner>>

(* A message and the calls that it makes ("calls") or answers ("result");     *)
(* "text" and "thought" are assistant messages without calls, "user" is an    *)
(* instruction that is not the task, "temp" a reminder of the runner.         *)
Msg(kind, calls) == [kind |-> kind, calls |-> calls]
TaskMsg    == Msg("task", {})
SummaryMsg == Msg("summary", {})
TempMsg    == Msg("temp", {})
Assistant  == {"calls", "text", "thought"}

RunnerInit ==
    /\ mode \in [constrained : BOOLEAN, protected : BOOLEAN]
    /\ history \in {<<TaskMsg>>, <<Msg("user", {}), TaskMsg>>}
    /\ runner = [at |-> "loop", turn |-> 0, iteration |-> 0, errors |-> 0, stepErrors |-> 0,
                 last |-> "none", required |-> TRUE, cycles |-> 0, allowed |-> {}, stop |-> FALSE]

-----------------------------------------------------------------------------
(* Compaction.  An exchange is an assistant message with calls and the        *)
(* results behind it, or any other message by itself; its head is the index   *)
(* of its first message.                                                      *)
Head1(h, i) == LET heads == {j \in 1..i : h[j].kind # "result"}
                   j     == IF heads = {} THEN 0 ELSE CHOOSE x \in heads : \A y \in heads : y <= x
               IN  IF j > 0 /\ h[j].kind = "calls" THEN j ELSE i
Heads(h)    == {Head1(h, i) : i \in DOMAIN h}
Exchange(h, e)  == {i \in DOMAIN h : Head1(h, i) = e}
Recent(hs, n)   == {e \in hs : Cardinality({x \in hs : x > e}) < n}
Among(h, S)     == LET ix == SelectSeq([i \in DOMAIN h |-> i], LAMBDA i : i \in S) IN [k \in DOMAIN ix |-> h[ix[k]]]
ToolsOf(h, e)   == {c.tool : c \in h[e].calls}
OfKind(h, K)    == SelectSeq(h, LAMBDA x : x.kind \in K)

Stripped(x)      == [x EXCEPT !.calls = {c \in @ : c.tool # "manage_context"}]

(* strip_manage_context_from_exchange, over the messages that are kept. *)
Strip(h) == LET only == {e \in Heads(h) : h[e].kind = "calls" /\ ToolsOf(h, e) = {"manage_context"}}
                left == Among(h, {i \in DOMAIN h : Head1(h, i) \notin only})
                bare == [i \in DOMAIN left |-> Stripped(left[i])]
            IN  SelectSeq(bare, LAMBDA x : x.kind # "result" \/ x.calls # {})

(* The tasks move to the front. *)
Compacted(h, n) ==
    LET rest == SelectSeq(h, LAMBDA x : x.kind # "task")
        keep == Recent(Heads(rest), n)
    IN  OfKind(h, {"task"})
        \o (IF keep = Heads(rest) THEN <<>> ELSE <<SummaryMsg>>)
        \o Strip(Among(rest, {i \in DOMAIN rest : Head1(rest, i) \in keep}))

Instruction == {"task", "user", "temp"}
(* _validate_exchange *)
Paired(h) == \A e \in Heads(h) :
    LET results == [i \in Exchange(h, e) \ {e} |-> h[i].calls]
    IN  /\ h[e].kind # "result"
        /\ h[e].kind = "calls" =>
              /\ UNION {results[i] : i \in DOMAIN results} = h[e].calls
              /\ Cardinality(DOMAIN results) = Cardinality(h[e].calls)

(* Mutant: only what is recent is kept. *)
PinnedNone(h) == {}
Pinned(h)     == {e \in Heads(h) : "rules" \in ToolsOf(h, e)}

(* Instructions stay where they are, exchanges with protected tools too; the  *)
(* summary goes before the recent ones.                                       *)
CompactedProtected(h, n) ==
    LET exchanges == {e \in Heads(h) : h[e].kind \notin Instruction}
        recent    == Recent(exchanges, n)
        keep      == {e \in Heads(h) : h[e].kind \in Instruction} \cup Pinned(h) \cup recent
        kept(i)   == Head1(h, i) \in keep /\ h[i].kind # "thought"
        start     == CHOOSE e \in recent : \A x \in recent : e <= x
    IN  Strip(Among(h, {i \in DOMAIN h : kept(i) /\ i < start}))
        \o (IF exchanges \subseteq keep THEN <<>> ELSE <<SummaryMsg>>)
        \o Strip(Among(h, {i \in DOMAIN h : kept(i) /\ i >= start}))

(* _has_invalid_assistant_continuation *)
Continues(h) == h[Len(h)].kind \notin Assistant /\ \A i \in DOMAIN h : h[i].kind # "thought"

(* The protected one installs only a history that passes its checks, and not  *)
(* what two requests in one exchange ask for.                                 *)
Compaction(h, n) ==
    IF ~mode.protected THEN Compacted(h, n)
    ELSE LET asking == {e \in Heads(h) : "manage_context" \in ToolsOf(h, e)}
             once   == \A e \in asking : (\A x \in asking : x <= e) =>
                           Cardinality({c \in h[e].calls : c.tool = "manage_context"}) = 1
             new    == CompactedProtected(h, n)
         IN  IF /\ Paired(h) /\ once /\ Paired(new) /\ Continues(new)
                /\ OfKind(new, Instruction) = OfKind(h, Instruction)
             THEN new ELSE h

-----------------------------------------------------------------------------
(* _evaluate_requirements: the agents force "think" at the first step and     *)
(* forbid it twice in a row; a cycle forbids one more tool.                   *)
Usable      == IF mode.constrained THEN ToolName ELSE ToolName \ {"think"}
Forcing(r)  == mode.constrained /\ r.required /\ r.last = "none"
Allowed(r, banned) ==
    IF Forcing(r) THEN IF "think" \in banned THEN Usable \ (banned \cup {"final_answer"}) ELSE {"think"}
    ELSE Usable \ (banned \cup (IF mode.constrained /\ r.required /\ r.last = "think" THEN {"think"} ELSE {}))
Evaluated(r, banned) == [r EXCEPT !.allowed = Allowed(r, banned), !.stop = ~Forcing(r)]

(* The two counters of errors. *)
Counted(r, n)   == [r EXCEPT !.errors = @ + n, !.stepErrors = @ + n]
Exhausted(r)    == r.stepErrors > MaxStepErrors \/ r.errors > MaxErrors
RunFails        == runner' = [runner EXCEPT !.at = "failed"] /\ UNCHANGED <<mode, history>>

StartIteration ==
    /\ runner.at = "loop"
    /\ IF runner.iteration + 1 > MaxIterations
       THEN runner' = [runner EXCEPT !.at = "failed"]
       ELSE /\ runner.turn < MaxTurns
            /\ runner' = Evaluated([runner EXCEPT !.at = "model", !.iteration = @ + 1, !.turn = @ + 1,
                                                  !.stepErrors = 0, !.cycles = 0], {})
    /\ UNCHANGED <<mode, history>>

(* _run_llm gives up: timeout or an error of the provider. *)
ModelFails == runner.at = "model" /\ RunFails

(* The invocation of all calls of a turn.  A tool that is not allowed fails.  *)
CallsOf(b) == {[turn |-> runner.turn, k |-> k, tool |-> b[k]] : k \in DOMAIN b}
Invoke(r0, b, failing, keep) ==
    LET r       == Counted(r0, Cardinality(failing))
        worked  == {b[k] : k \in DOMAIN b \ failing}
        results == [k \in DOMAIN b |-> Msg("result", {[turn |-> r0.turn, k |-> k, tool |-> b[k]]})]
        stored  == OfKind(history \o <<Msg("calls", CallsOf(b))>> \o results,
                          {"task", "user", "summary"} \cup Assistant \cup {"result"})
    IN  /\ {k \in DOMAIN b : b[k] \notin r.allowed} \subseteq failing
        /\ IF Exhausted(r) THEN RunFails
           ELSE /\ history' = IF "manage_context" \in worked THEN Compaction(stored, keep) ELSE stored
                /\ runner' = [r EXCEPT !.at = IF "final_answer" \in worked THEN "answered" ELSE "loop",
                                       !.last = b[Len(b)]]
                /\ UNCHANGED mode

(* No calls, but text from which a call of final_answer can be made. *)
ModelConcludes ==
    /\ runner.at = "model" /\ (mode.constrained => runner.stop)
    /\ \E failing \in SUBSET {1} : Invoke(runner, <<"final_answer">>, failing, 1)

(* Neither calls nor an answer that can be used. *)
ModelTalks(kind) ==
    /\ runner.at = "model"
    /\ LET r == Counted(runner, 1)
       IN  IF Exhausted(r) THEN RunFails
           ELSE /\ UNCHANGED mode
                /\ IF mode.constrained
                   THEN /\ runner' = IF r.stop THEN Evaluated([r EXCEPT !.required = FALSE], {}) ELSE r
                        /\ UNCHANGED history
                   ELSE /\ runner' = [r EXCEPT !.at = "loop"]
                        /\ history' = history \o <<Msg(kind, {}), TempMsg>>

(* The same call again and again. *)
CycleFound(b) ==
    /\ runner.at = "model" /\ runner.cycles < MaxCycles
    /\ IF mode.constrained
       THEN \E t \in {b[k] : k \in DOMAIN b} :
               LET r == Evaluated([runner EXCEPT !.cycles = @ + 1], {t})
               IN  /\ runner' = IF r.allowed = {} THEN [r EXCEPT !.at = "failed"] ELSE r
                   /\ UNCHANGED <<mode, history>>
       ELSE /\ runner' = [runner EXCEPT !.at = "loop"]
            /\ history' = history \o <<Msg("calls", CallsOf(b))>>
                          \o [k \in DOMAIN b |-> Msg("result", {[turn |-> runner.turn, k |-> k, tool |-> b[k]]})]
                          \o <<TempMsg>>
            /\ UNCHANGED mode

ModelCalls(b) == /\ runner.at = "model"
                 /\ \E failing \in SUBSET DOMAIN b, keep \in Keeps : Invoke(runner, b, failing, keep)

(* The agent keeps its memory (save_intermediate_steps) and gets a task. *)
NextTask ==
    /\ runner.at = "answered" /\ runner.turn < MaxTurns
    /\ history' = Append(history, TaskMsg)
    /\ runner' = [runner EXCEPT !.at = "loop", !.iteration = 0, !.errors = 0, !.stepErrors = 0,
                                !.last = "none", !.required = TRUE]
    /\ UNCHANGED mode

RunnerNext ==
    \/ StartIteration \/ ModelFails \/ ModelConcludes \/ NextTask
    \/ \E kind \in {"text", "thought"} : ModelTalks(kind)
    \/ \E b \in Batches : CycleFound(b) \/ ModelCalls(b)

-----------------------------------------------------------------------------
(* What the model is sent is well formed: every call has one result in its    *)
(* own turn, no result lost its call, and the turn is the model's: a provider *)
(* refuses anything else.  Without protected tools a compaction that keeps    *)
(* more than one exchange may end the history on an older text of the model.  *)
HistoryWellFormed ==
    /\ Paired(history)
    /\ runner.at = "model" /\ mode.protected => history[Len(history)].kind \notin Assistant

(* Compaction and clean-up never lose a task, nor, with protected tools, an   *)
(* instruction or what the rules were; the order of instructions stays.       *)
RulesRemembered ==
    [][LET K == IF mode.protected THEN {"task", "user"} ELSE {"task"}
           rules(h) == {h[i] : i \in {j \in DOMAIN h : h[j].kind = "result" /\ \E c \in h[j].calls : c.tool = "rules"}}
       IN  /\ IsPrefix(OfKind(history, K), OfKind(history', K))
           /\ mode.protected => rules(history) \subseteq rules(history')]_runnerVars

(* The history stays one that a model accepts, and keeps what it must not     *)
(* forget, whatever is compacted.                                             *)
HistorySound == []HistoryWellFormed /\ RulesRemembered
=============================================================================
