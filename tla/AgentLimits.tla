----------------------------- MODULE AgentLimits -----------------------------
(* What every agent's deployment sets, and the bound of the models. *)
EXTENDS Integers

CONSTANTS MaxRetries,           \* MAX_RETRIES
          MaxShutdowns          \* bound: pod shutdowns during a task

ASSUME AgentLimitsAssumption == MaxRetries \in Nat \ {0} /\ MaxShutdowns \in Nat
=============================================================================
