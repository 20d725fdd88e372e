------------------------------- MODULE Critic -------------------------------
(***************************************************************************)
(* src/eck/critic.py: how two answers of the language model become one     *)
(* CriticOutcome.  Stateless; Agent picks among CriticOutcomes.  The       *)
(* conflict footprint reaches only logs and is left out, as is the         *)
(* verifier callback, which the agent never passes.                        *)
(***************************************************************************)
EXTENDS Confidence

CONSTANTS PARTIAL_THRESHOLD,   \* config.partial_threshold, in units
          CRITIC_SEVERITIES,   \* severities the model answers, after clamping
          CRITIC_KINDS         \* conflict kinds the model answers

ASSUME CriticAssumption == /\ PARTIAL_THRESHOLD \in 0 .. SCALE
                           /\ CRITIC_SEVERITIES \subseteq 0 .. SCALE
                           /\ CRITIC_KINDS \subseteq ConflictKinds

\* What is read for an answer that is no string or no JSON.  (Of a JSON object an
\* unknown outcome reads as failure, an unparseable severity as 1.0 and an unknown
\* or missing kind as an unstable resolution: Answers holds those already.  JSON
\* that is no object makes _parse_critic_response raise: Agent!ModelRaises.)
ParseFailure == [outcome |-> "failure", severity |-> SCALE,
                 kind |-> "resolution_instability"]

Answers == [outcome : {"success", "failure"}, severity : CRITIC_SEVERITIES,
            kind : CRITIC_KINDS] \cup {ParseFailure}

DeriveCategory(answer) ==
    CASE answer.outcome = "success" -> "success"
      [] answer.outcome # "success" /\ answer.severity < PARTIAL_THRESHOLD -> "partial"
      [] OTHER -> "failure"

\* Mutant: the two severities are added, not averaged.
ConsensusSum(first, second) ==
    LET category == DeriveCategory(first)
    IN  [category |-> category,
         severity |-> IF category # DeriveCategory(second) THEN SCALE
                      ELSE first.severity + second.severity,
         kind |-> IF category = "partial" THEN first.kind ELSE "none"]

\* Cross-validation: disagreement keeps the first category at severity 1.0.
Consensus(first, second) ==
    LET category == DeriveCategory(first)
    IN  [category |-> category,
         severity |-> IF category # DeriveCategory(second) THEN SCALE
                      ELSE (first.severity + second.severity) \div 2,
         kind |-> IF category = "partial" THEN first.kind ELSE "none"]

CriticOutcomes == {Consensus(first, second) : first, second \in Answers}

\* Mutant: a refused proposal is judged like a failed effect.
RefusalAsFailure(proposed) ==
    [category |-> IF proposed THEN "failure" ELSE "deferred",
     severity |-> IF proposed THEN SCALE ELSE 0, kind |-> "none"]

\* An execution that was not performed is never shown to the model.
RefusalOutcome(proposed) ==
    [category |-> IF proposed THEN "rejected" ELSE "deferred",
     severity |-> 0, kind |-> "none"]
=============================================================================
