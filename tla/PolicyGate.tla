----------------------------- MODULE PolicyGate -----------------------------
(***************************************************************************)
(* The two gates of the repository as functions of what they are given:    *)
(* DefaultPolicyGate (src/eck/policy_gate.py) and the childcare gate       *)
(* DemoPolicyGate (src/eck/demo_policy_gate.py).                           *)
(***************************************************************************)
EXTENDS Units

ExecutionModes == {"EXECUTE", "RETRY", "DEGRADE", "HALT"}

\* Rules 002 to 005, which both gates end with.
ConfidenceRules(confidence) ==
    CASE 100 * confidence < 40 * SCALE -> "HALT"
      [] 100 * confidence >= 40 * SCALE /\ 100 * confidence < 70 * SCALE -> "RETRY"
      [] 100 * confidence >= 70 * SCALE /\ 100 * confidence < 90 * SCALE -> "DEGRADE"
      [] OTHER -> "EXECUTE"

\* Mutant: Rule 003 lets moderate uncertainty execute.
DefaultGateLenient(confidence, window) ==
    IF window THEN "HALT"
    ELSE IF 100 * confidence < 40 * SCALE THEN "HALT" ELSE "EXECUTE"

DefaultGate(confidence, window) ==
    IF window THEN "HALT" ELSE ConfidenceRules(confidence)

\* context: environment, safety_level and failure_window_active of the
\* PolicyContext.  proposal: the action type and the parameters audience,
\* request_kind and bounded, "missing" for a key that is absent.
DemoGate(proposal, confidence, context) ==
    IF \/ context.environment # "childcare"
       \/ \E key \in {"audience", "request_kind", "bounded"} :
             proposal[key] = "missing"
       \/ context.safety_level = "HIGH" /\ proposal.bounded = "no"
       \/ /\ proposal.action_type = "llm_query"
          /\ proposal.request_kind = "transform" /\ proposal.audience = "child"
    THEN "DEGRADE"
    ELSE DefaultGate(confidence, context.failure_window_active)
=============================================================================
