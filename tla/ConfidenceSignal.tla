-------------------------- MODULE ConfidenceSignal --------------------------
(***************************************************************************)
(* One ConfidenceSignal object of src/eck/confidence.py and its caller:    *)
(* update() with any outcome the types allow, and replay(), which feeds    *)
(* update() a list of outcomes and then puts the four fields back.         *)
(***************************************************************************)
EXTENDS Confidence

CONSTANTS SEVERITIES,   \* severities the caller passes, some of them invalid
          MAX_CYCLES    \* bound: updates applied to the signal

ASSUME SeveritiesAssumption == SEVERITIES \subseteq Int

VARIABLES signal,   \* the object's four fields
          replaying,   \* replay() is on the stack
          saved,    \* its local copies of the fields (InitialSignal outside replay)
          raised    \* whether the last call ended in ValueError

vars == <<signal, replaying, saved, raised>>

-----------------------------------------------------------------------------
Init == /\ signal = InitialSignal
        /\ replaying = FALSE
        /\ saved = InitialSignal
        /\ raised = FALSE

\* update(), called by the agent or by the loop of replay().
Update(o) ==
    /\ ValidOutcome(o)
    /\ signal.cycle_id < MAX_CYCLES
    /\ signal' = UpdateSignal(signal, o)
    /\ raised' = FALSE
    /\ UNCHANGED <<replaying, saved>>

\* update() raising before any mutation; raised inside replay, the error
\* leaves the loop past the four restoring assignments.
UpdateRaises(o) ==
    /\ ~ValidOutcome(o)
    /\ replaying' = FALSE
    /\ saved' = InitialSignal
    /\ raised' = TRUE
    /\ UNCHANGED signal

ReplayBegin ==
    /\ ~replaying
    /\ replaying' = TRUE
    /\ saved' = signal
    /\ raised' = FALSE
    /\ UNCHANGED signal

ReplayEnd ==
    /\ replaying
    /\ signal' = saved
    /\ replaying' = FALSE
    /\ saved' = InitialSignal
    /\ raised' = FALSE

Next == \/ \E o \in Outcomes(SEVERITIES) : Update(o) \/ UpdateRaises(o)
        \/ ReplayBegin
        \/ ReplayEnd

Spec == Init /\ [][Next]_vars

-----------------------------------------------------------------------------
(* Properties.                                                             *)

\* The confidence value stays in [0.0, 1.0] and the momentum within the raw
\* deltas' range, so one update adds at most 0.35 (confidence.py:253-260); what
\* replay() saved is never later than the signal it is working on.
TypeOK == /\ signal \in Signals
          /\ replaying \in BOOLEAN
          /\ saved \in Signals
          /\ raised \in BOOLEAN
          /\ replaying => saved.cycle_id <= signal.cycle_id

Updates == signal'.cycle_id = signal.cycle_id + 1

\* ADR-023: in the cycle after a failure confidence cannot rise, whatever the
\* outcome and whatever momentum earlier successes left (both are clamped).
WindowBlocksRise ==
    [][Updates /\ signal.last_outcome_was_failure
          => signal'.value <= signal.value]_vars

\* ADR-023 per conflict kind: a constraint conflict never raises confidence, and
\* a decomposition conflict or an unstable resolution never moves it, not even
\* by momentum.
KindGatesMovement ==
    [][\A o \in Outcomes(SEVERITIES) : Update(o) =>
          /\ o.kind = "constraint_conflict" => signal'.value <= signal.value
          /\ o.kind \in {"decomposition_conflict", "resolution_instability"}
                => signal'.value = signal.value]_vars

\* The window is one cycle long: it is open exactly when the update just applied
\* was a failure, so a refused cycle or a success closes it, and what a refused
\* cycle closes leaves no momentum behind to pull later cycles down.
WindowIsSingleCycle ==
    [][\A o \in Outcomes(SEVERITIES) : Update(o) =>
          /\ signal'.last_outcome_was_failure <=> o.category = "failure"
          /\ signal.last_outcome_was_failure /\ o.category \in NoUpdateCategories
                => signal'.last_smoothed_delta = 0 /\ signal'.value = signal.value]_vars

\* High confidence is earned: the threshold 0.90, at which the default gate
\* executes and the goal predicate accepts, is out of reach of two updates.
\* (The default alpha; momentum is what makes the third update enough.)
HighConfidenceIsEarned ==
    10 * signal.value >= 9 * SCALE => signal.cycle_id >= 3

-----------------------------------------------------------------------------
(* What the documents say and the code does not do.                        *)

\* eck-confidence.md: "Confidence must never increase after a failure event".
\* The failure's own update still carries the positive momentum of earlier
\* successes.  Only failures the critic reports at its default partial_threshold
\* (severity 0.5 and above) count here.
FailureNeverRaises ==
    [][\A o \in Outcomes(SEVERITIES) :
          Update(o) /\ o.category = "failure" /\ 2 * o.severity >= SCALE
             => signal'.value <= signal.value]_vars

\* replay's docstring: it "restores original state exactly".
ReplayRestoresState ==
    [][replaying /\ ~replaying' => signal' = saved]_vars
=============================================================================
