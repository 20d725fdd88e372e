---------------------------- MODULE DriftMonitor ----------------------------
(***************************************************************************)
(* One DriftMonitor of src/eck/drift.py driven the way ECKAgent.step       *)
(* drives it: the escalation check at the top of every step, then at most  *)
(* one recorded cycle, then the next step.  Any critic may feed it.        *)
(***************************************************************************)
EXTENDS Drift

CONSTANTS ERRORS,        \* severities the critic reports
          MAX_NUMERIC    \* bound: numeric-feasible samples

ASSUME ErrorsAssumption == ERRORS \subseteq Nat

VARIABLES drift,      \* the monitor's record
          configured, \* config.policy_mode at construction
          mode,       \* the agent's current_policy_mode
          inCycle     \* a step has passed the HALT check, taken a task and not ended

vars == <<drift, configured, mode, inCycle>>

Init == /\ drift = InitialDrift
        /\ configured \in PolicyModes
        /\ mode = configured
        /\ inCycle = FALSE

\* A step that passes the check finds a task, or returns from an empty queue.
StepEntry == /\ ~inCycle
             /\ mode' = Escalate(drift, mode)
             /\ inCycle' \in (IF mode' = "HALT" THEN {FALSE} ELSE BOOLEAN)
             /\ UNCHANGED <<drift, configured>>

\* The critic's category was rejected or deferred: nothing is recorded.
SkipRecording == /\ inCycle
                 /\ inCycle' = FALSE
                 /\ UNCHANGED <<drift, configured, mode>>

Record(error, numeric, success) ==
    /\ inCycle
    /\ numeric => drift.numeric < MAX_NUMERIC
    /\ drift' \in RecordCycle(drift, error, numeric, success)
    /\ inCycle' = FALSE
    /\ UNCHANGED <<configured, mode>>

Next == \/ StepEntry
        \/ SkipRecording
        \/ \E error \in ERRORS, numeric, success \in BOOLEAN :
              Record(error, numeric, success)

Spec == Init /\ [][Next]_vars

-----------------------------------------------------------------------------
(* Properties.                                                             *)

\* The monitor keeps at most WARMUP samples, its counts agree with each other,
\* and a step is never under way in HALT.
TypeOK == /\ drift \in DriftRecords(ERRORS)
          /\ Len(drift.recent) <= WARMUP
          /\ drift.drift_streak <= drift.drift_events
          /\ drift.successes <= drift.numeric
          /\ configured \in PolicyModes /\ mode \in PolicyModes
          /\ inCycle \in BOOLEAN
          /\ inCycle => mode # "HALT"

\* The graduated ladder is never climbed: with ladder thresholds of one or more
\* drift moves the mode straight to HALT.  A streak of one already needs z above
\* error_z_threshold, which get_policy_mode answers with HALT (drift.py:154-158).
ModeIsConfiguredOrHalt == mode \in {configured, "HALT"}

\* One epoch registers at most one drift event: the streak halt of agent.py:456
\* and the event count of severe() (drift.py:125) never get to decide anything.
AtMostOneDriftEvent == drift.drift_events <= 1 /\ drift.drift_streak <= 1

\* No cycle is recorded on evidence that is already severe or already an
\* outlier: the next step's entry check stops the agent first, whether or not
\* the periodic guard was due (agent.py:146, 555).
NoCycleOnSevereEvidence ==
    [][drift' # drift => ~Severe(drift) /\ drift.last_error_z = "below"]_vars

\* At the default setting (t^2 = WARMUP - 1) no window holds an error beyond the
\* threshold; it is met only by a lone sample differing from WARMUP - 1 equal
\* ones, where the outcome is decided by float rounding (drift.py:67-75).
OnlyLoneOutliers ==
    drift.last_error_z # "below" =>
        \A i, j \in 1 .. WARMUP - 1 : drift.recent[i] = drift.recent[j]

-----------------------------------------------------------------------------
(* What the documents say and the code does not do.                        *)

\* get_policy_mode's docstring: GUIDED for a moderate streak, ENFORCED for a
\* sustained one, HALT for severe instability or a streak of max_drift_streak.
DocumentedMode ==
    IF \/ mode = "HALT"
       \/ Severe(drift)
       \/ drift.drift_streak >= MAX_DRIFT_STREAK THEN "HALT"
    ELSE IF drift.drift_streak >= ENFORCED_DRIFT THEN "ENFORCED"
    ELSE IF drift.drift_streak >= GUIDED_DRIFT THEN "GUIDED"
    ELSE "NORMAL"

RecommendsAsDocumented == GetPolicyMode(drift, mode) = DocumentedMode
=============================================================================
