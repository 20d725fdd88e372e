-------------------------------- MODULE Drift --------------------------------
(***************************************************************************)
(* The evidence record of src/eck/drift.py and what it recommends, as      *)
(* operators without state: DriftMonitor and Agent keep the record.        *)
(*                                                                         *)
(* Errors are integers (the critic's severities in units).  Of the error   *)
(* history only the last WARMUP samples are ever read, so only they are    *)
(* kept; the feasibility history is two counts.  A z-score is kept as its  *)
(* place relative to error_z_threshold, the one thing it is compared with. *)
(***************************************************************************)
EXTENDS Integers, Sequences, Functions

CONSTANTS WARMUP,               \* drift_warmup_samples
          Z_SQUARE,             \* error_z_threshold squared, times Z_UNIT
          Z_UNIT,
          SEVERE_DRIFT_COUNT,
          MAX_DRIFT_STREAK,
          ENFORCED_DRIFT,       \* enforced_drift_threshold
          GUIDED_DRIFT,         \* guided_drift_threshold
          LOW_CONF_PERCENT      \* low_conf_threshold, in percent

\* config.py checks none of these.  The first line is the model's scope: a slice
\* error_history[-0:] is the whole history, and the initial z-score of 0.0 is
\* below every positive threshold, but no other.  The rest may be any integers.
ASSUME DriftAssumption ==
    /\ WARMUP \in Nat \ {0} /\ Z_SQUARE \in Nat \ {0} /\ Z_UNIT \in Nat \ {0}
    /\ SEVERE_DRIFT_COUNT \in Int /\ MAX_DRIFT_STREAK \in Int
    /\ ENFORCED_DRIFT \in Int /\ GUIDED_DRIFT \in Int
    /\ LOW_CONF_PERCENT \in Int

\* The ladder begins at a streak of one, as it does by default; a threshold of
\* zero makes a fresh monitor recommend GUIDED or ENFORCED (drift.py:160-165).
LadderStartsAtOne == ENFORCED_DRIFT >= 1 /\ GUIDED_DRIFT >= 1

PolicyModes == {"NORMAL", "GUIDED", "ENFORCED", "HALT"}

PolicyOrder == [NORMAL |-> 0, GUIDED |-> 1, ENFORCED |-> 2, HALT |-> 3]

\* A monitor's record over samples from errors.
DriftRecords(errors) ==
    [recent : Seq(errors), last_error_z : {"below", "at", "above"},
     drift_events : Nat, drift_streak : Nat, numeric : Nat, successes : Nat]

InitialDrift == [recent |-> <<>>, last_error_z |-> "below", drift_events |-> 0,
                 drift_streak |-> 0, numeric |-> 0, successes |-> 0]

-----------------------------------------------------------------------------
(* record_error                                                            *)

Squares(s) == [i \in DOMAIN s |-> s[i] * s[i]]

\* Mutant: the slice is one sample too long.
LastSamplesOneMore(s) == IF Len(s) > WARMUP + 1 THEN Tail(s) ELSE s

LastSamples(s) == IF Len(s) > WARMUP THEN SubSeq(s, Len(s) - WARMUP + 1, Len(s)) ELSE s

\* Mutant: pvariance where pstdev is meant.
ZClassesVariance(s) ==
    LET W == Len(s)
        deviation == W * s[W] - SumFunction(s)
        spread == W * SumFunction(Squares(s)) - SumFunction(s) * SumFunction(s)
    IN  IF /\ W >= WARMUP /\ spread > 0
           /\ Z_UNIT * W * W * deviation * deviation > Z_SQUARE * spread * spread
        THEN {"above"} ELSE {"below"}

\* Where z = |e - mean| / pstdev can lie, for the newest error e of a full
\* window s with sum S and sum of squares Q: z > t iff (Ws.e - S)^2 > t^2(Ws.Q - S^2).
\* Both sides are exact here; when they are equal the code's floats may round
\* either way.  A constant window has z = 0.
ZClasses(s) ==
    LET W == Len(s)
        S == SumFunction(s)
        Q == SumFunction(Squares(s))
        lhs == Z_UNIT * (W * s[W] - S) * (W * s[W] - S)
        rhs == Z_SQUARE * (W * Q - S * S)
    IN  CASE W < WARMUP \/ W * Q = S * S \/ lhs < rhs -> {"below"}
          [] W >= WARMUP /\ lhs > rhs               -> {"above"}
          [] OTHER                                  -> {"below", "at", "above"}

\* The records record_error may leave; it returns last_error_z = "above".
RecordError(d, error) ==
    LET recent == LastSamples(Append(d.recent, error))
    IN  {[d EXCEPT !.recent = recent, !.last_error_z = z] : z \in ZClasses(recent)}

RecordFeasibility(d, numeric, success) ==
    [d EXCEPT !.numeric = @ + (IF numeric THEN 1 ELSE 0),
              !.successes = @ + (IF numeric /\ success THEN 1 ELSE 0)]

\* Mutant: an outlier is counted where it is found and again where it is confirmed.
RegisterDriftTwice(d) == [d EXCEPT !.drift_events = @ + 2, !.drift_streak = @ + 1]

RegisterDrift(d) == [d EXCEPT !.drift_events = @ + 1, !.drift_streak = @ + 1]

ClearStreak(d) == [d EXCEPT !.drift_streak = 0]

\* What the agent does to the monitor in a cycle that executed (agent.py:436-443).
RecordCycle(d, error, numeric, success) ==
    {LET f == RecordFeasibility(r, numeric, success)
     IN  IF r.last_error_z = "above" THEN RegisterDrift(f) ELSE ClearStreak(f) :
        r \in RecordError(d, error)}

-----------------------------------------------------------------------------
(* severe and get_policy_mode                                              *)

Severe(d) == \/ d.drift_events > SEVERE_DRIFT_COUNT
             \/ d.numeric > 0 /\ 100 * d.successes < LOW_CONF_PERCENT * d.numeric

\* Mutant: the graduated ladder of the docstring, without the z-score term.
GetPolicyModeLadder(d, mode) ==
    IF mode = "HALT" \/ Severe(d) \/ d.drift_streak >= MAX_DRIFT_STREAK THEN "HALT"
    ELSE IF d.drift_streak >= ENFORCED_DRIFT THEN "ENFORCED"
    ELSE IF d.drift_streak >= GUIDED_DRIFT THEN "GUIDED"
    ELSE "NORMAL"

\* Mutant: severe() is left to the periodic guard.
GetPolicyModeNoSevere(d, mode) ==
    IF \/ mode = "HALT"
       \/ d.drift_streak >= MAX_DRIFT_STREAK
       \/ d.last_error_z # "below" THEN "HALT"
    ELSE "NORMAL"

GetPolicyMode(d, mode) ==
    IF \/ mode = "HALT"
       \/ Severe(d)
       \/ d.drift_streak >= MAX_DRIFT_STREAK
       \/ d.last_error_z # "below" THEN "HALT"
    ELSE IF d.drift_streak >= ENFORCED_DRIFT THEN "ENFORCED"
    ELSE IF d.drift_streak >= GUIDED_DRIFT THEN "GUIDED"
    ELSE "NORMAL"

\* Mutant: the recommendation is taken as it is, upwards or downwards.
EscalateAlways(d, mode) == GetPolicyMode(d, mode)

\* The first statements of step(): the only place the mode ever changes.
Escalate(d, mode) ==
    LET recommended == GetPolicyMode(d, mode)
    IN  IF PolicyOrder[recommended] > PolicyOrder[mode] THEN recommended ELSE mode
=============================================================================
