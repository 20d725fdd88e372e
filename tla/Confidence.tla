----------------------------- MODULE Confidence -----------------------------
(***************************************************************************)
(* The arithmetic of src/eck/confidence.py: how one critic outcome moves   *)
(* the confidence signal.  The module has no state; ConfidenceSignal and   *)
(* Agent keep a signal record and update it with these operators.          *)
(*                                                                         *)
(* Division rounds down; a cfg that makes SCALE divisible by 40 and by     *)
(* ALPHA_DEN^k computes the first k updates exactly.                       *)
(***************************************************************************)
EXTENDS Units

CONSTANTS ALPHA_NUM,    \* the smoothing factor alpha is ALPHA_NUM / ALPHA_DEN
          ALPHA_DEN

\* __init__ raises ValueError unless 0 < alpha <= 1.
ASSUME AlphaAssumption == /\ ALPHA_DEN \in Nat \ {0}
                          /\ ALPHA_NUM \in 1 .. ALPHA_DEN

-----------------------------------------------------------------------------
(* What the critic reports.                                                *)

Categories == {"success", "partial", "failure", "rejected", "deferred"}

NoUpdateCategories == {"rejected", "deferred"}

ConflictKinds == {"evidence_conflict", "constraint_conflict",
                  "decomposition_conflict", "resolution_instability"}

\* kind is the conflict_kind of the PartialStructure, "none" when there is none.
Outcomes(severities) == [category : Categories, severity : severities,
                         kind : ConflictKinds \cup {"none"}]

\* update's validation: what passes it is applied, the rest raises ValueError.
ValidOutcome(o) == /\ o.category = "partial" <=> o.kind # "none"
                   /\ o.severity \in 0 .. SCALE

-----------------------------------------------------------------------------
(* The signal record and its update.                                       *)

\* No raw delta leaves this range, so no smoothed one does: see RawDelta.
Deltas == -SCALE .. (35 * SCALE) \div 100

Signals == [value : 0 .. SCALE, last_smoothed_delta : Deltas,
            last_outcome_was_failure : BOOLEAN, cycle_id : Nat]

InitialSignal == [value |-> SCALE \div 2, last_smoothed_delta |-> 0,
                  last_outcome_was_failure |-> FALSE, cycle_id |-> 0]

PartialRawDelta(severity) ==
    IF 2 * severity <= SCALE THEN (SCALE - 2 * severity) \div 4
                             ELSE -((3 * (2 * severity - SCALE)) \div 5)

RawDelta(o) ==
    CASE o.category = "success" -> (35 * SCALE - 25 * o.severity) \div 100
      [] o.category = "failure" -> -o.severity
      [] o.category = "partial" -> PartialRawDelta(o.severity)
      [] OTHER -> 0

\* Mutant: an unstable resolution moves the signal like conflicting evidence.
BaseClassLenient(kind) ==
    CASE kind = "constraint_conflict" -> "down_only"
      [] kind = "decomposition_conflict" -> "neither"
      [] OTHER -> "both"

\* No conflict kind maps to UP_ONLY, so that class and its two branches are left out.
BaseClass(kind) ==
    CASE kind = "constraint_conflict" -> "down_only"
      [] kind \in {"decomposition_conflict", "resolution_instability"} -> "neither"
      [] OTHER -> "both"

\* Mutant: the failure window restricts nothing.
EffectiveClassNoWindow(kind, window) == BaseClass(kind)

EffectiveClass(kind, window) ==
    IF window /\ BaseClass(kind) = "both" THEN "down_only" ELSE BaseClass(kind)

GatedClamp(delta, class) ==
    CASE class = "both" -> delta
      [] class = "down_only" -> IF delta < 0 THEN delta ELSE 0
      [] class = "neither" -> 0

\* Mutant: the two weights swapped.
SmoothSwapped(raw, prior) ==
    ((ALPHA_DEN - ALPHA_NUM) * raw + ALPHA_NUM * prior) \div ALPHA_DEN

Smooth(raw, prior) ==
    (ALPHA_NUM * raw + (ALPHA_DEN - ALPHA_NUM) * prior) \div ALPHA_DEN

\* Mutant: no lower bound.
Clamp01NoFloor(x) == IF x > SCALE THEN SCALE ELSE x

Clamp01(x) == IF x < 0 THEN 0 ELSE IF x > SCALE THEN SCALE ELSE x

\* Mutant: the failure's momentum outlives its window.
ConsumeWindowKeepMomentum(s) ==
    [s EXCEPT !.cycle_id = @ + 1, !.last_outcome_was_failure = FALSE]

\* A rejected or deferred outcome carries no evidence: it only consumes an
\* open failure window together with the momentum the failure left.
ConsumeWindow(s) ==
    [value |-> s.value,
     last_smoothed_delta |-> IF s.last_outcome_was_failure THEN 0 ELSE s.last_smoothed_delta,
     last_outcome_was_failure |-> FALSE,
     cycle_id |-> s.cycle_id + 1]

ApplyEvidence(s, o) ==
    LET class == EffectiveClass(o.kind, s.last_outcome_was_failure)
        delta == Smooth(GatedClamp(RawDelta(o), class),
                        GatedClamp(s.last_smoothed_delta, class))
    IN  [value |-> Clamp01(s.value + delta),
         last_smoothed_delta |-> delta,
         last_outcome_was_failure |-> o.category = "failure",
         cycle_id |-> s.cycle_id + 1]

UpdateSignal(s, o) ==
    IF o.category \in NoUpdateCategories THEN ConsumeWindow(s) ELSE ApplyEvidence(s, o)
=============================================================================
