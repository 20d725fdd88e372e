----------------------------- MODULE DriftProofs -----------------------------
(***************************************************************************)
(* The drift monitor under the agent's protocol, for every window,         *)
(* threshold and set of errors.  What makes the facts inductive is that    *)
(* whatever an outlier leaves behind sends the next entry check to HALT,   *)
(* and that a z-score kept in the record is always that of the window kept *)
(* beside it.  Nothing is asked of the thresholds but by LadderUnreachable. *)
(***************************************************************************)
EXTENDS DriftMonitor, DriftLemmas

\* The z-score is the initial one or that of the window's newest error.
ScoreIsOfWindow ==
    drift.last_error_z = "below" \/ drift.last_error_z \in ZClasses(drift.recent)

IInv == /\ TypeOK
        /\ StreakHasOutlier(drift)
        /\ drift.drift_events = 0 \/ (drift.drift_events = 1 /\ drift.last_error_z = "above")
        /\ inCycle => ~Severe(drift) /\ drift.last_error_z = "below"
        /\ ScoreIsOfWindow

\* Construction establishes the invariant.
LEMMA InitIInv == Init => IInv
  <1> SUFFICES ASSUME Init PROVE IInv  OBVIOUS
  <1>1. /\ drift = InitialDrift /\ configured \in PolicyModes /\ mode = configured
        /\ inCycle = FALSE
    BY DEF Init
  <1>2. InitialDrift \in DriftRecords(ERRORS)  BY DEF InitialDrift, DriftRecords
  <1>3. /\ InitialDrift.recent = <<>> /\ InitialDrift.drift_events = 0
        /\ InitialDrift.drift_streak = 0 /\ InitialDrift.numeric = 0
        /\ InitialDrift.successes = 0
    BY DEF InitialDrift
  <1>4. /\ Len(drift.recent) <= WARMUP
        /\ drift.drift_streak <= drift.drift_events
        /\ drift.successes <= drift.numeric
    <2>1. Len(<<>>) <= WARMUP  BY DriftAssumption
    <2>2. drift.recent = <<>>  BY <1>1, <1>3
    <2>3. Len(drift.recent) <= WARMUP  BY <2>1, <2>2
    <2> QED BY <1>1, <1>3, <2>3
  <1>5. TypeOK  BY <1>1, <1>2, <1>4 DEF TypeOK
  <1>6. StreakHasOutlier(drift)  BY <1>1, <1>3 DEF StreakHasOutlier
  <1>7. ScoreIsOfWindow  BY <1>1 DEF InitialDrift, ScoreIsOfWindow
  <1> QED BY <1>1, <1>3, <1>5, <1>6, <1>7 DEF IInv

\* The entry check opens a cycle only on quiet evidence.
LEMMA StepEntryIInv == IInv /\ StepEntry => IInv'
  <1> SUFFICES ASSUME IInv, StepEntry PROVE IInv'  OBVIOUS
  <1>2. /\ mode' = Escalate(drift, mode)
        /\ inCycle' \in BOOLEAN /\ (inCycle' => mode' # "HALT")
        /\ UNCHANGED <<drift, configured>>
    BY DEF StepEntry
  <1>3. /\ Escalate(drift, mode) \in PolicyModes
        /\ Escalate(drift, mode) # "HALT" => ~Severe(drift) /\ drift.last_error_z = "below"
    BY EscalateFacts DEF IInv, TypeOK
  <1>4. mode' \in PolicyModes  BY <1>2, <1>3
  <1>5. Severe(drift)' = Severe(drift) /\ StreakHasOutlier(drift)' = StreakHasOutlier(drift)
    BY <1>2 DEF Severe, StreakHasOutlier
  <1>6. ScoreIsOfWindow'  BY <1>2 DEF IInv, ScoreIsOfWindow
  <1> QED BY <1>2, <1>3, <1>4, <1>5, <1>6 DEF IInv, TypeOK

\* A recorded cycle starts without an event, so it leaves at most one.
LEMMA RecordIInv ==
  ASSUME IInv, NEW error \in ERRORS, NEW numeric \in BOOLEAN, NEW success \in BOOLEAN,
         Record(error, numeric, success)
  PROVE  IInv'
  <1>1. /\ drift \in DriftRecords(ERRORS) /\ inCycle
        /\ drift' \in RecordCycle(drift, error, numeric, success)
        /\ inCycle' = FALSE /\ UNCHANGED <<configured, mode>>
    BY DEF Record, IInv, TypeOK
  <1>2. drift.drift_events = 0  BY <1>1 DEF IInv
  <1>3. /\ drift.drift_streak = 0
        /\ drift.successes \in Nat /\ drift.numeric \in Nat
        /\ drift.successes <= drift.numeric
    BY <1>1, <1>2 DEF IInv, TypeOK, DriftRecords
  <1>4. /\ drift' \in DriftRecords(ERRORS) /\ Len(drift'.recent) <= WARMUP
        /\ StreakHasOutlier(drift')
        /\ drift'.last_error_z = "above" => /\ drift'.drift_events = drift.drift_events + 1
                                            /\ drift'.drift_streak = drift.drift_streak + 1
        /\ drift'.last_error_z # "above" => /\ drift'.drift_events = drift.drift_events
                                            /\ drift'.drift_streak = 0
        /\ drift'.numeric = drift.numeric + (IF numeric THEN 1 ELSE 0)
        /\ drift'.successes = drift.successes + (IF numeric /\ success THEN 1 ELSE 0)
        /\ drift'.last_error_z \in ZClasses(drift'.recent)
    BY <1>1, RecordCycleFacts
  <1>5. drift'.drift_streak <= drift'.drift_events
    BY <1>2, <1>3, <1>4
  <1>6. drift'.successes <= drift'.numeric  BY <1>3, <1>4
  <1>7. \/ drift'.drift_events = 0
        \/ drift'.drift_events = 1 /\ drift'.last_error_z = "above"
    BY <1>2, <1>4
  <1>8. StreakHasOutlier(drift)'  BY <1>4 DEF StreakHasOutlier
  <1>9. ScoreIsOfWindow'  BY <1>4 DEF ScoreIsOfWindow
  <1> QED BY <1>1, <1>4, <1>5, <1>6, <1>7, <1>8, <1>9 DEF IInv, TypeOK

\* Every step preserves the invariant.
LEMMA NextIInv == IInv /\ [Next]_vars => IInv'
  <1> SUFFICES ASSUME IInv, [Next]_vars PROVE IInv'  OBVIOUS
  <1>1. CASE StepEntry  BY <1>1, StepEntryIInv
  <1>2. CASE SkipRecording
    BY <1>2 DEF SkipRecording, IInv, TypeOK, StreakHasOutlier, Severe, ScoreIsOfWindow
  <1>3. CASE \E error \in ERRORS, numeric, success \in BOOLEAN :
                Record(error, numeric, success)
    BY <1>3, RecordIInv
  <1>4. CASE UNCHANGED vars
    BY <1>4 DEF vars, IInv, TypeOK, StreakHasOutlier, Severe, ScoreIsOfWindow
  <1> QED BY <1>1, <1>2, <1>3, <1>4 DEF Next

\* The invariant holds in every reachable state.
LEMMA AlwaysIInv == Spec => []IInv
  BY InitIInv, NextIInv, PTL DEF Spec

\* The monitor's record stays typed and its counts agree with each other.
THEOREM DriftTypeCorrect == Spec => []TypeOK
  <1>1. IInv => TypeOK  BY DEF IInv
  <1> QED BY <1>1, AlwaysIInv, PTL

\* With ladder thresholds of one or more the graduated ladder is out of reach, whatever
\* the other settings: every streak begins with an outlier, and the next entry check
\* answers that with HALT before it looks at the ladder (drift.py:154-165).
THEOREM LadderUnreachable ==
  ASSUME LadderStartsAtOne
  PROVE  Spec => []ModeIsConfiguredOrHalt
  <1>1. Init => ModeIsConfiguredOrHalt  BY DEF Init, ModeIsConfiguredOrHalt
  <1>2. IInv /\ ModeIsConfiguredOrHalt /\ [Next]_vars => ModeIsConfiguredOrHalt'
    <2> SUFFICES ASSUME IInv, ModeIsConfiguredOrHalt, [Next]_vars
                 PROVE  ModeIsConfiguredOrHalt'
      OBVIOUS
    <2>1. CASE StepEntry
      <3>1. /\ drift.drift_streak \in Nat /\ StreakHasOutlier(drift)
            /\ mode \in PolicyModes
        BY DEF IInv, TypeOK, DriftRecords
      <3>2. mode' \in {mode, "HALT"} /\ configured' = configured
        BY <2>1, <3>1, EscalatesToHalt DEF StepEntry
      <3> QED BY <3>2 DEF ModeIsConfiguredOrHalt
    <2>2. CASE ~StepEntry
      <3>1. UNCHANGED <<configured, mode>>
        BY <2>2 DEF Next, SkipRecording, Record, vars
      <3> QED BY <3>1 DEF ModeIsConfiguredOrHalt
    <2> QED BY <2>1, <2>2
  <1> QED BY <1>1, <1>2, AlwaysIInv, PTL DEF Spec

\* However large severe_drift_count and max_drift_streak are, a second drift event
\* is never registered.
THEOREM OneDriftEvent == Spec => []AtMostOneDriftEvent
  <1>1. IInv => AtMostOneDriftEvent
    BY DEF IInv, TypeOK, DriftRecords, AtMostOneDriftEvent
  <1> QED BY <1>1, AlwaysIInv, PTL

\* A cycle is recorded only while the evidence is quiet, with no help from the
\* periodic guard.
THEOREM RecordsOnQuietEvidence == Spec => NoCycleOnSevereEvidence
  <1>1. IInv /\ [Next]_vars =>
          [drift' # drift => ~Severe(drift) /\ drift.last_error_z = "below"]_vars
    BY DEF IInv, Next, StepEntry, SkipRecording, Record, vars
  <1> QED BY <1>1, AlwaysIInv, PTL DEF Spec, NoCycleOnSevereEvidence

\* At a threshold t with t^2 >= WARMUP - 1 (the default setting meets the bound
\* exactly), whatever the critic reports, only an error that differs from WARMUP - 1
\* equal ones before it is ever taken for an outlier: Samuelson's inequality bounds
\* every other z-score below t.
THEOREM OutliersAreLoneErrors ==
  ASSUME Z_SQUARE >= (WARMUP - 1) * Z_UNIT
  PROVE  Spec => []OnlyLoneOutliers
  <1>1. ASSUME IInv PROVE OnlyLoneOutliers
    <2>1. drift.recent \in Seq(ERRORS) /\ Len(drift.recent) <= WARMUP
      BY <1>1 DEF IInv, TypeOK, DriftRecords
    <2>2. drift.recent \in Seq(Int)
      <3>1. PICK s \in Seq(ERRORS) : s = drift.recent  BY <2>1
      <3>2. /\ Len(s) \in Nat /\ s = [i \in 1 .. Len(s) |-> s[i]]
            /\ \A i \in 1 .. Len(s) : s[i] \in ERRORS
        OBVIOUS
      <3>3. \A i \in 1 .. Len(s) : s[i] \in Int  BY <3>2, ErrorsAssumption
      <3>4. s \in Seq(Int)  BY <3>2, <3>3
      <3> QED BY <3>1, <3>4
    <2>3. SUFFICES ASSUME drift.last_error_z # "below"
                   PROVE  \A i, j \in 1 .. WARMUP - 1 : drift.recent[i] = drift.recent[j]
      BY DEF OnlyLoneOutliers
    <2>4. drift.last_error_z \in ZClasses(drift.recent)
      BY <1>1, <2>3 DEF IInv, ScoreIsOfWindow
    <2> QED BY <2>1, <2>2, <2>3, <2>4, OutliersAreLone
  <1> QED BY <1>1, AlwaysIInv, PTL
=============================================================================
