-------------------------- MODULE ConfidenceProofs --------------------------
(***************************************************************************)
(* ConfidenceSignal's type correctness and its permission gates (ADR-023), *)
(* for every scale, smoothing factor, set of severities and bound.         *)
(***************************************************************************)
EXTENDS ConfidenceSignal, ConfidenceLemmas

(* The object and its caller.                                              *)

\* The type invariant holds at construction and is preserved by every call.
LEMMA TypeInductive == /\ Init => TypeOK
                       /\ TypeOK /\ [Next]_vars => TypeOK'
  <1>1. InitialSignal \in Signals
    BY ScaleAssumption DEF InitialSignal, Signals, Deltas
  <1>2. Init => TypeOK  BY <1>1 DEF Init, TypeOK
  <1>3. ASSUME TypeOK, [Next]_vars PROVE TypeOK'
    <2>1. CASE UNCHANGED vars  BY <1>3, <2>1 DEF TypeOK, vars
    <2>2. ASSUME NEW o \in Outcomes(SEVERITIES), Update(o) PROVE TypeOK'
      <3>1. o.category \in Categories /\ ValidOutcome(o)
        BY <2>2 DEF Outcomes, Update
      <3>2. /\ UpdateSignal(signal, o) \in Signals
            /\ UpdateSignal(signal, o).cycle_id = signal.cycle_id + 1
        BY <1>3, <3>1, UpdateFacts DEF TypeOK
      <3>3. signal' = UpdateSignal(signal, o) /\ raised' = FALSE
            /\ UNCHANGED <<replaying, saved>>
        BY <2>2 DEF Update
      <3>4. saved.cycle_id \in Nat /\ signal.cycle_id \in Nat  BY <1>3 DEF TypeOK, Signals
      <3>5. replaying => saved.cycle_id <= signal.cycle_id + 1  BY <1>3, <3>4 DEF TypeOK
      <3>6. saved'.cycle_id <= signal'.cycle_id \/ ~replaying'  BY <3>2, <3>3, <3>5
      <3> QED BY <1>3, <3>2, <3>3, <3>6 DEF TypeOK
    <2>3. ASSUME NEW o \in Outcomes(SEVERITIES), UpdateRaises(o) PROVE TypeOK'
      BY <1>1, <1>3, <2>3 DEF UpdateRaises, TypeOK
    <2>4. CASE ReplayBegin
      <3>1. signal.cycle_id \in Nat  BY <1>3 DEF TypeOK, Signals
      <3>2. /\ signal' \in Signals /\ saved' \in Signals
            /\ replaying' \in BOOLEAN /\ raised' \in BOOLEAN
        BY <1>3, <2>4 DEF ReplayBegin, TypeOK
      <3>3. saved'.cycle_id <= signal'.cycle_id  BY <2>4, <3>1 DEF ReplayBegin
      <3> QED BY <3>2, <3>3 DEF TypeOK
    <2>5. CASE ReplayEnd  BY <1>1, <1>3, <2>5 DEF ReplayEnd, TypeOK
    <2> QED BY <1>3, <2>1, <2>2, <2>3, <2>4, <2>5 DEF Next
  <1> QED BY <1>2, <1>3

\* Type correctness: the value never leaves [0.0, 1.0], whatever update and
\* replay are given (confidence.py:260).
THEOREM TypeCorrect == Spec => []TypeOK
  BY TypeInductive, PTL DEF Spec

\* Whatever step is taken, only update() advances cycle_id by one: replay's
\* restoring assignments can only lower it.
LEMMA OnlyUpdateAdvances ==
  ASSUME TypeOK, [Next]_vars, Updates
  PROVE  \E o \in Outcomes(SEVERITIES) : Update(o)
  <1>1. signal.cycle_id \in Nat /\ saved.cycle_id \in Nat  BY DEF TypeOK, Signals
  <1>2. CASE UNCHANGED vars  BY <1>1, <1>2 DEF vars, Updates
  <1>3. CASE \E o \in Outcomes(SEVERITIES) : UpdateRaises(o)
    BY <1>1, <1>3 DEF UpdateRaises, Updates
  <1>4. CASE ReplayBegin  BY <1>1, <1>4 DEF ReplayBegin, Updates
  <1>5. CASE ReplayEnd
    <2>1. saved.cycle_id <= signal.cycle_id /\ signal' = saved
      BY <1>5 DEF ReplayEnd, TypeOK
    <2> QED BY <1>1, <2>1 DEF Updates
  <1> QED BY <1>2, <1>3, <1>4, <1>5 DEF Next

\* ADR-023: no update inside the failure window raises the value
\* (confidence.py:123-133, 249-250), for every scale, alpha and severities.
THEOREM WindowBlocks == Spec => WindowBlocksRise
  <1>1. ASSUME TypeOK, [Next]_vars
        PROVE  Updates /\ signal.last_outcome_was_failure => signal'.value <= signal.value
    <2> SUFFICES ASSUME Updates, signal.last_outcome_was_failure
                 PROVE  signal'.value <= signal.value
      OBVIOUS
    <2>1. PICK o \in Outcomes(SEVERITIES) : Update(o)  BY <1>1, OnlyUpdateAdvances
    <2>2. /\ o.category \in Categories /\ ValidOutcome(o) /\ signal \in Signals
          /\ signal' = UpdateSignal(signal, o)
      BY <1>1, <2>1 DEF Outcomes, Update, TypeOK
    <2> QED BY <2>2, UpdateFacts
  <1> QED BY <1>1, TypeCorrect, PTL DEF Spec, WindowBlocksRise

\* ADR-023 per conflict kind, momentum included (confidence.py:43-48, 137-149).
THEOREM KindGates == Spec => KindGatesMovement
  <1>1. ASSUME TypeOK, NEW o \in Outcomes(SEVERITIES), Update(o)
        PROVE  /\ o.kind = "constraint_conflict" => signal'.value <= signal.value
               /\ o.kind \in {"decomposition_conflict", "resolution_instability"}
                     => signal'.value = signal.value
    <2>1. /\ o.category \in Categories /\ ValidOutcome(o) /\ signal \in Signals
          /\ signal' = UpdateSignal(signal, o)
      BY <1>1 DEF Outcomes, Update, TypeOK
    <2> QED BY <2>1, UpdateFacts
  <1>2. TypeOK => [\A o \in Outcomes(SEVERITIES) : Update(o) =>
                      /\ o.kind = "constraint_conflict" => signal'.value <= signal.value
                      /\ o.kind \in {"decomposition_conflict", "resolution_instability"}
                            => signal'.value = signal.value]_vars
    BY <1>1
  <1> QED BY <1>2, TypeCorrect, PTL DEF KindGatesMovement

\* The window is open exactly after a failure, and a refused cycle that closes
\* it takes the failure's momentum with it (confidence.py:220-238, 263).
THEOREM SingleCycleWindow == Spec => WindowIsSingleCycle
  <1>1. ASSUME TypeOK, NEW o \in Outcomes(SEVERITIES), Update(o)
        PROVE  /\ signal'.last_outcome_was_failure <=> o.category = "failure"
               /\ signal.last_outcome_was_failure /\ o.category \in NoUpdateCategories
                     => signal'.last_smoothed_delta = 0 /\ signal'.value = signal.value
    <2>1. /\ o.category \in Categories /\ ValidOutcome(o) /\ signal \in Signals
          /\ signal' = UpdateSignal(signal, o)
      BY <1>1 DEF Outcomes, Update, TypeOK
    <2> QED BY <2>1, UpdateFacts
  <1>2. TypeOK => [\A o \in Outcomes(SEVERITIES) : Update(o) =>
                      /\ signal'.last_outcome_was_failure <=> o.category = "failure"
                      /\ signal.last_outcome_was_failure /\ o.category \in NoUpdateCategories
                            => signal'.last_smoothed_delta = 0
                               /\ signal'.value = signal.value]_vars
    BY <1>1
  <1> QED BY <1>2, TypeCorrect, PTL DEF WindowIsSingleCycle

\* The bounds of the first two updates hold of the signal and of what replay()
\* will put back.
EarlyInv == TypeOK /\ Early(signal) /\ Early(saved)

LEMMA EarlyInductive ==
  ASSUME 10 * ALPHA_NUM <= 3 * ALPHA_DEN
  PROVE  /\ Init => EarlyInv
         /\ EarlyInv /\ [Next]_vars => EarlyInv'
  <1>1. Early(InitialSignal)
    <2>1. 2 * (SCALE \div 2) <= SCALE  BY ScaleAssumption
    <2> QED BY <2>1 DEF InitialSignal, Early
  <1>2. Init => EarlyInv  BY <1>1, TypeInductive DEF Init, EarlyInv
  <1>3. ASSUME EarlyInv, [Next]_vars PROVE EarlyInv'
    <2>1. TypeOK'  BY <1>3, TypeInductive DEF EarlyInv
    <2>2. Early(signal') /\ Early(saved')
      <3>1. CASE UNCHANGED vars  BY <1>3, <3>1 DEF EarlyInv, vars
      <3>2. ASSUME NEW o \in Outcomes(SEVERITIES), Update(o)
            PROVE  Early(signal') /\ Early(saved')
        <4>1. /\ o.category \in Categories /\ ValidOutcome(o) /\ signal \in Signals
              /\ signal' = UpdateSignal(signal, o) /\ saved' = saved
          BY <1>3, <3>2 DEF Outcomes, Update, EarlyInv, TypeOK
        <4>2. Early(UpdateSignal(signal, o))  BY <1>3, <4>1, UpdateEarly DEF EarlyInv
        <4> QED BY <1>3, <4>1, <4>2 DEF EarlyInv
      <3>3. CASE \E o \in Outcomes(SEVERITIES) : UpdateRaises(o)
        BY <1>1, <1>3, <3>3 DEF UpdateRaises, EarlyInv
      <3>4. CASE ReplayBegin  BY <1>3, <3>4 DEF ReplayBegin, EarlyInv
      <3>5. CASE ReplayEnd  BY <1>1, <1>3, <3>5 DEF ReplayEnd, EarlyInv
      <3> QED BY <1>3, <3>1, <3>2, <3>3, <3>4, <3>5 DEF Next
    <2>3. Early(signal)' /\ Early(saved)'  BY <2>2 DEF Early
    <2> QED BY <2>1, <2>3 DEF EarlyInv
  <1> QED BY <1>2, <1>3

\* At any alpha up to 0.3, the default, two updates never lead a fresh signal to
\* 0.90, not even between the calls of an aborted replay (confidence.py:253-260).
THEOREM ConfidenceIsEarned ==
  ASSUME 10 * ALPHA_NUM <= 3 * ALPHA_DEN
  PROVE  Spec => []HighConfidenceIsEarned
  <1>1. EarlyInv => HighConfidenceIsEarned
    BY EarlyIsLow DEF EarlyInv, TypeOK, HighConfidenceIsEarned
  <1> QED BY <1>1, EarlyInductive, PTL DEF Spec
=============================================================================
