-------------------------- MODULE ConfidenceLemmas --------------------------
(***************************************************************************)
(* What one update of the confidence signal keeps and where it may move    *)
(* the value, for every scale, smoothing factor and outcome.               *)
(***************************************************************************)
EXTENDS Confidence, TLAPS

(* Floor division keeps sign and order; everything below rests on these.   *)

\* Dividing by a positive integer gives an integer.
LEMMA DivInt == ASSUME NEW a \in Int, NEW d \in Nat \ {0} PROVE a \div d \in Int
  OBVIOUS

\* What is at most k * d is at most k after division by d.
LEMMA DivUpper ==
  ASSUME NEW a \in Int, NEW d \in Nat \ {0}, NEW k \in Int, a <= k * d
  PROVE  a \div d <= k
  <1> DEFINE q == a \div d
             r == a % d
  <1>1. /\ q \in Int /\ r \in Int /\ 0 <= r /\ a = d * q + r  OBVIOUS
  <1>2. d * q <= d * k  BY <1>1
  <1>3. ASSUME q > k PROVE FALSE
    <2>1. q - k >= 1  BY <1>1, <1>3
    <2>2. d * (q - k) >= d  BY <1>1, <2>1
    <2> QED BY <1>1, <1>2, <2>2
  <1> QED BY <1>1, <1>3

\* What is at least k * d is at least k after division by d.
LEMMA DivLower ==
  ASSUME NEW a \in Int, NEW d \in Nat \ {0}, NEW k \in Int, a >= k * d
  PROVE  a \div d >= k
  <1> DEFINE q == a \div d
             r == a % d
  <1>1. /\ q \in Int /\ r \in Int /\ r < d /\ a = d * q + r  OBVIOUS
  <1>3. ASSUME q < k PROVE FALSE
    <2>1. k - q >= 1  BY <1>1, <1>3
    <2>2. d * (k - q) >= d  BY <1>1, <2>1
    <2> QED BY <1>1, <2>2
  <1> QED BY <1>1, <1>3

(* The smoothed delta and what feeds it.                                   *)

\* A weighted average stays between any bounds of the two values.
LEMMA SmoothBetween ==
  ASSUME NEW raw \in Int, NEW prior \in Int, NEW lo \in Int, NEW hi \in Int,
         lo <= raw, raw <= hi, lo <= prior, prior <= hi
  PROVE  Smooth(raw, prior) \in Int /\ lo <= Smooth(raw, prior) /\ Smooth(raw, prior) <= hi
  <1> DEFINE n == ALPHA_NUM
             m == ALPHA_DEN - ALPHA_NUM
             x == n * raw + m * prior
  <1>1. n \in Nat /\ m \in Nat /\ ALPHA_DEN \in Nat \ {0} /\ n + m = ALPHA_DEN
    BY AlphaAssumption
  <1> HIDE DEF n, m
  <1>2. n * raw \in Int /\ m * prior \in Int /\ x \in Int  BY <1>1
  <1>3. n * raw <= n * hi /\ n * lo <= n * raw  BY <1>1
  <1>4. m * prior <= m * hi /\ m * lo <= m * prior  BY <1>1
  <1>5. n * hi + m * hi = hi * ALPHA_DEN /\ n * lo + m * lo = lo * ALPHA_DEN
    <2>1. n * hi + m * hi = (n + m) * hi  BY <1>1
    <2>2. n * lo + m * lo = (n + m) * lo  BY <1>1
    <2> QED BY <1>1, <2>1, <2>2
  <1>6. x <= hi * ALPHA_DEN /\ x >= lo * ALPHA_DEN
    <2> DEFINE a == n * raw
               b == m * prior
    <2>1. n * hi \in Int /\ m * hi \in Int /\ n * lo \in Int /\ m * lo \in Int  BY <1>1
    <2> QED BY <1>2, <1>3, <1>4, <1>5, <2>1
  <1>7. x \div ALPHA_DEN \in Int  BY <1>1, <1>2, DivInt
  <1>8. x \div ALPHA_DEN <= hi  BY <1>1, <1>2, <1>6, DivUpper
  <1>9. x \div ALPHA_DEN >= lo  BY <1>1, <1>2, <1>6, DivLower
  <1> QED BY <1>7, <1>8, <1>9 DEF Smooth, x, n, m

\* The raw delta of an outcome update accepts lies in Deltas.
LEMMA RawDeltaInDeltas ==
  ASSUME NEW o, o.category \in Categories, o.severity \in 0 .. SCALE
  PROVE  RawDelta(o) \in Deltas
  BY ScaleAssumption DEF RawDelta, PartialRawDelta, Deltas, Categories

\* The gate keeps a delta in Deltas; it only ever moves it towards zero.
LEMMA GatedClampInDeltas ==
  ASSUME NEW d \in Deltas, NEW class \in {"both", "down_only", "neither"}
  PROVE  /\ GatedClamp(d, class) \in Deltas
         /\ class = "down_only" => GatedClamp(d, class) <= 0
         /\ class = "neither" => GatedClamp(d, class) = 0
  BY ScaleAssumption DEF GatedClamp, Deltas

\* The effective class is one of three, and never BOTH inside the window.
LEMMA EffectiveClassType ==
  ASSUME NEW kind, NEW window \in BOOLEAN
  PROVE  /\ EffectiveClass(kind, window) \in {"both", "down_only", "neither"}
         /\ window => EffectiveClass(kind, window) # "both"
         /\ kind = "constraint_conflict" => EffectiveClass(kind, window) = "down_only"
         /\ kind \in {"decomposition_conflict", "resolution_instability"}
               => EffectiveClass(kind, window) = "neither"
  BY DEF EffectiveClass, BaseClass

-----------------------------------------------------------------------------
(* One update.                                                             *)

\* The most one update adds to the value, which only certain success does.
TopDelta == (35 * SCALE) \div 100

\* An outcome that carries evidence keeps the record well typed, and moves the
\* value only where the effective class lets it.
LEMMA ApplyEvidenceFacts ==
  ASSUME NEW s \in Signals, NEW o, o.category \in Categories, o.severity \in 0 .. SCALE
  PROVE  /\ ApplyEvidence(s, o) \in Signals
         /\ ApplyEvidence(s, o).cycle_id = s.cycle_id + 1
         /\ ApplyEvidence(s, o).last_outcome_was_failure <=> o.category = "failure"
         /\ EffectiveClass(o.kind, s.last_outcome_was_failure) = "down_only"
               => ApplyEvidence(s, o).value <= s.value
         /\ EffectiveClass(o.kind, s.last_outcome_was_failure) = "neither"
               => ApplyEvidence(s, o).value = s.value
         /\ ApplyEvidence(s, o).value <= s.value + TopDelta
  <1> DEFINE class == EffectiveClass(o.kind, s.last_outcome_was_failure)
             raw == GatedClamp(RawDelta(o), class)
             prior == GatedClamp(s.last_smoothed_delta, class)
             delta == Smooth(raw, prior)
             top == TopDelta
  <1>1. /\ s.value \in 0 .. SCALE /\ s.last_smoothed_delta \in Deltas
        /\ s.last_outcome_was_failure \in BOOLEAN /\ s.cycle_id \in Nat
    BY DEF Signals
  <1>2. class \in {"both", "down_only", "neither"}  BY <1>1, EffectiveClassType
  <1>3. /\ raw \in Deltas /\ prior \in Deltas
        /\ class = "down_only" => raw <= 0 /\ prior <= 0
        /\ class = "neither" => raw = 0 /\ prior = 0
    BY <1>1, <1>2, RawDeltaInDeltas, GatedClampInDeltas
  <1>4. top \in Int /\ Deltas = -SCALE .. top /\ SCALE \in Nat \ {0} /\ top >= 0
    BY ScaleAssumption DEF Deltas, TopDelta
  <1>5. ApplyEvidence(s, o) = [value |-> Clamp01(s.value + delta),
                               last_smoothed_delta |-> delta,
                               last_outcome_was_failure |-> (o.category = "failure"),
                               cycle_id |-> s.cycle_id + 1]
    BY DEF ApplyEvidence
  <1> HIDE DEF raw, prior, delta, class, top
  <1>6. delta \in Int /\ -SCALE <= delta /\ delta <= top
    <2>1. /\ raw \in Int /\ -SCALE <= raw /\ raw <= top
          /\ prior \in Int /\ -SCALE <= prior /\ prior <= top
          /\ -SCALE \in Int
      BY <1>3, <1>4
    <2> QED BY <1>4, <2>1, SmoothBetween DEF delta
  <1>7. class = "down_only" => delta <= 0
    <2> SUFFICES ASSUME class = "down_only" PROVE delta <= 0  OBVIOUS
    <2>1. /\ raw \in Int /\ -SCALE <= raw /\ raw <= 0
          /\ prior \in Int /\ -SCALE <= prior /\ prior <= 0
          /\ -SCALE \in Int
      BY <1>3, <1>4
    <2> QED BY <2>1, SmoothBetween DEF delta
  <1>8. class = "neither" => delta = 0
    <2> SUFFICES ASSUME class = "neither" PROVE delta = 0  OBVIOUS
    <2>1. 0 <= delta /\ delta <= 0 /\ delta \in Int  BY <1>3, SmoothBetween DEF delta
    <2> QED BY <2>1
  <1>9. /\ Clamp01(s.value + delta) \in 0 .. SCALE
        /\ delta <= 0 => Clamp01(s.value + delta) <= s.value
        /\ delta = 0 => Clamp01(s.value + delta) = s.value
        /\ Clamp01(s.value + delta) <= s.value + top
    BY <1>1, <1>4, <1>6 DEF Clamp01
  <1>10. ApplyEvidence(s, o) \in Signals
    BY <1>1, <1>4, <1>5, <1>6, <1>9 DEF Signals
  <1>11. /\ ApplyEvidence(s, o).value = Clamp01(s.value + delta)
         /\ ApplyEvidence(s, o).cycle_id = s.cycle_id + 1
         /\ ApplyEvidence(s, o).last_outcome_was_failure = (o.category = "failure")
    BY <1>5
  <1> QED BY <1>7, <1>8, <1>9, <1>10, <1>11 DEF class, top

\* The same for every outcome update accepts: refused cycles never move the value.
LEMMA UpdateFacts ==
  ASSUME NEW s \in Signals, NEW o, o.category \in Categories, ValidOutcome(o)
  PROVE  /\ UpdateSignal(s, o) \in Signals
         /\ UpdateSignal(s, o).cycle_id = s.cycle_id + 1
         /\ UpdateSignal(s, o).last_outcome_was_failure <=> o.category = "failure"
         /\ o.category \in NoUpdateCategories => UpdateSignal(s, o).value = s.value
         /\ s.last_outcome_was_failure /\ o.category \in NoUpdateCategories
               => UpdateSignal(s, o).last_smoothed_delta = 0
         /\ s.last_outcome_was_failure => UpdateSignal(s, o).value <= s.value
         /\ o.kind = "constraint_conflict" => UpdateSignal(s, o).value <= s.value
         /\ o.kind \in {"decomposition_conflict", "resolution_instability"}
               => UpdateSignal(s, o).value = s.value
         /\ UpdateSignal(s, o).value <= s.value + TopDelta
  <1>1. /\ o.severity \in 0 .. SCALE /\ s.last_outcome_was_failure \in BOOLEAN
        /\ s.value \in 0 .. SCALE /\ SCALE \in Nat
    BY ScaleAssumption DEF ValidOutcome, Signals
  <1>2. CASE o.category \in NoUpdateCategories
    <2>1. UpdateSignal(s, o) = ConsumeWindow(s)  BY <1>2 DEF UpdateSignal
    <2>2. 0 \in Deltas  BY ScaleAssumption DEF Deltas
    <2>3. /\ ConsumeWindow(s) \in Signals
          /\ ConsumeWindow(s).cycle_id = s.cycle_id + 1
          /\ ConsumeWindow(s).value = s.value
          /\ ConsumeWindow(s).last_outcome_was_failure = FALSE
          /\ s.last_outcome_was_failure => ConsumeWindow(s).last_smoothed_delta = 0
      BY <2>2 DEF ConsumeWindow, Signals
    <2>4. o.category # "failure"  BY <1>2 DEF NoUpdateCategories
    <2>5. s.value <= s.value + TopDelta  BY <1>1 DEF TopDelta
    <2> QED BY <1>1, <1>2, <2>1, <2>3, <2>4, <2>5
  <1>3. CASE o.category \notin NoUpdateCategories
    <2> DEFINE class == EffectiveClass(o.kind, s.last_outcome_was_failure)
    <2>1. UpdateSignal(s, o) = ApplyEvidence(s, o)  BY <1>3 DEF UpdateSignal
    <2>2. /\ ApplyEvidence(s, o) \in Signals
          /\ ApplyEvidence(s, o).cycle_id = s.cycle_id + 1
          /\ ApplyEvidence(s, o).last_outcome_was_failure <=> o.category = "failure"
          /\ class = "down_only" => ApplyEvidence(s, o).value <= s.value
          /\ class = "neither" => ApplyEvidence(s, o).value = s.value
          /\ ApplyEvidence(s, o).value <= s.value + TopDelta
      BY <1>1, ApplyEvidenceFacts
    <2>3. /\ class \in {"both", "down_only", "neither"}
          /\ s.last_outcome_was_failure => class # "both"
          /\ o.kind = "constraint_conflict" => class = "down_only"
          /\ o.kind \in {"decomposition_conflict", "resolution_instability"}
                => class = "neither"
      BY <1>1, EffectiveClassType
    <2>4. ApplyEvidence(s, o).value = s.value => ApplyEvidence(s, o).value <= s.value
      BY <1>1
    <2> HIDE DEF class
    <2> QED BY <1>3, <2>1, <2>2, <2>3, <2>4
  <1> QED BY <1>2, <1>3

-----------------------------------------------------------------------------
(* How high the value can be after the first two updates.                  *)

\* With alpha at most 0.3 and the prior at most m tenths of the top, the smoothed
\* delta is at most 0.3 + 0.07 m of it.
LEMMA SmoothCap ==
  ASSUME 10 * ALPHA_NUM <= 3 * ALPHA_DEN,
         NEW R \in Nat, NEW m \in 0 .. 10, NEW raw \in Int, NEW prior \in Int,
         raw <= R, 10 * prior <= m * R
  PROVE  100 * Smooth(raw, prior) <= (30 + 7 * m) * R
  <1> DEFINE N == ALPHA_NUM
             D == ALPHA_DEN
             x == N * raw + (D - N) * prior
             d == Smooth(raw, prior)
  <1>1. N \in Nat /\ D \in Nat \ {0} /\ D - N \in Nat  BY AlphaAssumption
  <1>2. d = x \div D  BY DEF Smooth
  <1> HIDE DEF N, D, d
  <1>3. x \in Int /\ d \in Int /\ D * d <= x
    <2>1. x \in Int  BY <1>1
    <2> HIDE DEF x
    <2> QED BY <1>1, <1>2, <2>1
  <1>4. 100 * x <= D * ((30 + 7 * m) * R)
    <2>1. N * raw <= N * R  BY <1>1
    <2>2. (D - N) * (10 * prior) <= (D - N) * (m * R)
      <3>1. 10 * prior \in Int /\ m * R \in Int  OBVIOUS
      <3> QED BY <1>1, <3>1
    <2>3. 10 * x <= N * (10 * R) + (D - N) * (m * R)
      BY <1>1, <2>1, <2>2
    <2>4. N * (10 * R) + (D - N) * (m * R) = D * (m * R) + N * ((10 - m) * R)
      BY <1>1
    <2>5. (10 * N) * ((10 - m) * R) <= (3 * D) * ((10 - m) * R)
      <3> DEFINE y == (10 - m) * R
      <3>1. y \in Nat  OBVIOUS
      <3>2. 10 * N <= 3 * D  BY DEF N, D
      <3> HIDE DEF y
      <3>3. 10 * N \in Int /\ 3 * D \in Int  BY <1>1
      <3> QED BY <3>1, <3>2, <3>3
    <2>6. 10 * (D * (m * R)) + (3 * D) * ((10 - m) * R) = D * ((30 + 7 * m) * R)
      BY <1>1
    <2> DEFINE a == D * (m * R)  b == N * ((10 - m) * R)  c == (3 * D) * ((10 - m) * R)
    <2>7. a \in Int /\ b \in Int /\ c \in Int /\ 10 * b <= c  BY <1>1, <2>5
    <2>8. 10 * x <= a + b  BY <2>3, <2>4
    <2> HIDE DEF a, b, c, x
    <2>9. 100 * x <= 10 * a + c  BY <1>3, <2>7, <2>8
    <2> QED BY <2>6, <2>9 DEF a, c
  <1>5. D * (100 * d) <= D * ((30 + 7 * m) * R)  BY <1>1, <1>3, <1>4
  <1> DEFINE u == 100 * d  v == (30 + 7 * m) * R
  <1>6. u \in Int /\ v \in Int  BY <1>3
  <1> HIDE DEF u, v
  <1>7. u <= v
    <2>1. D * u <= D * v  BY <1>5 DEF u, v
    <2> SUFFICES ASSUME u >= v + 1 PROVE FALSE  BY <1>6
    <2>2. D * u >= D * (v + 1) /\ D * (v + 1) = D * v + D  BY <1>1, <1>6
    <2>3. D * u \in Int /\ D * v \in Int  BY <1>1, <1>6
    <2> QED BY <1>1, <2>1, <2>2, <2>3
  <1> QED BY <1>7 DEF u, v, d

\* What the first two updates can have made of a fresh signal.
Early(s) ==
    /\ s.cycle_id = 0 => 2 * s.value <= SCALE /\ s.last_smoothed_delta <= 0
    /\ s.cycle_id = 1 => /\ 100 * s.value <= 50 * SCALE + 30 * TopDelta
                         /\ 10 * s.last_smoothed_delta <= 3 * TopDelta
    /\ s.cycle_id = 2 => 100 * s.value <= 50 * SCALE + 81 * TopDelta

\* No update leads past those bounds.
LEMMA UpdateEarly ==
  ASSUME 10 * ALPHA_NUM <= 3 * ALPHA_DEN,
         NEW s \in Signals, NEW o, o.category \in Categories, ValidOutcome(o), Early(s)
  PROVE  Early(UpdateSignal(s, o))
  <1>1. /\ TopDelta \in Nat /\ SCALE \in Nat \ {0} /\ Deltas = -SCALE .. TopDelta
    BY ScaleAssumption DEF TopDelta, Deltas
  <1>2. /\ s.value \in 0 .. SCALE /\ s.last_smoothed_delta \in Deltas
        /\ s.last_outcome_was_failure \in BOOLEAN /\ s.cycle_id \in Nat
        /\ o.severity \in 0 .. SCALE
    BY DEF Signals, ValidOutcome
  <1> DEFINE v == s.value  p == s.last_smoothed_delta  n == s.cycle_id  R == TopDelta
  <1>5. /\ n = 0 => 2 * v <= SCALE /\ p <= 0
        /\ n = 1 => 100 * v <= 50 * SCALE + 30 * R /\ 10 * p <= 3 * R
    BY DEF Early
  <1>6. /\ v \in 0 .. SCALE /\ p \in Deltas /\ p \in Int /\ n \in Nat /\ R \in Nat
    BY <1>1, <1>2
  <1> HIDE DEF v, p, n, R
  <1>3. CASE o.category \in NoUpdateCategories
    <2>1. /\ UpdateSignal(s, o).value = v /\ UpdateSignal(s, o).cycle_id = n + 1
          /\ UpdateSignal(s, o).last_smoothed_delta \in {0, p}
      BY <1>2, <1>3 DEF UpdateSignal, ConsumeWindow, v, n, p
    <2>2. PICK d \in {0, p} : d = UpdateSignal(s, o).last_smoothed_delta  BY <2>1
    <2>3. /\ n + 1 = 1 => 100 * v <= 50 * SCALE + 30 * R /\ 10 * d <= 3 * R
          /\ n + 1 = 2 => 100 * v <= 50 * SCALE + 81 * R
          /\ n + 1 # 0
      BY <1>1, <1>5, <1>6
    <2> QED BY <2>1, <2>2, <2>3 DEF Early, R
  <1>4. CASE o.category \notin NoUpdateCategories
    <2> DEFINE class == EffectiveClass(o.kind, s.last_outcome_was_failure)
               raw == GatedClamp(RawDelta(o), class)
               prior == GatedClamp(p, class)
               d == Smooth(raw, prior)
    <2>1. /\ UpdateSignal(s, o).value = Clamp01(v + d)
          /\ UpdateSignal(s, o).cycle_id = n + 1
          /\ UpdateSignal(s, o).last_smoothed_delta = d
      BY <1>4 DEF UpdateSignal, ApplyEvidence, v, n, p
    <2>2. class \in {"both", "down_only", "neither"}  BY <1>2, EffectiveClassType
    <2>3. /\ raw \in Deltas /\ prior \in Deltas
      BY <1>2, <1>6, <2>2, RawDeltaInDeltas, GatedClampInDeltas
    <2>4. prior <= p \/ prior <= 0  BY <1>6, <2>2 DEF GatedClamp
    <2> HIDE DEF class, raw, prior
    <2>5. /\ raw \in Int /\ raw <= R /\ prior \in Int /\ prior <= R
          /\ -SCALE <= raw /\ -SCALE <= prior /\ -SCALE \in Int /\ R \in Int
      BY <1>1, <1>6, <2>3 DEF R
    <2>6. d \in Int  BY <1>6, <2>5, SmoothBetween, Zenon
    <2>7. n = 0 => 100 * d <= 30 * R
      <3> SUFFICES ASSUME n = 0 PROVE 100 * d <= 30 * R  OBVIOUS
      <3>1. 10 * prior <= 0 * R /\ 0 \in 0 .. 10  BY <1>5, <1>6, <2>4, <2>5
      <3>2. 100 * d <= (30 + 7 * 0) * R  BY <1>6, <2>5, <3>1, SmoothCap, Zenon
      <3> QED BY <1>6, <2>6, <3>2
    <2>8. n = 1 => 100 * d <= 51 * R
      <3> SUFFICES ASSUME n = 1 PROVE 100 * d <= 51 * R  OBVIOUS
      <3>1. 10 * prior <= 3 * R /\ 3 \in 0 .. 10  BY <1>5, <1>6, <2>4, <2>5
      <3>2. 100 * d <= (30 + 7 * 3) * R  BY <1>6, <2>5, <3>1, SmoothCap, Zenon
      <3> QED BY <1>6, <2>6, <3>2
    <2> HIDE DEF d
    <2>9. Clamp01(v + d) \in Int /\ (Clamp01(v + d) <= v + d \/ Clamp01(v + d) = 0)
      BY <1>1, <1>6, <2>6 DEF Clamp01
    <2> DEFINE w == Clamp01(v + d)
    <2>10. n = 0 => 100 * w <= 50 * SCALE + 30 * R /\ 10 * d <= 3 * R
      <3> HIDE DEF w
      <3> QED BY <1>1, <1>5, <1>6, <2>6, <2>7, <2>9 DEF w
    <2>11. n = 1 => 100 * w <= 50 * SCALE + 81 * R
      <3> HIDE DEF w
      <3> QED BY <1>1, <1>5, <1>6, <2>6, <2>8, <2>9 DEF w
    <2>12. n + 1 # 0 /\ (n + 1 = 1 => n = 0) /\ (n + 1 = 2 => n = 1)  BY <1>6
    <2> QED BY <2>1, <2>10, <2>11, <2>12 DEF Early, R
  <1> QED BY <1>3, <1>4

\* Within those bounds the value is below 0.90.
LEMMA EarlyIsLow ==
  ASSUME NEW s \in Signals, Early(s), 10 * s.value >= 9 * SCALE
  PROVE  s.cycle_id >= 3
  <1>1. /\ TopDelta \in Nat /\ SCALE \in Nat \ {0} /\ 100 * TopDelta <= 35 * SCALE
    BY ScaleAssumption DEF TopDelta
  <1>2. s.value \in Int /\ s.cycle_id \in Nat  BY DEF Signals
  <1> QED BY <1>1, <1>2 DEF Early
=============================================================================
