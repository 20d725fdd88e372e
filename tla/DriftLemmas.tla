----------------------------- MODULE DriftLemmas -----------------------------
(***************************************************************************)
(* What a recorded cycle does to the drift monitor's record and what the   *)
(* record may then recommend, for every window, threshold and error; and   *)
(* how far from its window's mean an error can be.                         *)
(***************************************************************************)
EXTENDS Drift, FiniteSets, SequenceTheorems, FiniteSetTheorems, WellFoundedInduction, TLAPS

\* A streak is only ever kept beside the outlier that began or continued it.
StreakHasOutlier(d) == d.drift_streak > 0 => d.last_error_z = "above"

\* The last samples are samples, and no more of them than the window holds.
LEMMA LastSamplesType ==
  ASSUME NEW S, NEW s \in Seq(S)
  PROVE  LastSamples(s) \in Seq(S) /\ Len(LastSamples(s)) <= WARMUP
  <1>1. WARMUP \in Nat \ {0} /\ Len(s) \in Nat  BY DriftAssumption
  <1>2. CASE Len(s) > WARMUP
    <2> DEFINE m == Len(s) - WARMUP + 1
    <2>1. m \in Int /\ m >= 1 /\ \A i \in m .. Len(s) : s[i] \in S  BY <1>1, <1>2
    <2>2. SubSeq(s, m, Len(s)) \in Seq(S)  BY <1>1, <2>1, SubSeqProperties
    <2>3. Len(SubSeq(s, m, Len(s))) = IF m <= Len(s) THEN Len(s) - m + 1 ELSE 0
      BY <1>1, <2>1, SubSeqProperties
    <2>4. Len(SubSeq(s, m, Len(s))) = WARMUP  BY <1>1, <1>2, <2>3
    <2>5. LastSamples(s) = SubSeq(s, m, Len(s))  BY <1>2 DEF LastSamples
    <2> HIDE DEF m
    <2> QED BY <1>1, <2>2, <2>4, <2>5
  <1>3. CASE ~(Len(s) > WARMUP)  BY <1>1, <1>3 DEF LastSamples
  <1> QED BY <1>2, <1>3

\* record_error sets the window and the z-score of its newest error, nothing else.
LEMMA RecordErrorFacts ==
  ASSUME NEW errors, NEW d \in DriftRecords(errors), NEW error \in errors,
         NEW r \in RecordError(d, error)
  PROVE  /\ r \in DriftRecords(errors) /\ Len(r.recent) <= WARMUP
         /\ r.drift_events = d.drift_events /\ r.drift_streak = d.drift_streak
         /\ r.numeric = d.numeric /\ r.successes = d.successes
         /\ r.last_error_z \in ZClasses(r.recent)
  <1> DEFINE recent == LastSamples(Append(d.recent, error))
  <1>1. d.recent \in Seq(errors)  BY DEF DriftRecords
  <1>2. Append(d.recent, error) \in Seq(errors)  BY <1>1
  <1>3. recent \in Seq(errors) /\ Len(recent) <= WARMUP  BY <1>2, LastSamplesType
  <1>4. ZClasses(recent) \subseteq {"below", "at", "above"}  BY DEF ZClasses
  <1>5. PICK z \in ZClasses(recent) :
           r = [d EXCEPT !.recent = recent, !.last_error_z = z]
    BY DEF RecordError
  <1> HIDE DEF recent
  <1>6. z \in {"below", "at", "above"}  BY <1>4
  <1> QED BY <1>3, <1>5, <1>6 DEF DriftRecords

\* A recorded cycle keeps the record typed; it registers an event, and prolongs
\* the streak, exactly when its error is an outlier, and else clears the streak.
LEMMA RecordCycleFacts ==
  ASSUME NEW errors, NEW d \in DriftRecords(errors), NEW error \in errors,
         NEW numeric \in BOOLEAN, NEW success \in BOOLEAN,
         NEW c \in RecordCycle(d, error, numeric, success)
  PROVE  /\ c \in DriftRecords(errors) /\ Len(c.recent) <= WARMUP
         /\ StreakHasOutlier(c)
         /\ c.last_error_z = "above" => /\ c.drift_events = d.drift_events + 1
                                        /\ c.drift_streak = d.drift_streak + 1
         /\ c.last_error_z # "above" => /\ c.drift_events = d.drift_events
                                        /\ c.drift_streak = 0
         /\ c.numeric = d.numeric + (IF numeric THEN 1 ELSE 0)
         /\ c.successes = d.successes + (IF numeric /\ success THEN 1 ELSE 0)
         /\ c.last_error_z \in ZClasses(c.recent)
  <1>1. PICK r \in RecordError(d, error) :
           c = LET f == RecordFeasibility(r, numeric, success)
               IN  IF r.last_error_z = "above" THEN RegisterDrift(f) ELSE ClearStreak(f)
    BY DEF RecordCycle
  <1>2. /\ r \in DriftRecords(errors) /\ Len(r.recent) <= WARMUP
        /\ r.drift_events = d.drift_events /\ r.drift_streak = d.drift_streak
        /\ r.numeric = d.numeric /\ r.successes = d.successes
        /\ r.last_error_z \in ZClasses(r.recent)
    BY RecordErrorFacts
  <1> DEFINE f == RecordFeasibility(r, numeric, success)
             n == r.numeric + (IF numeric THEN 1 ELSE 0)
             k == r.successes + (IF numeric /\ success THEN 1 ELSE 0)
  <1>3. n \in Nat /\ k \in Nat  BY <1>2 DEF DriftRecords
  <1>4. f = [r EXCEPT !.numeric = n, !.successes = k]
    BY DEF RecordFeasibility
  <1> HIDE DEF n, k
  <1>5. /\ f \in DriftRecords(errors)
        /\ f.recent = r.recent /\ f.last_error_z = r.last_error_z
        /\ f.drift_events = r.drift_events /\ f.drift_streak = r.drift_streak
        /\ f.numeric = n /\ f.successes = k
    BY <1>2, <1>3, <1>4 DEF DriftRecords
  <1>6. c = IF f.last_error_z = "above" THEN RegisterDrift(f) ELSE ClearStreak(f)
    BY <1>1, <1>5
  <1> HIDE DEF f
  <1>7. CASE f.last_error_z = "above"
    <2>1. c = RegisterDrift(f)  BY <1>6, <1>7
    <2>2. f.drift_events + 1 \in Nat /\ f.drift_streak + 1 \in Nat
      BY <1>5 DEF DriftRecords
    <2>3. c = [f EXCEPT !.drift_events = f.drift_events + 1,
                        !.drift_streak = f.drift_streak + 1]
      BY <2>1 DEF RegisterDrift
    <2>4. /\ c \in DriftRecords(errors) /\ c.recent = f.recent
          /\ c.last_error_z = f.last_error_z
          /\ c.drift_events = f.drift_events + 1 /\ c.drift_streak = f.drift_streak + 1
          /\ c.numeric = f.numeric /\ c.successes = f.successes
      BY <1>5, <2>2, <2>3 DEF DriftRecords
    <2> QED BY <1>2, <1>5, <1>7, <2>4 DEF StreakHasOutlier, n, k
  <1>8. CASE f.last_error_z # "above"
    <2>1. c = ClearStreak(f)  BY <1>6, <1>8
    <2>2. /\ c \in DriftRecords(errors) /\ c.recent = f.recent
          /\ c.last_error_z = f.last_error_z
          /\ c.drift_events = f.drift_events /\ c.drift_streak = 0
          /\ c.numeric = f.numeric /\ c.successes = f.successes
      BY <1>5, <2>1 DEF ClearStreak, DriftRecords
    <2> QED BY <1>2, <1>5, <1>8, <2>2 DEF StreakHasOutlier, n, k
  <1> QED BY <1>7, <1>8

\* From such a record only NORMAL or HALT is ever recommended, if no rung of the
\* ladder is below a streak of one.
LEMMA RecommendsNormalOrHalt ==
  ASSUME LadderStartsAtOne, NEW d, d.drift_streak \in Nat, StreakHasOutlier(d), NEW m
  PROVE  GetPolicyMode(d, m) \in {"NORMAL", "HALT"}
  BY DriftAssumption DEF LadderStartsAtOne, GetPolicyMode, StreakHasOutlier

\* Whatever the thresholds, the entry check never lowers the mode or leaves HALT,
\* and lets a step through only on evidence that is neither severe nor an outlier.
LEMMA EscalateFacts ==
  ASSUME NEW d, NEW m \in PolicyModes
  PROVE  /\ Escalate(d, m) \in PolicyModes
         /\ PolicyOrder[Escalate(d, m)] >= PolicyOrder[m]
         /\ m = "HALT" => Escalate(d, m) = "HALT"
         /\ Escalate(d, m) # "HALT" => ~Severe(d) /\ d.last_error_z = "below"
  <1>1. GetPolicyMode(d, m) \in PolicyModes  BY DEF GetPolicyMode, PolicyModes
  <1>2. /\ PolicyOrder["HALT"] = 3
        /\ \A x \in PolicyModes : /\ PolicyOrder[x] \in 0 .. 3
                                  /\ x # "HALT" => PolicyOrder[x] < 3
    BY DEF PolicyOrder, PolicyModes
  <1>3. Severe(d) \/ d.last_error_z # "below" \/ m = "HALT" => GetPolicyMode(d, m) = "HALT"
    BY DEF GetPolicyMode
  <1>4. /\ PolicyOrder[GetPolicyMode(d, m)] > PolicyOrder[m] => Escalate(d, m) = GetPolicyMode(d, m)
        /\ ~(PolicyOrder[GetPolicyMode(d, m)] > PolicyOrder[m]) => Escalate(d, m) = m
    BY DEF Escalate
  <1> QED BY <1>1, <1>2, <1>3, <1>4

\* With a ladder that starts at one it keeps the mode or sets HALT.
LEMMA EscalatesToHalt ==
  ASSUME LadderStartsAtOne, NEW d, d.drift_streak \in Nat, StreakHasOutlier(d),
         NEW m \in PolicyModes
  PROVE  Escalate(d, m) \in {m, "HALT"}
  <1>1. GetPolicyMode(d, m) \in {"NORMAL", "HALT"}  BY RecommendsNormalOrHalt
  <1>2. PolicyOrder["NORMAL"] = 0 /\ PolicyOrder[m] \in 0 .. 3
    BY DEF PolicyOrder, PolicyModes
  <1> QED BY <1>1, <1>2 DEF Escalate

-----------------------------------------------------------------------------
(* Sums over a window.  The fold of the community modules takes the indices in an   *)
(* unknown order; induction is by the least counterexample, a set of naturals.     *)

\* A nonempty set of naturals has a least element.
LEMMA LeastNat ==
  ASSUME NEW T, T \subseteq Nat, T # {}
  PROVE  \E x \in T : \A y \in T : x <= y
  <1>1. IsWellFoundedOn(OpToRel(<, Nat), Nat)  BY NatLessThanWellFounded
  <1> DEFINE R == OpToRel(<, Nat)
  <1> HIDE DEF R
  <1>2. PICK x \in T : \A y \in T : ~(<<y, x>> \in R)
    BY <1>1, WFMin DEF R
  <1>3. ASSUME NEW y \in T PROVE x <= y
    <2>1. <<y, x>> \notin R  BY <1>2
    <2>2. x \in Nat /\ y \in Nat  OBVIOUS
    <2>3. ~(y < x)
      <3> SUFFICES ASSUME y < x PROVE <<y, x>> \in R BY <2>1
      <3> QED BY <2>2, Zenon DEF R, OpToRel
    <2> QED BY <2>2, <2>3
  <1> QED BY <1>3

ChosenOf(t) == CHOOSE x \in t : TRUE

SumsOver(fun, S, g) ==
    g = [t \in SUBSET S |-> IF t = {} THEN 0 ELSE fun[ChosenOf(t)] + g[t \ {ChosenOf(t)}]]

LEMMA SumIs ==
  ASSUME NEW fun, NEW S, \E g : SumsOver(fun, S, g)
  PROVE  \E g : SumsOver(fun, S, g) /\ SumFunctionOnSet(fun, S) = g[S]
  <1> DEFINE it == CHOOSE g : SumsOver(fun, S, g)
  <1>1. SumsOver(fun, S, it) BY DEF SumsOver
  <1>2. SumFunctionOnSet(fun, S) = it[S]
    BY DEF SumFunctionOnSet, FoldFunctionOnSet, MapThenFoldSet, SumsOver, ChosenOf
  <1> QED BY <1>1, <1>2

\* Removing the chosen element leaves one element fewer.
LEMMA Chosen ==
  ASSUME NEW t, IsFiniteSet(t), t # {}
  PROVE  /\ ChosenOf(t) \in t
         /\ IsFiniteSet(t \ {ChosenOf(t)})
         /\ Cardinality(t) \in Nat
         /\ Cardinality(t \ {ChosenOf(t)}) = Cardinality(t) - 1
  <1>1. ChosenOf(t) \in t  BY DEF ChosenOf
  <1>2. Cardinality(t) \in Nat  BY FS_CardinalityType
  <1> QED BY <1>1, <1>2, FS_RemoveElement

SumsTo(fun, S, g, k) ==
    /\ g \in [SUBSET S -> Int]
    /\ \A t \in SUBSET S : Cardinality(t) <= k =>
          g[t] = IF t = {} THEN 0 ELSE fun[ChosenOf(t)] + g[t \ {ChosenOf(t)}]

LEMMA SumsExist ==
  ASSUME NEW S, IsFiniteSet(S), NEW fun \in [S -> Int]
  PROVE  \E g \in [SUBSET S -> Int] : SumsOver(fun, S, g)
  <1>0. \A t \in SUBSET S : IsFiniteSet(t) /\ Cardinality(t) \in Nat
                             /\ Cardinality(t) <= Cardinality(S)
    BY FS_Subset, FS_CardinalityType
  <1> DEFINE Bad == {k \in Nat : ~\E g : SumsTo(fun, S, g, k)}
  <1>1. Bad = {}
    <2> SUFFICES ASSUME Bad # {} PROVE FALSE  OBVIOUS
    <2>1. PICK k \in Bad : \A j \in Bad : k <= j  BY LeastNat
    <2>2. k # 0
      <3> SUFFICES ASSUME k = 0 PROVE FALSE  OBVIOUS
      <3> DEFINE g == [t \in SUBSET S |-> 0]
      <3>1. ASSUME NEW t \in SUBSET S, Cardinality(t) <= 0 PROVE t = {}
        BY <1>0, <3>1, FS_EmptySet
      <3>2. SumsTo(fun, S, g, 0)  BY <3>1 DEF SumsTo
      <3> QED BY <3>2
    <2>3. k - 1 \in Nat /\ k - 1 \notin Bad  BY <2>1, <2>2
    <2>4. PICK g : SumsTo(fun, S, g, k - 1)  BY <2>3
    <2> DEFINE h == [t \in SUBSET S |-> IF t = {} THEN 0 ELSE fun[ChosenOf(t)] + g[t \ {ChosenOf(t)}]]
    <2>5. \A t \in SUBSET S : t # {} => /\ ChosenOf(t) \in S /\ t \ {ChosenOf(t)} \in SUBSET S
                                        /\ Cardinality(t \ {ChosenOf(t)}) = Cardinality(t) - 1
      BY <1>0, Chosen
    <2>6. h \in [SUBSET S -> Int]
      <3> SUFFICES ASSUME NEW t \in SUBSET S, t # {}
                   PROVE  fun[ChosenOf(t)] + g[t \ {ChosenOf(t)}] \in Int
        OBVIOUS
      <3>1. fun[ChosenOf(t)] \in Int  BY <2>5
      <3>2. g[t \ {ChosenOf(t)}] \in Int  BY <2>4, <2>5 DEF SumsTo
      <3> QED BY <3>1, <3>2
    <2>7. \A t \in SUBSET S : Cardinality(t) <= k - 1 => h[t] = g[t]  BY <2>4 DEF SumsTo
    <2>8. SumsTo(fun, S, h, k)
      <3> SUFFICES ASSUME NEW t \in SUBSET S, Cardinality(t) <= k, t # {}
                   PROVE  h[t] = fun[ChosenOf(t)] + h[t \ {ChosenOf(t)}]
        BY <2>6 DEF SumsTo
      <3>1. Cardinality(t \ {ChosenOf(t)}) <= k - 1 /\ t \ {ChosenOf(t)} \in SUBSET S
        BY <1>0, <2>3, <2>5
      <3> QED BY <2>7, <3>1
    <2> QED BY <2>1, <2>8
  <1>2. Cardinality(S) \in Nat  BY <1>0
  <1>3. PICK g : SumsTo(fun, S, g, Cardinality(S))  BY <1>1, <1>2
  <1>4. g = [t \in SUBSET S |-> IF t = {} THEN 0 ELSE fun[ChosenOf(t)] + g[t \ {ChosenOf(t)}]]
    BY <1>0, <1>3 DEF SumsTo
  <1> QED BY <1>3, <1>4 DEF SumsOver, SumsTo

\* Such a function has sums as its values.
LEMMA SumsType ==
  ASSUME NEW S, IsFiniteSet(S), NEW fun \in [S -> Int], NEW g, SumsOver(fun, S, g)
  PROVE  g \in [SUBSET S -> Int] /\ g[{}] = 0
  <1>0. \A t \in SUBSET S : IsFiniteSet(t) /\ Cardinality(t) \in Nat
    BY FS_Subset, FS_CardinalityType
  <1> DEFINE Odd == {t \in SUBSET S : g[t] \notin Int}
             Sizes == {Cardinality(t) : t \in Odd}
  <1>1. Odd = {}
    <2> SUFFICES ASSUME Odd # {} PROVE FALSE  OBVIOUS
    <2>1. Sizes # {} /\ \A m \in Sizes : m \in Nat  BY <1>0
    <2>2. \E n \in Sizes : \A m \in Sizes : n <= m
      <3> HIDE DEF Sizes
      <3> QED BY <2>1, LeastNat
    <2>3. PICK t \in Odd : \A u \in Odd : Cardinality(t) <= Cardinality(u)  BY <2>2
    <2>4. t # {}  BY <2>3 DEF SumsOver
    <2>5. g[t] = fun[ChosenOf(t)] + g[t \ {ChosenOf(t)}]  BY <2>3, <2>4 DEF SumsOver
    <2>6. /\ ChosenOf(t) \in S /\ t \ {ChosenOf(t)} \in SUBSET S
          /\ Cardinality(t \ {ChosenOf(t)}) = Cardinality(t) - 1
      BY <1>0, <2>3, <2>4, Chosen
    <2>7. g[t \ {ChosenOf(t)}] \in Int  BY <1>0, <2>3, <2>6
    <2> QED BY <2>3, <2>5, <2>6, <2>7
  <1> QED BY <1>1 DEF SumsOver

\* Whichever element is taken out of a sum, the rest is the sum of the others.
LEMMA TakeOut ==
  ASSUME NEW S, IsFiniteSet(S), NEW fun \in [S -> Int],
         NEW g, SumsOver(fun, S, g)
  PROVE  \A t \in SUBSET S : \A y \in t : g[t] = fun[y] + g[t \ {y}]
  <1>t. g \in [SUBSET S -> Int]  BY SumsType
  <1>0. \A t \in SUBSET S : IsFiniteSet(t) /\ Cardinality(t) \in Nat
    BY FS_Subset, FS_CardinalityType
  <1>1. \A t \in SUBSET S : t # {} => g[t] = fun[ChosenOf(t)] + g[t \ {ChosenOf(t)}]
    BY DEF SumsOver
  <1> DEFINE Odd == {t \in SUBSET S : \E y \in t : g[t] # fun[y] + g[t \ {y}]}
             Sizes == {Cardinality(t) : t \in Odd}
  <1>2. Odd = {}
    <2> SUFFICES ASSUME Odd # {} PROVE FALSE  OBVIOUS
    <2>1. Sizes # {} /\ \A m \in Sizes : m \in Nat  BY <1>0
    <2>2. \E n \in Sizes : \A m \in Sizes : n <= m
      <3> HIDE DEF Sizes
      <3> QED BY <2>1, LeastNat
    <2>3. PICK t \in Odd : \A u \in Odd : Cardinality(t) <= Cardinality(u)  BY <2>2
    <2>4. PICK y \in t : g[t] # fun[y] + g[t \ {y}]  BY <2>3
    <2> DEFINE x == ChosenOf(t)
    <2>5. x \in t /\ x # y /\ g[t] = fun[x] + g[t \ {x}]
      BY <1>0, <1>1, <2>3, <2>4, Chosen
    <2>6. /\ t \ {x} \in SUBSET S /\ Cardinality(t \ {x}) = Cardinality(t) - 1
          /\ t \ {y} \in SUBSET S /\ Cardinality(t \ {y}) = Cardinality(t) - 1
      BY <1>0, <2>3, <2>5, FS_RemoveElement
    <2>7. t \ {x} \notin Odd /\ t \ {y} \notin Odd
      <3>1. Cardinality(t) \in Nat  BY <1>0, <2>3
      <3> HIDE DEF x, Odd
      <3> QED BY <2>3, <2>6, <3>1
    <2>a. \A a \in SUBSET S : a \notin Odd => \A b \in a : g[a] = fun[b] + g[a \ {b}]
      OBVIOUS
    <2>b. y \in t \ {x} /\ x \in t \ {y}  BY <2>4, <2>5
    <2> HIDE DEF x, Odd
    <2>8. g[t \ {x}] = fun[y] + g[(t \ {x}) \ {y}]  BY <2>6, <2>7, <2>a, <2>b
    <2>9. g[t \ {y}] = fun[x] + g[(t \ {y}) \ {x}]  BY <2>6, <2>7, <2>a, <2>b
    <2> USE DEF Odd
    <2>10. (t \ {x}) \ {y} = (t \ {y}) \ {x}  OBVIOUS
    <2>11. (t \ {x}) \ {y} \in SUBSET S /\ fun[x] \in Int /\ fun[y] \in Int
      BY <2>3, <2>4, <2>5
    <2>12. g[(t \ {x}) \ {y}] \in Int  BY <1>t, <2>11
    <2>13. g[t] = fun[x] + (fun[y] + g[(t \ {x}) \ {y}])  BY <2>5, <2>8
    <2>14. g[t \ {y}] = fun[x] + g[(t \ {x}) \ {y}]  BY <2>9, <2>10
    <2>15. g[t] # fun[y] + (fun[x] + g[(t \ {x}) \ {y}])  BY <2>4, <2>14
    <2> DEFINE z == g[(t \ {x}) \ {y}]  u == fun[x]  v == fun[y]
    <2>16. u + (v + z) # v + (u + z) /\ u \in Int /\ v \in Int /\ z \in Int
      BY <2>11, <2>12, <2>13, <2>15
    <2> HIDE DEF z, u, v
    <2> QED BY <2>16
  <1> QED BY <1>2

\* SumFunction of a sequence is where its partial sums end.
PartialSums(s, p) ==
    /\ p \in [0 .. Len(s) -> Int]
    /\ p[0] = 0
    /\ \A k \in 1 .. Len(s) : p[k] = p[k - 1] + s[k]

LEMMA SumFunctionFacts ==
  ASSUME NEW s \in Seq(Int)
  PROVE  \E p : PartialSums(s, p) /\ SumFunction(s) = p[Len(s)]
  <1> DEFINE D == 1 .. Len(s)
  <1>1. DOMAIN s = D /\ s \in [D -> Int] /\ IsFiniteSet(D) /\ Len(s) \in Nat
    BY FS_Interval
  <1>2. PICK g0 \in [SUBSET D -> Int] : SumsOver(s, D, g0)  BY <1>1, SumsExist
  <1>3. PICK g : SumsOver(s, D, g) /\ SumFunctionOnSet(s, D) = g[D]  BY <1>2, SumIs
  <1>4. /\ g \in [SUBSET D -> Int]
        /\ \A t \in SUBSET D : \A y \in t : g[t] = s[y] + g[t \ {y}]
        /\ g[{}] = 0
    <2> HIDE DEF D
    <2>1. g \in [SUBSET D -> Int] /\ g[{}] = 0  BY <1>1, <1>3, SumsType
    <2>2. SumsOver(s, D, g) /\ s \in [D -> Int] /\ IsFiniteSet(D)  BY <1>1, <1>3
    <2>3. \A t \in SUBSET D : \A y \in t : g[t] = s[y] + g[t \ {y}]
      <3> SUFFICES ASSUME NEW t \in SUBSET D, NEW y \in t
                   PROVE  g[t] = s[y] + g[t \ {y}]
        OBVIOUS
      <3>1. s[y] \in Int /\ g[t] \in Int /\ g[t \ {y}] \in Int  BY <2>1, <2>2
      <3> QED BY <2>2, <3>1, TakeOut, SMTT(40)
    <2> QED BY <2>1, <2>3
  <1> DEFINE p == [k \in 0 .. Len(s) |-> g[1 .. k]]
  <1>5. p \in [0 .. Len(s) -> Int]  BY <1>1, <1>4
  <1>6. p[0] = 0
    <2>1. 1 .. 0 = {}  OBVIOUS
    <2> QED BY <1>1, <1>4, <2>1
  <1>7. ASSUME NEW k \in 1 .. Len(s) PROVE p[k] = p[k - 1] + s[k]
    <2>1. /\ 1 .. k \in SUBSET D /\ k \in 1 .. k /\ (1 .. k) \ {k} = 1 .. (k - 1)
          /\ k \in 0 .. Len(s) /\ k - 1 \in 0 .. Len(s)
      BY <1>1
    <2>2. g[1 .. k] = s[k] + g[(1 .. k) \ {k}]  BY <1>4, <2>1
    <2>3. g[1 .. (k - 1)] \in Int /\ s[k] \in Int  BY <1>1, <1>4, <2>1
    <2>4. p[k] = g[1 .. k] /\ p[k - 1] = g[1 .. (k - 1)]  BY <2>1
    <2>5. g[1 .. k] = s[k] + g[1 .. (k - 1)]  BY <2>1, <2>2
    <2> HIDE DEF p
    <2> QED BY <2>3, <2>4, <2>5
  <1>8. SumFunction(s) = p[Len(s)]  BY <1>1, <1>3 DEF SumFunction
  <1> QED BY <1>5, <1>6, <1>7, <1>8 DEF PartialSums

\* W^2 times the variance of W samples with sum S and sum of squares Q.
Spread(W, S, Q) == W * Q - S * S

\* How far the newest of W samples is from their mean, squared and times W^2.
Distance(W, S, e) == (W * e - S) * (W * e - S)

\* One more sample x: the spread grows by the spread so far and by the distance
\* of x from the mean.
LEMMA OneMoreSample ==
  ASSUME NEW k \in Nat, NEW S \in Int, NEW Q \in Int, NEW x \in Int
  PROVE  /\ k * Spread(k + 1, S + x, Q + x * x)
              = (k + 1) * Spread(k, S, Q) + (k * x - S) * (k * x - S)
         /\ ((k + 1) * x - (S + x)) * ((k + 1) * x - (S + x)) = (k * x - S) * (k * x - S)
  BY DEF Spread

LEMMA SquareSign == \A a \in Int : a * a >= 0 /\ (a * a = 0 => a = 0)
  OBVIOUS

LEMMA ProductSign ==
  ASSUME NEW k \in Nat \ {0}, NEW a \in Int
  PROVE  (k * a >= 0 => a >= 0) /\ (k * a = 0 => a = 0) /\ (a >= 0 => k * a >= 0)
  OBVIOUS

LEMMA Signs ==
  ASSUME NEW k \in Nat \ {0}, NEW d \in Int, NEW e \in Int, NEW m \in Int,
         k * e = (k + 1) * d + m * m, d >= 0
  PROVE  /\ e >= 0 /\ m * m <= k * e
         /\ m * m = k * e => d = 0
         /\ e = 0 => d = 0 /\ m = 0
  <1>1. m * m >= 0 /\ (m * m = 0 => m = 0)  BY SquareSign
  <1>2. k + 1 \in Nat \ {0}  OBVIOUS
  <1>3. (k + 1) * d >= 0 /\ ((k + 1) * d = 0 => d = 0)  BY <1>2, ProductSign
  <1> DEFINE p == (k + 1) * d  q == m * m  r == k * e
  <1>4. p \in Int /\ q \in Int /\ r \in Int /\ r = p + q  OBVIOUS
  <1>5. r >= 0 /\ q <= r /\ (q = r => p = 0) /\ (r = 0 => p = 0 /\ q = 0)
    <2>1. p >= 0 /\ q >= 0  BY <1>1, <1>3
    <2> HIDE DEF p, q, r
    <2> QED BY <1>4, <2>1
  <1>6. e >= 0  BY <1>5, ProductSign
  <1>7. e = 0 => r = 0  OBVIOUS
  <1> QED BY <1>1, <1>3, <1>5, <1>6, <1>7

\* Samuelson's inequality, one sample at a time.
LEMMA OneMore ==
  ASSUME NEW k \in Nat \ {0}, NEW S \in Int, NEW Q \in Int, NEW x \in Int,
         Spread(k, S, Q) >= 0
  PROVE  /\ Spread(k + 1, S + x, Q + x * x) \in Nat
         /\ Distance(k + 1, S + x, x) <= k * Spread(k + 1, S + x, Q + x * x)
         /\ Distance(k + 1, S + x, x) = k * Spread(k + 1, S + x, Q + x * x)
               => Spread(k, S, Q) = 0
         /\ Spread(k + 1, S + x, Q + x * x) = 0 => Spread(k, S, Q) = 0 /\ k * x = S
  <1> DEFINE d == Spread(k, S, Q)
             e == Spread(k + 1, S + x, Q + x * x)
             m == k * x - S
             far == Distance(k + 1, S + x, x)
  <1>1. k * e = (k + 1) * d + m * m /\ far = m * m  BY OneMoreSample, ZenonT(60) DEF Distance
  <1>2. d \in Int /\ e \in Int /\ m \in Int /\ d >= 0  BY DEF Spread
  <1>3. m = 0 => k * x = S  OBVIOUS
  <1> HIDE DEF d, e, m, far
  <1>4. /\ e >= 0 /\ m * m <= k * e
        /\ m * m = k * e => d = 0
        /\ e = 0 => d = 0 /\ m = 0
    BY <1>1, <1>2, Signs, SMTT(40)
  <1> QED BY <1>1, <1>2, <1>3, <1>4 DEF d, e, far

\* One step of a partial sum.
LEMMA PartialSumsStep ==
  ASSUME NEW s \in Seq(Int), NEW p, PartialSums(s, p), NEW k \in 1 .. Len(s)
  PROVE  p[k - 1] \in Int /\ p[k] \in Int /\ s[k] \in Int /\ p[k] = p[k - 1] + s[k]
  <1>1. k - 1 \in 0 .. Len(s) /\ k \in 0 .. Len(s)  OBVIOUS
  <1>2. p[k - 1] \in Int /\ p[k] \in Int  BY <1>1 DEF PartialSums
  <1>3. s[k] \in Int  OBVIOUS
  <1> QED BY <1>2, <1>3 DEF PartialSums

\* The samples 1 to k, with sum S and sum of squares Q, have a spread, and none only
\* if they are equal.
Tight(s, k, S, Q) ==
    /\ Spread(k, S, Q) >= 0
    /\ Spread(k, S, Q) = 0 => (\A i \in 1 .. k : s[i] = s[1]) /\ S = k * s[1]

\* The same of the samples 1 to k + 1.
LEMMA TightStep ==
  ASSUME NEW s, NEW k \in Nat \ {0}, NEW S \in Int, NEW Q \in Int, Tight(s, k, S, Q),
         NEW x \in Int, x = s[k + 1], s[1] \in Int
  PROVE  Tight(s, k + 1, S + x, Q + x * x)
  <1> DEFINE e == Spread(k + 1, S + x, Q + x * x)
  <1>1. Spread(k, S, Q) >= 0  BY DEF Tight
  <1>2. e \in Nat /\ (e = 0 => Spread(k, S, Q) = 0 /\ k * x = S)
    BY <1>1, OneMore, ZenonT(60)
  <1> HIDE DEF e
  <1>4. e >= 0  BY <1>2
  <1>5. ASSUME e = 0
        PROVE  (\A i \in 1 .. k + 1 : s[i] = s[1]) /\ S + x = (k + 1) * s[1]
    <2>1. (\A i \in 1 .. k : s[i] = s[1]) /\ S = k * s[1] /\ k * x = S
      BY <1>2, <1>5 DEF Tight
    <2>2. PICK y \in Int : y = s[1]  OBVIOUS
    <2>3. k * (x - y) = 0 /\ x - y \in Int  BY <2>1, <2>2
    <2>4. x - y = 0  BY <2>3, ProductSign
    <2>5. x = y  BY <2>4
    <2>6. S + x = (k + 1) * y
      <3>1. k * x = S /\ x = y  BY <2>1, <2>5
      <3> QED BY <3>1
    <2>7. ASSUME NEW i \in 1 .. k + 1 PROVE s[i] = s[1]
      <3>1. i \in 1 .. k \/ i = k + 1  OBVIOUS
      <3> QED BY <2>1, <2>2, <2>5, <3>1
    <2> QED BY <2>2, <2>6, <2>7
  <1> QED BY <1>4, <1>5 DEF Tight, e

LEMMA AlwaysTight ==
  ASSUME NEW s \in Seq(Int), NEW S, NEW Q, PartialSums(s, S), PartialSums(Squares(s), Q)
  PROVE  \A k \in 1 .. Len(s) : /\ S[k] \in Int /\ Q[k] \in Int
                                /\ S[k - 1] \in Int /\ Q[k - 1] \in Int
                                /\ S[k] = S[k - 1] + s[k]
                                /\ Q[k] = Q[k - 1] + s[k] * s[k]
                                /\ Tight(s, k, S[k], Q[k])
  <1>1. /\ Squares(s) \in Seq(Int) /\ Len(Squares(s)) = Len(s)
        /\ \A k \in 1 .. Len(s) : Squares(s)[k] = s[k] * s[k]
    BY SMTT(40) DEF Squares
  <1> DEFINE Sums(k) == /\ S[k] \in Int /\ Q[k] \in Int
                         /\ S[k - 1] \in Int /\ Q[k - 1] \in Int
                         /\ S[k] = S[k - 1] + s[k]
                         /\ Q[k] = Q[k - 1] + s[k] * s[k]
  <1>2. ASSUME NEW k \in 1 .. Len(s) PROVE Sums(k)
    <2>1. S[k - 1] \in Int /\ S[k] \in Int /\ S[k] = S[k - 1] + s[k]
      BY PartialSumsStep
    <2>2. k \in 1 .. Len(Squares(s))  BY <1>1
    <2>3. Q[k - 1] \in Int /\ Q[k] \in Int /\ Q[k] = Q[k - 1] + Squares(s)[k]
      BY <1>1, <2>2, PartialSumsStep
    <2>4. Squares(s)[k] = s[k] * s[k]  BY <1>1
    <2> QED BY <2>1, <2>3, <2>4
  <1>3. S[0] = 0 /\ Q[0] = 0  BY DEF PartialSums
  <1> DEFINE Bad == {k \in 1 .. Len(s) : ~Tight(s, k, S[k], Q[k])}
  <1>4. Bad = {}
    <2> SUFFICES ASSUME Bad # {} PROVE FALSE  OBVIOUS
    <2>1. PICK k \in Bad : \A j \in Bad : k <= j
      <3>1. Bad \subseteq Nat  OBVIOUS
      <3> QED BY <3>1, LeastNat
    <2>2. 1 \in 1 .. Len(s) /\ k \in 1 .. Len(s)  BY <2>1
    <2>3. PICK y \in Int : y = s[1]  BY <2>2
    <2>4. k # 1
      <3> SUFFICES Tight(s, 1, S[1], Q[1])  BY <2>1
      <3>1. S[1] = y /\ Q[1] = y * y  BY <1>2, <1>3, <2>2, <2>3, SMTT(40)
      <3>2. Spread(1, y, y * y) = 0 /\ y = 1 * y  BY DEF Spread
      <3>3. \A i \in 1 .. 1 : s[i] = s[1]  OBVIOUS
      <3> QED BY <2>3, <3>1, <3>2, <3>3 DEF Tight
    <2>5. k - 1 \in 1 .. Len(s) /\ k - 1 \in Nat \ {0} /\ (k - 1) + 1 = k /\ k - 1 \notin Bad
      BY <2>1, <2>2, <2>4
    <2>6. PICK a \in Int, b \in Int, x \in Int : a = S[k - 1] /\ b = Q[k - 1] /\ x = s[k]
      <3>1. S[k - 1] \in Int /\ Q[k - 1] \in Int  BY <1>2, <2>2
      <3>2. s[k] \in Int  BY <2>2
      <3> HIDE DEF Bad, Sums
      <3> QED BY <3>1, <3>2
    <2>7. Tight(s, k - 1, a, b)  BY <2>5, <2>6
    <2>8. Tight(s, k, a + x, b + x * x)
      <3>1. PICK j \in Nat \ {0} : j = k - 1  BY <2>5
      <3>2. j + 1 = k  BY <2>5, <3>1
      <3>3. Tight(s, j, a, b)  BY <2>7, <3>1
      <3>4. x = s[j + 1] /\ s[1] \in Int  BY <2>3, <2>6, <3>2
      <3> HIDE DEF Bad, Sums
      <3>5. Tight(s, j + 1, a + x, b + x * x)  BY <3>3, <3>4, TightStep, ZenonT(60)
      <3> QED BY <3>2, <3>5
    <2>9. S[k] = a + x /\ Q[k] = b + x * x  BY <1>2, <2>2, <2>6
    <2> QED BY <2>1, <2>8, <2>9
  <1> QED BY <1>2, <1>4

\* Samuelson's inequality for the newest of W samples: its squared distance from the
\* mean is at most W - 1 variances, and that far only if all others are equal.
LEMMA NewestSample ==
  ASSUME NEW s \in Seq(Int), Len(s) >= 1
  PROVE  \E S, Q \in Int :
            /\ S = SumFunction(s) /\ Q = SumFunction(Squares(s))
            /\ Spread(Len(s), S, Q) \in Nat
            /\ Distance(Len(s), S, s[Len(s)]) <= (Len(s) - 1) * Spread(Len(s), S, Q)
            /\ Distance(Len(s), S, s[Len(s)]) = (Len(s) - 1) * Spread(Len(s), S, Q)
                  => \A i, j \in 1 .. Len(s) - 1 : s[i] = s[j]
  <1>1. Squares(s) \in Seq(Int) /\ Len(Squares(s)) = Len(s)
    BY DEF Squares
  <1>2. PICK S : PartialSums(s, S) /\ SumFunction(s) = S[Len(s)]
    BY SumFunctionFacts
  <1>3. PICK Q : PartialSums(Squares(s), Q) /\ SumFunction(Squares(s)) = Q[Len(s)]
    BY <1>1, SumFunctionFacts
  <1>4. PICK k \in Nat : Len(s) = k + 1  OBVIOUS
  <1>5. k + 1 \in 1 .. Len(s) /\ (k + 1) - 1 = k  BY <1>4
  <1>6. PICK a \in Int, b \in Int, x \in Int : a = S[k] /\ b = Q[k] /\ x = s[k + 1]
    <2>1. S[k] \in Int  BY <1>2, <1>5, PartialSumsStep
    <2>2. Q[k] \in Int  BY <1>1, <1>3, <1>5, PartialSumsStep
    <2>3. s[k + 1] \in Int  BY <1>5
    <2> QED BY <2>1, <2>2, <2>3
  <1>7. S[k + 1] = a + x /\ Q[k + 1] = b + x * x
    BY <1>2, <1>3, <1>5, <1>6, AlwaysTight, ZenonT(60)
  <1> DEFINE e == Spread(k + 1, a + x, b + x * x)
             far == Distance(k + 1, a + x, x)
  <1>8. e \in Nat /\ far <= k * e /\ (far = k * e => \A i, j \in 1 .. k : s[i] = s[j])
    <2>1. CASE k = 0
      <3>1. a = 0 /\ b = 0  BY <1>2, <1>3, <1>6, <2>1 DEF PartialSums
      <3>2. e = 0 /\ far = 0  BY <2>1, <3>1 DEF Spread, Distance
      <3>3. 1 .. k = {}  BY <2>1
      <3> QED BY <2>1, <3>2, <3>3
    <2>2. CASE k # 0
      <3>1. k \in 1 .. Len(s) /\ k \in Nat \ {0}  BY <1>4, <2>2
      <3>2. Tight(s, k, a, b)  BY <1>2, <1>3, <1>6, <3>1, AlwaysTight
      <3>3. Spread(k, a, b) >= 0  BY <3>2 DEF Tight
      <3>4. /\ e \in Nat /\ far <= k * e
            /\ far = k * e => Spread(k, a, b) = 0
        BY <3>1, <3>3, OneMore, Zenon
      <3>5. far = k * e => \A i, j \in 1 .. k : s[i] = s[j]  BY <3>2, <3>4 DEF Tight
      <3> QED BY <3>4, <3>5
    <2> QED BY <2>1, <2>2
  <1> HIDE DEF e, far
  <1>9. a + x \in Int /\ b + x * x \in Int /\ Len(s) - 1 = k  BY <1>4
  <1>10. SumFunction(s) = a + x /\ SumFunction(Squares(s)) = b + x * x
    BY <1>2, <1>3, <1>4, <1>7
  <1> QED BY <1>4, <1>6, <1>8, <1>9, <1>10 DEF e, far

\* At a threshold of sqrt(WARMUP - 1) or more a z-score that is not below it belongs
\* to a full window whose other samples are all equal.
LEMMA OutliersAreLone ==
  ASSUME NEW s \in Seq(Int), Len(s) <= WARMUP,
         Z_SQUARE >= (WARMUP - 1) * Z_UNIT,
         NEW z \in ZClasses(s), z # "below"
  PROVE  \A i, j \in 1 .. WARMUP - 1 : s[i] = s[j]
  <1>1. WARMUP \in Nat \ {0} /\ Z_SQUARE \in Nat \ {0} /\ Z_UNIT \in Nat \ {0}
    BY DriftAssumption
  <1>2. Len(s) \in Nat  OBVIOUS
  <1>3. Len(s) = WARMUP  BY <1>1, <1>2 DEF ZClasses
  <1>4. Len(s) >= 1  BY <1>1, <1>3
  <1>5. PICK S, Q \in Int :
            /\ S = SumFunction(s) /\ Q = SumFunction(Squares(s))
            /\ Spread(Len(s), S, Q) \in Nat
            /\ Distance(Len(s), S, s[Len(s)]) <= (Len(s) - 1) * Spread(Len(s), S, Q)
            /\ Distance(Len(s), S, s[Len(s)]) = (Len(s) - 1) * Spread(Len(s), S, Q)
                  => \A i, j \in 1 .. Len(s) - 1 : s[i] = s[j]
    BY <1>4, NewestSample, Zenon
  <1>6. PICK W \in Nat \ {0}, e \in Int : W = Len(s) /\ e = s[Len(s)]  BY <1>1, <1>3
  <1> DEFINE near == Z_UNIT * (W * e - S) * (W * e - S)
             level == Z_SQUARE * (W * Q - S * S)
  <1>7. near \in Int /\ level \in Int  BY <1>1
  <1>8. ~(near < level)
    <2>1. ZClasses(s) = CASE W < WARMUP \/ W * Q = S * S \/ near < level -> {"below"}
                          [] W >= WARMUP /\ near > level               -> {"above"}
                          [] OTHER                  -> {"below", "at", "above"}
      BY <1>5, <1>6, Zenon DEF ZClasses
    <2> HIDE DEF near, level
    <2> SUFFICES ASSUME near < level PROVE FALSE  OBVIOUS
    <2>2. ~(near > level)  BY <1>7
    <2>3. ZClasses(s) = {"below"}  BY <2>1, <2>2
    <2> QED BY <2>3
  <1> DEFINE far == Distance(W, S, e)  spread == Spread(W, S, Q)
  <1>9. Z_UNIT * far >= Z_SQUARE * spread /\ far \in Int /\ spread \in Int
    BY <1>1, <1>7, <1>8 DEF Distance, Spread
  <1>10. spread >= 0 /\ far <= (W - 1) * spread
    BY <1>5, <1>6
  <1>11. Z_SQUARE >= (W - 1) * Z_UNIT  BY <1>3, <1>6
  <1> HIDE DEF far, spread
  <1>12. far = (W - 1) * spread
    <2> DEFINE a == Z_SQUARE - (W - 1) * Z_UNIT
               u == (W - 1) * spread - far
               v == a * spread
    <2>1. a \in Int /\ a >= 0  BY <1>1, <1>11
    <2>2. u \in Int /\ u >= 0  BY <1>9, <1>10
    <2>3. Z_UNIT * u + v <= 0
      <3>1. Z_UNIT * u + v = Z_SQUARE * spread - Z_UNIT * far  BY <1>1, <1>9
      <3> QED BY <1>1, <1>9, <3>1
    <2> HIDE DEF a, u
    <2>4. v \in Int /\ v >= 0  BY <1>9, <1>10, <2>1, ProductSign
    <2>5. Z_UNIT * u >= 0 /\ (Z_UNIT * u = 0 => u = 0)  BY <1>1, <2>2, ProductSign
    <2> HIDE DEF v
    <2>6. u = 0
      <3> DEFINE w == Z_UNIT * u
      <3>1. w \in Int /\ w + v <= 0 /\ w >= 0  BY <1>1, <2>2, <2>3, <2>5
      <3> HIDE DEF w
      <3>2. w = 0  BY <2>4, <3>1
      <3> QED BY <2>5, <3>2 DEF w
    <2> QED BY <1>9, <2>6 DEF u
  <1> QED BY <1>3, <1>5, <1>6, <1>12 DEF far, spread
=============================================================================
