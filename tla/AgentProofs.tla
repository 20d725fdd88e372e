----------------------------- MODULE AgentProofs -----------------------------
(***************************************************************************)
(* The agent's invariants, its refinement of the execution boundary, and   *)
(* that it drives its drift monitor and its confidence signal as the       *)
(* modules about those do, so that their theorems hold of the agent: for   *)
(* every configuration, gate, bound and answer of the model.               *)
(***************************************************************************)
EXTENDS Agent, ConfidenceLemmas, DriftLemmas

(* What the critic and the gates can answer.                               *)

\* Whatever two answers the model gives, their consensus is an outcome that
\* update() accepts: a structure exactly for a partial one, severity in range.
LEMMA ConsensusFacts ==
  ASSUME NEW o \in CriticOutcomes
  PROVE  /\ o \in [category : Categories, severity : 0 .. SCALE,
                   kind : ConflictKinds \cup {"none"}]
         /\ ValidOutcome(o)
  <1>1. PICK first \in Answers, second \in Answers : o = Consensus(first, second)
    BY DEF CriticOutcomes
  <1>2. ASSUME NEW a \in Answers
        PROVE  /\ a.severity \in 0 .. SCALE /\ a.kind \in ConflictKinds
               /\ DeriveCategory(a) \in {"success", "partial", "failure"}
    BY CriticAssumption, ScaleAssumption
    DEF Answers, ParseFailure, ConflictKinds, DeriveCategory
  <1> DEFINE severity == IF DeriveCategory(first) # DeriveCategory(second) THEN SCALE
                         ELSE (first.severity + second.severity) \div 2
             kind == IF DeriveCategory(first) = "partial" THEN first.kind ELSE "none"
  <1>3. severity \in 0 .. SCALE
    <2>1. first.severity \in 0 .. SCALE /\ second.severity \in 0 .. SCALE  BY <1>2
    <2>2. (first.severity + second.severity) \div 2 \in 0 .. SCALE
      BY <2>1, ScaleAssumption
    <2> QED BY <2>2, ScaleAssumption
  <1>4. o = [category |-> DeriveCategory(first), severity |-> severity, kind |-> kind]
    BY <1>1 DEF Consensus
  <1>5. /\ DeriveCategory(first) \in {"success", "partial", "failure"}
        /\ first.kind \in ConflictKinds
    BY <1>2
  <1> HIDE DEF severity
  <1>6. kind \in ConflictKinds \cup {"none"}
        /\ (DeriveCategory(first) = "partial" <=> kind # "none")
    BY <1>5 DEF ConflictKinds
  <1> QED BY <1>3, <1>4, <1>5, <1>6 DEF Categories, ValidOutcome

\* A refusal is one of the two outcomes that carry no evidence.
LEMMA RefusalFacts ==
  ASSUME NEW proposed \in BOOLEAN
  PROVE  /\ RefusalOutcome(proposed) \in [category : Categories, severity : 0 .. SCALE,
                                          kind : ConflictKinds \cup {"none"}]
         /\ ValidOutcome(RefusalOutcome(proposed))
         /\ RefusalOutcome(proposed).category \in NoUpdateCategories
  BY ScaleAssumption DEF RefusalOutcome, Categories, ValidOutcome, NoUpdateCategories

\* At the confidence a signal starts with, neither gate of the repository executes.
LEMMA ShippedGatesRefuse ==
  ASSUME gate \in {"default", "demo"}, signal.value = InitialSignal.value,
         NEW decision \in GateDecisions
  PROVE  decision # "EXECUTE"
  <1>1. 100 * (SCALE \div 2) < 90 * SCALE /\ SCALE \div 2 \in Int
    BY ScaleAssumption
  <1>2. ASSUME NEW window PROVE DefaultGate(signal.value, window) # "EXECUTE"
    BY <1>1, ScaleAssumption DEF DefaultGate, ConfidenceRules, InitialSignal
  <1>3. ASSUME NEW p PROVE DemoGate(p, signal.value, GateContext) # "EXECUTE"
    BY <1>2 DEF DemoGate
  <1> QED BY <1>2, <1>3 DEF GateDecisions

\* A gate decides one of the four modes.
LEMMA GateDecisionsType == GateDecisions \subseteq ExecutionModes
  BY DEF GateDecisions, DefaultGate, DemoGate, ConfidenceRules, ExecutionModes

-----------------------------------------------------------------------------
(* The queue.                                                              *)

QueueOK(q, task) == /\ q \in Seq(TaskIds) /\ Len(q) <= MAX_QUEUE_SIZE
                    /\ \A i, j \in DOMAIN q : i # j => q[i] # q[j]
                    /\ task \notin Range(q)

\* Fresh tasks are a sequence of the length asked for.
LEMMA FreshType ==
  ASSUME NEW n \in Nat, NEW new \in FreshTasks(n)
  PROVE  new \in Seq(TaskIds) /\ Len(new) = n
  <1>1. new \in [1 .. n -> FreshIds]  BY DEF FreshTasks
  <1> QED BY <1>1 DEF FreshIds

\* Pushing fresh tasks, as many as fit, keeps the queue free of duplicates.
LEMMA PushFacts ==
  ASSUME QueueOK(queue, local.task), NEW n \in Nat, n <= MAX_QUEUE_SIZE - Len(queue),
         NEW new \in FreshTasks(n)
  PROVE  QueueOK(queue \o new, local.task)
  <1>1. /\ new \in [1 .. n -> FreshIds]
        /\ \A i \in 1 .. n : Cardinality({t \in FreshIds : t < new[i]}) = i - 1
    BY DEF FreshTasks
  <1>2. new \in Seq(TaskIds) /\ Len(new) = n  BY FreshType
  <1>3. \A i, j \in 1 .. n : new[i] = new[j] => i = j
    <2> TAKE i, j \in 1 .. n
    <2> HAVE new[i] = new[j]
    <2>1. i - 1 = j - 1  BY <1>1
    <2> QED BY <2>1
  <1>4. \A i \in 1 .. n : new[i] # local.task /\ new[i] \notin Range(queue)
    BY <1>1 DEF FreshIds
  <1> DEFINE q == queue \o new
  <1>5. /\ q \in Seq(TaskIds) /\ Len(q) = Len(queue) + n
        /\ \A i \in 1 .. Len(queue) + n :
              q[i] = IF i <= Len(queue) THEN queue[i] ELSE new[i - Len(queue)]
    BY <1>2, ConcatProperties DEF QueueOK
  <1>6. /\ Len(queue) \in Nat /\ DOMAIN queue = 1 .. Len(queue)
        /\ DOMAIN q = 1 .. Len(queue) + n
    BY <1>5 DEF QueueOK
  <1> HIDE DEF q
  <1>7. \A i \in 1 .. Len(queue) : queue[i] \in Range(queue) /\ queue[i] # local.task
    BY <1>6 DEF QueueOK, Range
  <1>8. \A i \in DOMAIN q : q[i] # local.task
    BY <1>4, <1>5, <1>6, <1>7
  <1>9. ASSUME NEW i \in DOMAIN q, NEW j \in DOMAIN q, i # j PROVE q[i] # q[j]
    <2>1. CASE i <= Len(queue) /\ j <= Len(queue)
      BY <1>5, <1>6, <1>9, <2>1 DEF QueueOK
    <2>2. CASE i > Len(queue) /\ j > Len(queue)
      <3>1. i - Len(queue) \in 1 .. n /\ j - Len(queue) \in 1 .. n
            /\ i - Len(queue) # j - Len(queue)
        BY <1>6, <1>9, <2>2
      <3> QED BY <1>3, <1>5, <1>6, <2>2, <3>1
    <2>3. CASE i <= Len(queue) /\ j > Len(queue)
      <3>1. j - Len(queue) \in 1 .. n /\ i \in 1 .. Len(queue)  BY <1>6, <2>3
      <3> QED BY <1>4, <1>5, <1>6, <1>7, <2>3, <3>1
    <2>4. CASE i > Len(queue) /\ j <= Len(queue)
      <3>1. i - Len(queue) \in 1 .. n /\ j \in 1 .. Len(queue)  BY <1>6, <2>4
      <3> QED BY <1>4, <1>5, <1>6, <1>7, <2>4, <3>1
    <2> QED BY <1>6, <2>1, <2>2, <2>3, <2>4
  <1>10. Len(q) <= MAX_QUEUE_SIZE  BY <1>5, <1>6, AgentAssumption
  <1>11. local.task \notin Range(q)  BY <1>8 DEF Range
  <1> QED BY <1>5, <1>9, <1>10, <1>11 DEF QueueOK, q

\* Popping leaves the rest in order, without the task that was taken.
LEMMA PopFacts ==
  ASSUME NEW task, QueueOK(queue, task), queue # <<>>
  PROVE  QueueOK(Tail(queue), Head(queue)) /\ Head(queue) \in TaskIds
  <1>1. /\ Head(queue) \in TaskIds /\ Tail(queue) \in Seq(TaskIds)
        /\ Len(Tail(queue)) = Len(queue) - 1
        /\ \A i \in 1 .. Len(Tail(queue)) : Tail(queue)[i] = queue[i + 1]
    BY HeadTailProperties DEF QueueOK
  <1>2. /\ Len(queue) \in Nat /\ Len(queue) > 0 /\ Head(queue) = queue[1]
        /\ DOMAIN queue = 1 .. Len(queue)
        /\ DOMAIN Tail(queue) = 1 .. Len(Tail(queue))
    BY <1>1 DEF QueueOK
  <1>3. ASSUME NEW i \in DOMAIN Tail(queue)
        PROVE  i + 1 \in DOMAIN queue /\ i + 1 # 1 /\ Tail(queue)[i] = queue[i + 1]
    BY <1>1, <1>2
  <1>4. \A i, j \in DOMAIN Tail(queue) : i # j => Tail(queue)[i] # Tail(queue)[j]
    BY <1>2, <1>3 DEF QueueOK
  <1>5. \A i \in DOMAIN Tail(queue) : Tail(queue)[i] # Head(queue)
    BY <1>2, <1>3 DEF QueueOK
  <1>6. Head(queue) \notin Range(Tail(queue))  BY <1>5 DEF Range
  <1>7. Len(Tail(queue)) <= MAX_QUEUE_SIZE
    BY <1>1, <1>2, AgentAssumption DEF QueueOK
  <1> QED BY <1>1, <1>4, <1>6, <1>7 DEF QueueOK

-----------------------------------------------------------------------------
(* The inductive invariant.                                                *)

BeforeLearning == {"predict", "propose", "gate", "perform", "critic", "learn"}

\* From the entry check to the next recorded cycle the evidence is quiet.
Quiet == /\ StreakHasOutlier(drift)
         /\ pc \in BeforeLearning => ~Severe(drift) /\ drift.last_error_z = "below"

\* What a step has established by the time it stands at each place.
Progress ==
    /\ pc \in {"predict", "propose", "gate", "perform"} => ~local.performed
    /\ pc \in {"gate", "perform"} => local.proposed
    /\ pc = "perform" => local.decision = "EXECUTE"
    /\ pc = "learn" => /\ local.outcome.category \in Categories
                       /\ ValidOutcome(local.outcome)
                       /\ ~local.performed => local.outcome.category \in NoUpdateCategories

\* With a gate of the repository nothing is performed, so nothing is learnt.
Shipped ==
    gate # "custom" => /\ pc # "perform" /\ ~local.performed /\ ~goal
                       /\ signal.value = InitialSignal.value
                       /\ pc = "goal" => ~Success

IInv == TypeOK /\ Quiet /\ Progress /\ Shipped

\* A new agent satisfies the invariant (agent.py:56-120).
LEMMA InitIInv == Init => IInv
  <1> SUFFICES ASSUME Init PROVE IInv  OBVIOUS
  <1>1. InitialSignal \in Signals
    BY ScaleAssumption DEF InitialSignal, Signals, Deltas
  <1>2. InitialDrift \in DriftRecords(0 .. SCALE) /\ InitialDrift.drift_streak = 0
    BY DEF InitialDrift, DriftRecords
  <1>3. NoLocals \in Locals /\ NoLocals.task = 0 /\ NoLocals.performed = FALSE
    BY ScaleAssumption DEF NoLocals, Locals
  <1>4. QueueOK(<<>>, 0)
    BY AgentAssumption DEF QueueOK, Range
  <1>5. TypeOK
    BY <1>1, <1>2, <1>3, <1>4, AgentAssumption DEF Init, TypeOK, QueueOK
  <1>6. Quiet  BY <1>2 DEF Init, Quiet, StreakHasOutlier, BeforeLearning
  <1>7. Progress /\ Shipped  BY <1>3 DEF Init, Progress, Shipped
  <1> QED BY <1>5, <1>6, <1>7 DEF IInv

\* What a stutter on the evidence and on the place in the step keeps.
LEMMA SamePlace ==
  ASSUME IInv, UNCHANGED <<configured, gate, mode, signal, drift, pc, local, goal>>
  PROVE  Quiet' /\ Progress' /\ Shipped'
  BY DEF IInv, Quiet, Progress, Shipped, Severe, StreakHasOutlier, ValidOutcome, Success

\* So does every call of seed(), step() and run(), and the loop of run().
LEMMA CallerIInv == ASSUME IInv, Seed \/ CallStep \/ CallRun \/ RunLoop PROVE IInv'
  <1>1. CASE Seed
    <2>1. /\ UNCHANGED <<kernel, telemetry, control>>
          /\ Len(queue) < MAX_QUEUE_SIZE
          /\ \E new \in FreshTasks(1) : queue' = queue \o new
      BY <1>1 DEF Seed
    <2>2. QueueOK(queue, local.task)  BY DEF IInv, TypeOK, QueueOK
    <2>3. 1 <= MAX_QUEUE_SIZE - Len(queue)
      BY <2>1, <2>2, AgentAssumption DEF QueueOK
    <2>4. QueueOK(queue', local.task)  BY <2>1, <2>2, <2>3, PushFacts
    <2>5. TypeOK'
      BY <2>1, <2>4 DEF IInv, TypeOK, QueueOK, kernel, telemetry, control
    <2> QED BY <2>1, <2>5, SamePlace DEF IInv, kernel, telemetry, control
  <1>2. CASE CallStep
    BY <1>2 DEF CallStep, kernel, telemetry, IInv, TypeOK, Quiet, Progress, Shipped,
                Severe, StreakHasOutlier, ValidOutcome, Success, BeforeLearning
  <1>3. CASE CallRun
    BY <1>3 DEF CallRun, kernel, IInv, TypeOK, Quiet, Progress, Shipped,
                Severe, StreakHasOutlier, ValidOutcome, Success, BeforeLearning
  <1>4. CASE RunLoop
    BY <1>4 DEF RunLoop, kernel, telemetry, IInv, TypeOK, Quiet, Progress, Shipped,
                Severe, StreakHasOutlier, ValidOutcome, Success, BeforeLearning
  <1> QED BY <1>1, <1>2, <1>3, <1>4

\* A step that is left with its evidence as it was, by a return or an exception.
LEMMA LeaveIInv ==
  ASSUME IInv, pc' = "idle", caller' \in {"none", "run"}, local' = NoLocals,
         faults' \in Nat, cycles' \in Nat, cycles' >= cycles, goal' \in BOOLEAN,
         gate # "custom" => goal' = goal,
         mode' \in PolicyModes,
         UNCHANGED <<configured, gate, signal, drift, queue, lastNonce>>
  PROVE  IInv'
  <1>1. NoLocals \in Locals /\ NoLocals.task = 0 /\ NoLocals.performed = FALSE
    BY ScaleAssumption DEF NoLocals, Locals
  <1>2. QueueOK(queue, 0)
    <2>1. \A i \in DOMAIN queue : queue[i] # 0
      BY AgentAssumption DEF IInv, TypeOK, TaskIds
    <2> QED BY <2>1 DEF IInv, TypeOK, QueueOK, Range
  <1>4. lastNonce' \in {-1} \cup 0 .. cycles'  BY DEF IInv, TypeOK
  <1>5. TypeOK'
    BY <1>1, <1>2, <1>4 DEF IInv, TypeOK, QueueOK
  <1>6. Quiet' /\ Progress' /\ Shipped'
    BY <1>1 DEF IInv, Quiet, Progress, Shipped, StreakHasOutlier, BeforeLearning
  <1> QED BY <1>5, <1>6 DEF IInv

\* The entry check.
LEMMA EnterFacts ==
  ASSUME IInv, mode' = Escalate(drift, mode)
  PROVE  /\ mode' \in PolicyModes /\ PolicyOrder[mode'] >= PolicyOrder[mode]
         /\ mode = "HALT" => mode' = "HALT"
         /\ mode' # "HALT" => ~Severe(drift) /\ drift.last_error_z = "below"
  <1>1. mode \in PolicyModes  BY DEF IInv, TypeOK
  <1> QED BY <1>1, EscalateFacts

\* The entry check lets a step in only on quiet evidence (agent.py:145-176).
LEMMA EnterIInv == ASSUME IInv, EnterHalted \/ EnterEmpty \/ EnterTask PROVE IInv'
  <1>1. CASE EnterHalted \/ EnterEmpty
    <2>1. mode' \in PolicyModes
      BY <1>1, EnterFacts DEF EnterHalted, EnterEmpty
    <2>2. faults \in Nat /\ cycles \in Nat /\ cycles >= cycles /\ goal \in BOOLEAN
      BY DEF IInv, TypeOK
    <2> QED
      BY <1>1, <2>1, <2>2, LeaveIInv DEF EnterHalted, EnterEmpty, Return, telemetry
  <1>2. CASE EnterTask
    <2>1. /\ mode' \in PolicyModes /\ mode' # "HALT"
          /\ ~Severe(drift) /\ drift.last_error_z = "below"
      BY <1>2, EnterFacts DEF EnterTask
    <2>2. /\ queue' = Tail(queue) /\ local' = [NoLocals EXCEPT !.task = Head(queue)]
          /\ lastNonce' = cycles /\ goal' = FALSE /\ pc' = "predict"
          /\ UNCHANGED <<configured, gate, signal, drift, cycles, caller, faults>>
          /\ queue # <<>>
      BY <1>2 DEF EnterTask
    <2>3. QueueOK(queue', Head(queue)) /\ Head(queue) \in TaskIds
      BY <2>2, PopFacts DEF IInv, TypeOK, QueueOK
    <2>4. /\ local' \in Locals /\ local'.task = Head(queue) /\ local'.performed = FALSE
      <3>1. NoLocals \in Locals /\ NoLocals.performed = FALSE
        BY ScaleAssumption DEF NoLocals, Locals
      <3>2. Head(queue) \in TaskIds \cup {0}  BY <2>3
      <3> QED BY <2>2, <3>1, <3>2 DEF Locals
    <2>5. Head(queue) # 0  BY <2>3 DEF TaskIds
    <2>6. cycles \in {-1} \cup 0 .. cycles  BY DEF IInv, TypeOK
    <2>8. TypeOK'
      BY <2>1, <2>2, <2>3, <2>4, <2>5, <2>6 DEF IInv, TypeOK, QueueOK
    <2>9. Quiet'
      BY <2>1, <2>2 DEF IInv, Quiet, StreakHasOutlier, Severe
    <2>10. Progress' /\ Shipped'
      BY <2>2, <2>4 DEF IInv, Progress, Shipped
    <2> QED BY <2>8, <2>9, <2>10 DEF IInv
  <1> QED BY <1>1, <1>2

\* A move within the step that changes its locals only.
LEMMA MoveOn ==
  ASSUME IInv, pc \in BeforeLearning, local' \in Locals, local'.task = local.task,
         pc' \in BeforeLearning, UNCHANGED <<kernel, queue, telemetry, caller, faults>>
  PROVE  TypeOK' /\ Quiet'
  <1>1. TypeOK'
    BY DEF IInv, TypeOK, kernel, telemetry, BeforeLearning
  <1>2. Quiet'
    BY DEF IInv, Quiet, kernel, StreakHasOutlier, Severe
  <1> QED BY <1>1, <1>2

\* Suppression is decided, nothing else (agent.py:275-302).
LEMMA PredictIInv == ASSUME IInv, Predict PROVE IInv'
  <1> DEFINE suppressed == ~ShouldExecute(mode, RecommendedBreadth(signal.value, mode))
  <1>1. /\ local' = [local EXCEPT !.suppressed = suppressed]
        /\ pc = "predict" /\ pc' = "propose"
        /\ UNCHANGED <<kernel, queue, telemetry, caller, faults>>
    BY DEF Predict
  <1>2. suppressed \in BOOLEAN  BY DEF ShouldExecute
  <1> HIDE DEF suppressed
  <1>3. local \in Locals  BY DEF IInv, TypeOK
  <1>4. /\ local' \in Locals /\ local'.task = local.task
        /\ local'.performed = local.performed
    BY <1>1, <1>2, <1>3 DEF Locals
  <1>5. TypeOK' /\ Quiet'  BY <1>1, <1>4, MoveOn DEF BeforeLearning
  <1>6. Progress' /\ Shipped'
    BY <1>1, <1>4 DEF IInv, Progress, Shipped, kernel, telemetry
  <1> QED BY <1>5, <1>6 DEF IInv

\* A proposal, or the way round the effect (agent.py:305-320).
LEMMA ProposeIInv == ASSUME IInv, Propose PROVE IInv'
  <1>1. PICK proposed \in BOOLEAN :
           /\ local' = [local EXCEPT !.proposed = proposed]
           /\ pc' = IF proposed THEN "gate" ELSE "critic"
    BY DEF Propose
  <1>2. pc = "propose" /\ UNCHANGED <<kernel, queue, telemetry, caller, faults>>
    BY DEF Propose
  <1>3. local \in Locals  BY DEF IInv, TypeOK
  <1>4. /\ local' \in Locals /\ local'.task = local.task
        /\ local'.performed = local.performed /\ local'.proposed = proposed
    BY <1>1, <1>3 DEF Locals
  <1>5. TypeOK' /\ Quiet'  BY <1>1, <1>2, <1>4, MoveOn DEF BeforeLearning
  <1>6. Progress' /\ Shipped'
    BY <1>1, <1>2, <1>4 DEF IInv, Progress, Shipped, kernel, telemetry
  <1> QED BY <1>5, <1>6 DEF IInv

\* Only EXECUTE leads to the effect (agent.py:330-341).
LEMMA DecideIInv == ASSUME IInv, Decide PROVE IInv'
  <1>1. PICK decision \in GateDecisions :
           /\ local' = [local EXCEPT !.decision = decision]
           /\ pc' = IF decision = "EXECUTE" THEN "perform" ELSE "critic"
    BY DEF Decide
  <1>2. pc = "gate" /\ UNCHANGED <<kernel, queue, telemetry, caller, faults>>
    BY DEF Decide
  <1>3. /\ local \in Locals /\ local.proposed /\ ~local.performed
        /\ gate \in {"default", "demo", "custom"}
    BY <1>2 DEF IInv, TypeOK, Progress
  <1>4. decision \in ExecutionModes  BY GateDecisionsType
  <1>5. /\ local' \in Locals /\ local'.task = local.task
        /\ local'.performed = local.performed /\ local'.proposed = local.proposed
        /\ local'.decision = decision
    BY <1>1, <1>3, <1>4 DEF Locals
  <1>6. TypeOK' /\ Quiet'  BY <1>1, <1>2, <1>5, MoveOn DEF BeforeLearning
  <1>7. Progress'  BY <1>1, <1>3, <1>5 DEF Progress
  <1>8. gate # "custom" => pc' # "perform"
    BY <1>1, <1>3, ShippedGatesRefuse DEF IInv, Shipped
  <1>9. Shipped'
    BY <1>1, <1>2, <1>5, <1>8 DEF IInv, Shipped, kernel, telemetry
  <1> QED BY <1>6, <1>7, <1>9 DEF IInv

\* The effect, performed or refused (agent.py:343-358).
LEMMA PerformIInv == ASSUME IInv, Perform PROVE IInv'
  <1>1. PICK performed \in BOOLEAN : local' = [local EXCEPT !.performed = performed]
    BY DEF Perform
  <1>2. /\ pc = "perform" /\ pc' = "critic"
        /\ UNCHANGED <<kernel, queue, telemetry, caller, faults>>
    BY DEF Perform
  <1>3. local \in Locals /\ gate = "custom"  BY <1>2 DEF IInv, TypeOK, Shipped
  <1>4. local' \in Locals /\ local'.task = local.task
    BY <1>1, <1>3 DEF Locals
  <1>5. TypeOK' /\ Quiet'  BY <1>2, <1>4, MoveOn DEF BeforeLearning
  <1>6. Progress' /\ Shipped'  BY <1>2, <1>3 DEF Progress, Shipped, kernel
  <1> QED BY <1>5, <1>6 DEF IInv

\* The outcome update() will be given is one it accepts (agent.py:376-385).
LEMMA EvaluateIInv == ASSUME IInv, Evaluate PROVE IInv'
  <1>1. PICK o \in IF local.performed THEN CriticOutcomes
                    ELSE {RefusalOutcome(local.proposed)} :
           local' = [local EXCEPT !.outcome = o]
    BY DEF Evaluate
  <1>2. /\ pc = "critic" /\ pc' = "learn"
        /\ UNCHANGED <<kernel, queue, telemetry, caller, faults>>
    BY DEF Evaluate
  <1>3. local \in Locals /\ local.proposed \in BOOLEAN /\ local.performed \in BOOLEAN
    BY DEF IInv, TypeOK, Locals
  <1>4. /\ o \in [category : Categories, severity : 0 .. SCALE,
                  kind : ConflictKinds \cup {"none"}]
        /\ ValidOutcome(o)
        /\ ~local.performed => o.category \in NoUpdateCategories
    BY <1>3, ConsensusFacts, RefusalFacts
  <1>5. o.category \in Categories  BY <1>4
  <1>6. o \in [category : Categories \cup {"none"}, severity : 0 .. SCALE,
               kind : ConflictKinds \cup {"none"}]
    BY <1>4
  <1>7. /\ local' \in Locals /\ local'.task = local.task /\ local'.outcome = o
        /\ local'.performed = local.performed
    BY <1>1, <1>3, <1>6 DEF Locals
  <1>8. TypeOK' /\ Quiet'  BY <1>2, <1>7, MoveOn DEF BeforeLearning
  <1>9. ValidOutcome(local'.outcome)  BY <1>4, <1>7
  <1>10. Progress'
    BY <1>2, <1>4, <1>5, <1>7, <1>9 DEF Progress, ValidOutcome
  <1>11. Shipped'
    BY <1>2, <1>7 DEF IInv, Shipped, kernel, telemetry
  <1> QED BY <1>8, <1>10, <1>11 DEF IInv

\* One recorded or skipped cycle.  The evidence was quiet when it began.
LEMMA LearnFacts ==
  ASSUME IInv, Learn
  PROVE  /\ signal' \in Signals /\ signal'.cycle_id = signal.cycle_id + 1
         /\ drift' \in DriftRecords(0 .. SCALE) /\ StreakHasOutlier(drift')
         /\ ~local.performed => signal'.value = signal.value /\ drift' = drift
         /\ ~local.performed => ~Success
         /\ signal'.value <= signal.value + TopDelta
  <1>1. /\ pc = "learn" /\ signal' = UpdateSignal(signal, local.outcome)
        /\ IF local.outcome.category \in NoUpdateCategories
           THEN drift' = drift
           ELSE \E numeric \in BOOLEAN :
                   drift' \in RecordCycle(drift, local.outcome.severity, numeric, Success)
    BY DEF Learn
  <1>2. /\ local.outcome.category \in Categories /\ ValidOutcome(local.outcome)
        /\ ~local.performed => local.outcome.category \in NoUpdateCategories
    <2>1. pc = "learn" /\ Progress  BY <1>1 DEF IInv
    <2> QED BY <2>1, Zenon DEF Progress
  <1>3. /\ signal \in Signals /\ drift \in DriftRecords(0 .. SCALE)
        /\ StreakHasOutlier(drift)
    BY DEF IInv, TypeOK, Quiet
  <1>4. /\ signal' \in Signals /\ signal'.cycle_id = signal.cycle_id + 1
        /\ local.outcome.category \in NoUpdateCategories => signal'.value = signal.value
        /\ signal'.value <= signal.value + TopDelta
    BY <1>1, <1>2, <1>3, UpdateFacts
  <1>5. local.outcome.severity \in 0 .. SCALE /\ Success \in BOOLEAN
    BY <1>2 DEF ValidOutcome, Success
  <1>6. drift' \in DriftRecords(0 .. SCALE) /\ StreakHasOutlier(drift')
    BY <1>1, <1>3, <1>5, RecordCycleFacts, ZenonT(60)
  <1>7. ~local.performed => signal'.value = signal.value /\ drift' = drift
    BY <1>1, <1>2, <1>4
  <1>8. ~local.performed => ~Success  BY <1>2 DEF Success, NoUpdateCategories
  <1> QED BY <1>4, <1>6, <1>7, <1>8

\* An update keeps signal and monitor typed; an outlier is the first one (agent.py:412-468).
LEMMA LearnIInv == ASSUME IInv, Learn PROVE IInv'
  <1>1. /\ signal' \in Signals /\ drift' \in DriftRecords(0 .. SCALE)
        /\ StreakHasOutlier(drift')
        /\ ~local.performed => signal'.value = signal.value /\ drift' = drift
        /\ ~local.performed => ~Success
    BY LearnFacts
  <1>2. /\ pc = "learn" /\ UNCHANGED <<configured, gate, mode, queue, goal>>
        /\ \/ End(FALSE)
           \/ pc' = "goal" /\ UNCHANGED <<caller, local, faults, cycles, lastNonce>>
    BY DEF Learn
  <1>3. NoLocals \in Locals /\ NoLocals.task = 0 /\ NoLocals.performed = FALSE
    BY ScaleAssumption DEF NoLocals, Locals
  <1>4. QueueOK(queue, 0) /\ QueueOK(queue, local.task)
    <2>1. \A i \in DOMAIN queue : queue[i] # 0
      BY AgentAssumption DEF IInv, TypeOK, TaskIds
    <2> QED BY <2>1 DEF IInv, TypeOK, QueueOK, Range
  <1>5. Quiet'
    BY <1>1, <1>2 DEF IInv, Quiet, StreakHasOutlier, BeforeLearning, End, Return
  <1>6. CASE End(FALSE)
    <2>1. TypeOK'
      BY <1>1, <1>2, <1>3, <1>4, <1>6 DEF IInv, TypeOK, QueueOK, End, Return
    <2>2. Progress' /\ Shipped'
      BY <1>1, <1>2, <1>3, <1>6 DEF IInv, Progress, Shipped, End, Return
    <2> QED BY <1>5, <2>1, <2>2 DEF IInv
  <1>7. CASE pc' = "goal" /\ UNCHANGED <<caller, local, faults, cycles, lastNonce>>
    <2>1. TypeOK'
      BY <1>1, <1>2, <1>4, <1>7 DEF IInv, TypeOK, QueueOK
    <2>2. Progress' /\ Shipped'
      BY <1>1, <1>2, <1>7 DEF IInv, Progress, Shipped, Success
    <2> QED BY <1>5, <2>1, <2>2 DEF IInv
  <1> QED BY <1>2, <1>6, <1>7

\* A satisfied goal ends the step (agent.py:484-508).
LEMMA CheckGoalIInv == ASSUME IInv, CheckGoal PROVE IInv'
  <1>1. pc = "goal" /\ UNCHANGED <<kernel, queue>>  BY DEF CheckGoal
  <1>2. CASE GoalSatisfied /\ End(FALSE) /\ goal' = TRUE
    <2>1. gate = "custom" /\ mode \in PolicyModes
      BY <1>1, <1>2 DEF IInv, TypeOK, Shipped, GoalSatisfied
    <2>2. /\ faults' = faults /\ cycles' = cycles + 1 /\ cycles \in Nat /\ faults \in Nat
          /\ pc' = "idle" /\ caller' \in {"none", "run"} /\ local' = NoLocals
          /\ UNCHANGED lastNonce
      BY <1>2 DEF End, Return, IInv, TypeOK
    <2> QED BY <1>1, <1>2, <2>1, <2>2, LeaveIInv DEF kernel
  <1>3. CASE pc' = "subtasks" /\ UNCHANGED <<telemetry, caller, local, faults>>
    <2>1. TypeOK'  BY <1>1, <1>3 DEF IInv, TypeOK, kernel, telemetry
    <2>2. Quiet' /\ Progress' /\ Shipped'
      BY <1>1, <1>3
      DEF IInv, Quiet, Progress, Shipped, StreakHasOutlier, BeforeLearning, kernel, telemetry
    <2> QED BY <2>1, <2>2 DEF IInv
  <1> QED BY <1>2, <1>3 DEF CheckGoal

\* Subtasks fit the queue and are new (agent.py:511-545).
LEMMA SubtasksIInv == ASSUME IInv, GenerateSubtasks \/ SuppressSubtasks PROVE IInv'
  <1>1. /\ pc = "subtasks" /\ pc' = "guard"
        /\ UNCHANGED <<kernel, telemetry, caller, local, faults>>
    BY DEF GenerateSubtasks, SuppressSubtasks
  <1>2. QueueOK(queue, local.task) /\ Len(queue) \in Nat
    BY DEF IInv, TypeOK, QueueOK
  <1>3. QueueOK(queue', local.task)
    <2>1. CASE SuppressSubtasks  BY <1>2, <2>1 DEF SuppressSubtasks
    <2>2. CASE GenerateSubtasks
      <3>1. PICK generated \in 0 .. MAX_SUBTASKS :
               \E new \in FreshTasks(Pushed(generated)) : queue' = queue \o new
        BY <2>2 DEF GenerateSubtasks
      <3>2. /\ Pushed(generated) \in Nat
            /\ Pushed(generated) <= MAX_QUEUE_SIZE - Len(queue)
        BY <1>2, AgentAssumption DEF Pushed, QueueOK
      <3> QED BY <1>2, <3>1, <3>2, PushFacts
    <2> QED BY <2>1, <2>2
  <1>4. TypeOK'
    BY <1>1, <1>3 DEF IInv, TypeOK, QueueOK, kernel, telemetry
  <1>5. Quiet' /\ Progress' /\ Shipped'
    BY <1>1
    DEF IInv, Quiet, Progress, Shipped, StreakHasOutlier, BeforeLearning, kernel, telemetry
  <1> QED BY <1>4, <1>5 DEF IInv

\* The periodic guard and an exception leave the step (agent.py:554-570).
LEMMA LeavingIInv == ASSUME IInv, Guard \/ ModelRaises PROVE IInv'
  <1>1. faults \in Nat /\ cycles \in Nat /\ goal \in BOOLEAN /\ mode \in PolicyModes
    BY DEF IInv, TypeOK
  <1>2. CASE Guard
    <2>1. /\ cycles' = cycles + 1 /\ faults' = faults /\ pc' = "idle"
          /\ caller' \in {"none", "run"} /\ local' = NoLocals
          /\ UNCHANGED <<lastNonce, goal, kernel, queue>>
      BY <1>2 DEF Guard, End, Return
    <2> QED BY <1>1, <2>1, LeaveIInv DEF kernel
  <1>3. CASE ModelRaises
    <2>1. /\ cycles' = cycles /\ faults' = faults + 1 /\ pc' = "idle"
          /\ caller' = "none" /\ local' = NoLocals
          /\ UNCHANGED <<lastNonce, goal, kernel, queue>>
      BY <1>3 DEF ModelRaises, Raise, telemetry
    <2> QED BY <1>1, <2>1, LeaveIInv DEF kernel
  <1> QED BY <1>2, <1>3

\* Every step preserves the invariant.
LEMMA NextIInv == IInv /\ [Next]_vars => IInv'
  <1> SUFFICES ASSUME IInv, [Next]_vars PROVE IInv'  OBVIOUS
  <1>1. CASE UNCHANGED vars
    <2>1. TypeOK'
      BY <1>1 DEF vars, kernel, telemetry, control, IInv, TypeOK
    <2> QED BY <1>1, <2>1, SamePlace DEF vars, kernel, telemetry, control, IInv
  <1>2. CASE Next
    BY <1>2, CallerIInv, EnterIInv, PredictIInv, ProposeIInv, DecideIInv, PerformIInv,
       EvaluateIInv, LearnIInv, CheckGoalIInv, SubtasksIInv, LeavingIInv
    DEF Next, Step
  <1> QED BY <1>1, <1>2

\* The invariant holds in every reachable state.
LEMMA AlwaysIInv == Spec => []IInv
  BY InitIInv, NextIInv, PTL DEF Spec

-----------------------------------------------------------------------------
(* The theorems.                                                           *)

\* The queue within its capacity, its tasks distinct, the signal and the monitor
\* well typed, no step past its entry check in HALT.
THEOREM AgentTypeCorrect == Spec => []TypeOK
  <1>1. IInv => TypeOK  BY DEF IInv
  <1> QED BY <1>1, AlwaysIInv, PTL

\* ADR-042: the effect of agent.py:344 is only reached through a proposal and an
\* EXECUTE decision of the same cycle, outside HALT, on quiet evidence.
THEOREM AuthorizedEffects == Spec => []EffectsAreAuthorized
  <1>1. IInv => EffectsAreAuthorized
    BY DEF IInv, TypeOK, Quiet, Progress, EffectsAreAuthorized, BeforeLearning
  <1> QED BY <1>1, AlwaysIInv, PTL

\* With a gate of the repository the agent performs nothing, for every objective,
\* model, configuration and number of runs.
THEOREM ShippedGatesAreInert == Spec => []ShippedGatesNeverExecute
  <1>1. IInv => ShippedGatesNeverExecute  BY DEF IInv, Shipped, ShippedGatesNeverExecute
  <1> QED BY <1>1, AlwaysIInv, PTL

\* What may happen in HALT: the caller's calls, and the entry check turning them away.
LEMMA HaltedSteps ==
  ASSUME IInv, [Next]_vars, mode = "HALT"
  PROVE  /\ UNCHANGED <<mode, signal, drift, cycles>>
         /\ Len(queue') >= Len(queue)
  <1>1. pc \in {"idle", "entry"} /\ Len(queue) \in Nat  BY DEF IInv, TypeOK
  <1>2. CASE Seed
    <2>1. PICK new \in FreshTasks(1) : queue' = queue \o new  BY <1>2 DEF Seed
    <2>2. new \in Seq(TaskIds) /\ Len(new) = 1  BY FreshType
    <2>3. Len(queue') = Len(queue) + Len(new)
      BY <2>1, <2>2, ConcatProperties DEF IInv, TypeOK
    <2>4. UNCHANGED <<mode, signal, drift, cycles>>
      BY <1>2 DEF Seed, kernel, telemetry
    <2> QED BY <1>1, <2>2, <2>3, <2>4
  <1>3. CASE CallStep \/ CallRun \/ RunLoop \/ UNCHANGED vars
    BY <1>1, <1>3 DEF CallStep, CallRun, RunLoop, vars, kernel, telemetry
  <1>4. CASE EnterHalted
    BY <1>1, <1>4 DEF EnterHalted, telemetry
  <1>5. ~EnterEmpty /\ ~EnterTask
    BY EnterFacts DEF EnterEmpty, EnterTask
  <1>6. CASE Predict \/ Propose \/ Decide \/ Perform \/ Evaluate \/ Learn \/ CheckGoal
               \/ GenerateSubtasks \/ SuppressSubtasks \/ Guard \/ ModelRaises
    BY <1>1, <1>6 DEF Predict, Propose, Decide, Perform, Evaluate, Learn, CheckGoal,
                      GenerateSubtasks, SuppressSubtasks, Guard, ModelRaises
  <1> QED BY <1>2, <1>3, <1>4, <1>5, <1>6 DEF Next, Step

\* No step but the entry check touches the mode.
LEMMA ModeSteps ==
  ASSUME IInv, [Next]_vars
  PROVE  mode' = mode \/ (EnterHalted \/ EnterEmpty \/ EnterTask)
  BY DEF Next, Step, Seed, CallStep, CallRun, RunLoop, Predict, Propose, Decide, Perform,
         Evaluate, Learn, CheckGoal, GenerateSubtasks, SuppressSubtasks, Guard,
         ModelRaises, Raise, End, vars, kernel

\* With ladder thresholds of one or more the graduated modes are only ever configured,
\* never reached by escalation (agent.py:145-153, drift.py:154-165).
THEOREM NoGraduatedEscalation ==
  ASSUME LadderStartsAtOne
  PROVE  Spec => []ModeIsConfiguredOrHalt
  <1>1. Init => ModeIsConfiguredOrHalt  BY DEF Init, ModeIsConfiguredOrHalt
  <1>2. ASSUME IInv, ModeIsConfiguredOrHalt, [Next]_vars
        PROVE  ModeIsConfiguredOrHalt'
    <2>1. configured' = configured
      BY <1>2 DEF Next, Step, Seed, CallStep, CallRun, RunLoop, EnterHalted, EnterEmpty,
         EnterTask, Predict, Propose, Decide, Perform, Evaluate, Learn, CheckGoal,
         GenerateSubtasks, SuppressSubtasks, Guard, ModelRaises, Raise, vars, kernel
    <2>2. mode' \in {mode, "HALT"}
      <3>1. CASE EnterHalted \/ EnterEmpty \/ EnterTask
        <4>1. mode' = Escalate(drift, mode)
          BY <3>1 DEF EnterHalted, EnterEmpty, EnterTask
        <4>2. /\ drift.drift_streak \in Nat /\ StreakHasOutlier(drift)
              /\ mode \in PolicyModes
          BY <1>2 DEF IInv, TypeOK, Quiet, DriftRecords
        <4> QED BY <4>1, <4>2, EscalatesToHalt
      <3> QED BY <1>2, <3>1, ModeSteps
    <2> QED BY <1>2, <2>1, <2>2 DEF ModeIsConfiguredOrHalt
  <1> QED BY <1>1, <1>2, AlwaysIInv, PTL DEF Spec

\* Escalation is irreversible and HALT final (agent.py:145-168, ADR-040).
THEOREM HaltFinal == Spec => HaltIsFinal
  <1>1. ASSUME IInv, [Next]_vars PROVE PolicyOrder[mode'] >= PolicyOrder[mode]
    <2>1. mode \in PolicyModes  BY <1>1 DEF IInv, TypeOK
    <2>2. CASE EnterHalted \/ EnterEmpty \/ EnterTask
      BY <1>1, <2>2, EnterFacts DEF EnterHalted, EnterEmpty, EnterTask
    <2>3. CASE mode' = mode  BY <2>1, <2>3 DEF PolicyOrder, PolicyModes
    <2> QED BY <1>1, <2>2, <2>3, ModeSteps
  <1>2. IInv /\ [Next]_vars =>
          [/\ PolicyOrder[mode'] >= PolicyOrder[mode]
           /\ mode = "HALT" => /\ UNCHANGED <<mode, signal, drift, cycles>>
                               /\ Len(queue') >= Len(queue)]_vars
    BY <1>1, HaltedSteps
  <1> QED BY <1>2, AlwaysIInv, PTL DEF Spec, HaltIsFinal

-----------------------------------------------------------------------------
(* The execution boundary.                                                 *)

\* The entry check is Halt, Open or a stutter.
LEMMA EnterRefines ==
  ASSUME IInv, EnterHalted \/ EnterEmpty \/ EnterTask
  PROVE  [Boundary!Next]_(Boundary!vars)
  <1>1. pc = "entry" /\ UNCHANGED <<signal, drift>>
    BY DEF EnterHalted, EnterEmpty, EnterTask
  <1>2. mode = "HALT" => mode' = "HALT"
    BY EnterFacts DEF EnterHalted, EnterEmpty, EnterTask
  <1>3. CASE EnterHalted \/ EnterEmpty
    <2>1. pc' = "idle"  BY <1>3 DEF EnterHalted, EnterEmpty, Return
    <2>2. Phase = "closed" /\ Phase' = "closed"  BY <1>1, <2>1 DEF Phase
    <2> QED BY <1>1, <1>2, <2>2 DEF Boundary!Next, Boundary!Halt, Boundary!vars
  <1>4. CASE EnterTask
    <2>1. pc' = "predict" /\ mode' # "HALT"  BY <1>4 DEF EnterTask
    <2>2. Phase = "closed" /\ Phase' = "open"  BY <1>1, <2>1 DEF Phase
    <2> QED BY <1>1, <1>2, <2>1, <2>2 DEF Boundary!Next, Boundary!Open
  <1> QED BY <1>3, <1>4

\* From the prediction to the critic: advised, then authorized or refused.
LEMMA EffectRefines ==
  ASSUME IInv, Predict \/ Propose \/ Decide \/ Perform \/ Evaluate
  PROVE  [Boundary!Next]_(Boundary!vars)
  <1>1. local \in Locals /\ UNCHANGED kernel
    BY DEF IInv, TypeOK, Predict, Propose, Decide, Perform, Evaluate
  <1>2. UNCHANGED <<signal, drift, mode>>  BY <1>1 DEF kernel
  <1>3. CASE Predict
    BY <1>2, <1>3 DEF Predict, Phase, Boundary!vars
  <1>4. CASE Propose
    <2>1. Phase = "open" /\ Phase' \in {"open", "performed", "refused"}
      BY <1>4 DEF Propose, Phase
    <2>2. Phase' # "performed"
      <3>1. local'.performed = local.performed
        BY <1>1, <1>4 DEF Propose, Locals
      <3>2. ~local.performed  BY <1>4 DEF IInv, Progress, Propose
      <3> QED BY <1>4, <3>1, <3>2 DEF Propose, Phase
    <2> QED BY <1>2, <2>1, <2>2 DEF Boundary!Next, Boundary!Refuse, Boundary!vars
  <1>5. CASE Decide
    <2>1. Phase = "open" /\ Phase' \in {"authorized", "performed", "refused"}
      BY <1>5 DEF Decide, Phase
    <2>2. Phase' # "performed"
      <3>1. local'.performed = local.performed
        BY <1>1, <1>5 DEF Decide, Locals
      <3>2. ~local.performed  BY <1>5 DEF IInv, Progress, Decide
      <3> QED BY <1>5, <3>1, <3>2 DEF Decide, Phase
    <2> QED BY <1>2, <2>1, <2>2 DEF Boundary!Next, Boundary!Refuse, Boundary!Authorize
  <1>6. CASE Perform
    <2>1. Phase = "authorized" /\ Phase' \in {"performed", "refused"}
      BY <1>6 DEF Perform, Phase
    <2> QED BY <1>2, <2>1 DEF Boundary!Next, Boundary!Refuse, Boundary!Perform
  <1>7. CASE Evaluate
    <2>1. local'.performed = local.performed  BY <1>1, <1>7 DEF Evaluate, Locals
    <2>2. Phase' = Phase  BY <1>7, <2>1 DEF Evaluate, Phase
    <2> QED BY <1>2, <2>2 DEF Boundary!vars
  <1> QED BY <1>3, <1>4, <1>5, <1>6, <1>7

\* What is learnt is absorbed once, from a performed effect; the rest of the step
\* settles and closes the cycle, or an exception closes it where it stands.
LEMMA LearnRefines ==
  ASSUME IInv, Learn \/ CheckGoal \/ GenerateSubtasks \/ SuppressSubtasks \/ Guard
               \/ ModelRaises
  PROVE  [Boundary!Next]_(Boundary!vars)
  <1>1. CASE Learn
    <2>1. /\ pc = "learn" /\ pc' \in {"goal", "idle"} /\ mode' = mode
          /\ local.performed \in BOOLEAN
      BY <1>1 DEF Learn, End, Return, IInv, TypeOK, Locals
    <2>2. Phase' \in {"settled", "closed"}  BY <2>1 DEF Phase
    <2>3. CASE local.performed
      <3>1. Phase = "performed"  BY <2>1, <2>3 DEF Phase
      <3> QED BY <2>1, <2>2, <3>1 DEF Boundary!Next, Boundary!Absorb
    <2>4. CASE ~local.performed
      <3>1. Phase = "refused"  BY <2>1, <2>4 DEF Phase
      <3>2. signal'.value = signal.value /\ drift' = drift  BY <1>1, <2>4, LearnFacts
      <3> QED BY <2>1, <2>2, <3>1, <3>2
          DEF Boundary!Next, Boundary!Settle, Boundary!Close
    <2> QED BY <2>1, <2>3, <2>4
  <1>2. CASE CheckGoal \/ GenerateSubtasks \/ SuppressSubtasks \/ Guard \/ ModelRaises
    <2>1. UNCHANGED <<signal, drift, mode>>
      BY <1>2 DEF CheckGoal, GenerateSubtasks, SuppressSubtasks, Guard, ModelRaises,
                  Raise, kernel
    <2>2. \/ Phase = "settled" /\ Phase' \in {"settled", "closed"}
          \/ Phase # "closed" /\ Phase' = "closed"
      <3>1. CASE CheckGoal  BY <3>1 DEF CheckGoal, End, Return, Phase
      <3>2. CASE GenerateSubtasks \/ SuppressSubtasks
        BY <3>2 DEF GenerateSubtasks, SuppressSubtasks, Phase
      <3>3. CASE Guard  BY <3>3 DEF Guard, End, Return, Phase
      <3>4. CASE ModelRaises  BY <3>4 DEF ModelRaises, Raise, Phase
      <3> QED BY <1>2, <3>1, <3>2, <3>3, <3>4
    <2> QED BY <2>1, <2>2 DEF Boundary!Next, Boundary!Close, Boundary!vars
  <1> QED BY <1>1, <1>2

\* Whatever the caller does between two steps is a stutter.
LEMMA CallerRefines ==
  ASSUME IInv, Seed \/ CallStep \/ CallRun \/ RunLoop \/ UNCHANGED vars
  PROVE  UNCHANGED Boundary!vars
  <1>1. UNCHANGED <<signal, drift, mode>>
    BY DEF Seed, CallStep, CallRun, RunLoop, vars, kernel
  <1>2. Phase' = Phase
    BY DEF Seed, CallStep, CallRun, RunLoop, vars, control, Phase
  <1> QED BY <1>1, <1>2 DEF Boundary!vars

\* ADR-042, ADR-021, ADR-040: the agent implements the execution boundary, with any
\* gate, model, caller and configuration.
THEOREM AgentRefinesBoundary == Spec => RefinesBoundary
  <1>1. Init => Boundary!Init
    BY DEF Init, Boundary!Init, Phase
  <1>2. IInv /\ [Next]_vars => [Boundary!Next]_(Boundary!vars)
    BY EnterRefines, EffectRefines, LearnRefines, CallerRefines DEF Next, Step
  <1> QED BY <1>1, <1>2, AlwaysIInv, PTL DEF Spec, RefinesBoundary, Boundary!Spec

-----------------------------------------------------------------------------
(* Cycle accounting.                                                       *)

\* CyclesUpdateOnce, with what the steps between learning and counting know.
Counted ==
    faults = 0 => /\ pc \in {"goal", "subtasks", "guard"} => signal.cycle_id = cycles + 1
                  /\ pc \notin {"goal", "subtasks", "guard"} => signal.cycle_id = cycles
                  /\ pc \in {"idle", "entry"} => lastNonce < cycles

\* A cycle is learnt from before it is counted, and both exactly once.
LEMMA CountedInductive ==
  ASSUME IInv, Counted, [Next]_vars
  PROVE  Counted'
  <1>1. /\ cycles \in Nat /\ faults \in Nat /\ signal.cycle_id \in Nat
        /\ lastNonce \in {-1} \cup 0 .. cycles
    BY DEF IInv, TypeOK, Signals
  <1>2. CASE \/ Seed \/ CallStep \/ CallRun \/ RunLoop \/ UNCHANGED vars
            \/ EnterHalted \/ EnterEmpty \/ EnterTask
    BY <1>1, <1>2 DEF Counted, Seed, CallStep, CallRun, RunLoop, EnterHalted, EnterEmpty,
       EnterTask, Return, vars, kernel, telemetry, control
  <1>3. CASE \/ Predict \/ Propose \/ Decide \/ Perform \/ Evaluate
            \/ GenerateSubtasks \/ SuppressSubtasks
    BY <1>3 DEF Counted, Predict, Propose, Decide, Perform, Evaluate, GenerateSubtasks,
                SuppressSubtasks, kernel, telemetry
  <1>4. CASE Learn
    <2>1. signal'.cycle_id = signal.cycle_id + 1  BY <1>4, LearnFacts
    <2>2. /\ pc = "learn" /\ faults' = faults
          /\ \/ pc' = "idle" /\ cycles' = cycles + 1 /\ lastNonce' = lastNonce
             \/ pc' = "goal" /\ cycles' = cycles
      BY <1>4 DEF Learn, End, Return
    <2> QED BY <1>1, <2>1, <2>2 DEF Counted
  <1>5. CASE CheckGoal \/ Guard
    <2>1. /\ signal' = signal /\ faults' = faults /\ pc \in {"goal", "guard"}
          /\ \/ pc' = "idle" /\ cycles' = cycles + 1 /\ lastNonce' = lastNonce
             \/ pc' = "subtasks" /\ cycles' = cycles
      BY <1>5 DEF CheckGoal, Guard, End, Return, kernel, telemetry
    <2> QED BY <1>1, <2>1 DEF Counted
  <1>6. CASE ModelRaises
    <2>1. faults' # 0  BY <1>1, <1>6 DEF ModelRaises, Raise
    <2> QED BY <2>1 DEF Counted
  <1> QED BY <1>2, <1>3, <1>4, <1>5, <1>6 DEF Next, Step

\* While the model raises nothing, counted cycles and updates of the signal agree
\* and nonces increase (agent.py:184, 232, 412).
THEOREM CyclesAreUpdates == Spec => []CyclesUpdateOnce
  <1>1. Init => Counted
    BY DEF Init, Counted, InitialSignal
  <1>2. Counted => CyclesUpdateOnce  BY DEF Counted, CyclesUpdateOnce
  <1> QED BY <1>1, <1>2, CountedInductive, AlwaysIInv, PTL DEF Spec

-----------------------------------------------------------------------------
(* The breadth decision.                                                   *)

\* Suppression is a matter of ENFORCED mode and a confidence below 0.3.
LEMMA Suppression ==
  ASSUME NEW value \in Int, NEW m \in PolicyModes \ {"HALT"}
  PROVE  ~ShouldExecute(m, RecommendedBreadth(value, m))
            <=> m = "ENFORCED" /\ 10 * value < 3 * SCALE
  <1>1. SCALE \in Nat \ {0}  BY ScaleAssumption
  <1>2. CASE m = "NORMAL"  BY <1>2 DEF ShouldExecute
  <1>3. CASE m = "GUIDED"  BY <1>3 DEF ShouldExecute
  <1>4. CASE m = "ENFORCED"
    BY <1>1, <1>4 DEF ShouldExecute, RecommendedBreadth
  <1> QED BY <1>2, <1>3, <1>4 DEF PolicyModes

Timid == mode = "ENFORCED" /\ 10 * signal.value < 3 * SCALE

\* Up to learning the decision is the one today's confidence gives; after it a
\* suppressed cycle is one whose confidence began below 0.3 and grew by at most 0.35.
DecisionIsFresh ==
    /\ pc \in BeforeLearning \ {"predict"} => (local.suppressed <=> Timid)
    /\ pc = "goal" /\ local.suppressed => 100 * signal.value < 65 * SCALE

\* Only the prediction decides it and only learning can make it stale.
LEMMA DecisionInductive ==
  ASSUME IInv, DecisionIsFresh, [Next]_vars
  PROVE  DecisionIsFresh'
  <1>1. local \in Locals /\ signal \in Signals /\ mode \in PolicyModes
    BY DEF IInv, TypeOK
  <1>2. CASE \/ Seed \/ CallRun \/ UNCHANGED vars
    BY <1>2 DEF Seed, CallRun, kernel, control, vars, DecisionIsFresh, Timid
  <1>3. CASE CallStep \/ RunLoop \/ EnterHalted \/ EnterEmpty
    <2>1. pc' \in {"idle", "entry"}
      BY <1>3 DEF CallStep, RunLoop, EnterHalted, EnterEmpty, Return
    <2> QED BY <2>1 DEF DecisionIsFresh, BeforeLearning
  <1>4. CASE EnterTask
    BY <1>4 DEF EnterTask, DecisionIsFresh, BeforeLearning
  <1>5. CASE Predict
    <2>1. /\ pc = "predict" /\ pc' = "propose" /\ UNCHANGED kernel
          /\ local' = [local EXCEPT !.suppressed =
                          ~ShouldExecute(mode, RecommendedBreadth(signal.value, mode))]
      BY <1>5 DEF Predict
    <2>2. signal.value \in Int /\ mode \in PolicyModes \ {"HALT"}
      BY <1>1, <2>1, ScaleAssumption DEF IInv, TypeOK, Signals
    <2>3. local'.suppressed = ~ShouldExecute(mode, RecommendedBreadth(signal.value, mode))
      BY <1>1, <2>1 DEF Locals
    <2>4. local'.suppressed <=> Timid  BY <2>2, <2>3, Suppression DEF Timid
    <2> QED BY <2>1, <2>4 DEF DecisionIsFresh, Timid, kernel
  <1>6. CASE Propose \/ Decide \/ Perform \/ Evaluate
    <2>1. /\ pc \in BeforeLearning \ {"predict"} /\ pc' \in BeforeLearning
          /\ UNCHANGED kernel
      BY <1>6 DEF Propose, Decide, Perform, Evaluate, BeforeLearning
    <2>2. local'.suppressed = local.suppressed
      BY <1>1, <1>6 DEF Propose, Decide, Perform, Evaluate, Locals
    <2> QED BY <2>1, <2>2 DEF DecisionIsFresh, Timid, kernel, BeforeLearning
  <1>7. CASE Learn
    <2>1. /\ pc = "learn"
          /\ pc' = "idle" \/ (pc' = "goal" /\ UNCHANGED local)
      BY <1>7 DEF Learn, End, Return
    <2>2. ASSUME pc' = "goal", local'.suppressed PROVE 100 * signal'.value < 65 * SCALE
      <3>1. Timid  BY <2>1, <2>2 DEF DecisionIsFresh, BeforeLearning
      <3>2. 10 * signal.value < 3 * SCALE  BY <3>1 DEF Timid
      <3>3. signal'.value <= signal.value + TopDelta /\ signal' \in Signals
        BY <1>7, LearnFacts
      <3>4. SCALE \in Nat \ {0} /\ TopDelta \in Int /\ 100 * TopDelta <= 35 * SCALE
        BY ScaleAssumption DEF TopDelta
      <3>5. signal.value \in Int /\ signal'.value \in Int
        BY <1>1, <3>3, <3>4 DEF Signals
      <3> QED BY <3>2, <3>3, <3>4, <3>5
    <2> QED BY <2>1, <2>2 DEF DecisionIsFresh, BeforeLearning
  <1>8. CASE CheckGoal \/ GenerateSubtasks \/ SuppressSubtasks \/ Guard \/ ModelRaises
    <2>1. pc' \in {"idle", "subtasks", "guard"}
      BY <1>8 DEF CheckGoal, GenerateSubtasks, SuppressSubtasks, Guard, ModelRaises,
                  Raise, End, Return
    <2> QED BY <2>1 DEF DecisionIsFresh, BeforeLearning
  <1> QED BY <1>2, <1>3, <1>4, <1>5, <1>6, <1>7, <1>8 DEF Next, Step

\* At any goal threshold of 0.65 or more (the default is 0.9) the goal predicate
\* never refuses an objective on the strength of a breadth decision that the
\* confidence it reads would not repeat (agent.py:275-302, 484-490).
THEOREM BreadthIsNeverStale ==
  ASSUME 100 * GOAL_THRESHOLD >= 65 * SCALE
  PROVE  Spec => []StaleBreadthIsHarmless
  <1>1. Init => DecisionIsFresh
    BY DEF Init, DecisionIsFresh, BeforeLearning
  <1>2. ASSUME IInv, DecisionIsFresh PROVE StaleBreadthIsHarmless
    <2> SUFFICES ASSUME pc = "goal", signal.value >= GOAL_THRESHOLD
                 PROVE  local.suppressed =
                           ~ShouldExecute(mode, RecommendedBreadth(signal.value, mode))
      BY DEF StaleBreadthIsHarmless
    <2>1. /\ signal.value \in Int /\ mode \in PolicyModes \ {"HALT"}
          /\ local.suppressed \in BOOLEAN
      BY <1>2, ScaleAssumption DEF IInv, TypeOK, Signals, Locals
    <2>2. 100 * signal.value >= 65 * SCALE /\ SCALE \in Nat \ {0}
      BY <2>1, AgentAssumption, ScaleAssumption
    <2>3. ~local.suppressed  BY <1>2, <2>1, <2>2 DEF DecisionIsFresh
    <2>4. ~(10 * signal.value < 3 * SCALE)  BY <2>1, <2>2
    <2>5. ShouldExecute(mode, RecommendedBreadth(signal.value, mode))
      BY <2>1, <2>4, Suppression
    <2> QED BY <2>1, <2>3, <2>5
  <1> QED BY <1>1, <1>2, DecisionInductive, AlwaysIInv, PTL DEF Spec
-----------------------------------------------------------------------------
(* The agent's monitor and signal.                                         *)

\* The operators of the instances are those of the agent: nothing they read is
\* substituted.
LEMMA MonitorOperators ==
  /\ \A d, m : Monitor!Escalate(d, m) = Escalate(d, m)
  /\ \A d, error, numeric, success :
        Monitor!RecordCycle(d, error, numeric, success) = RecordCycle(d, error, numeric, success)
  <1>1. ASSUME NEW d, NEW m PROVE Monitor!Escalate(d, m) = Escalate(d, m)
    BY DEF Escalate, GetPolicyMode, Severe, PolicyOrder,
           Monitor!Escalate, Monitor!GetPolicyMode, Monitor!Severe, Monitor!PolicyOrder
  <1>2. ASSUME NEW s PROVE Monitor!SumFunction(s) = SumFunction(s)
    BY DEF SumFunction, SumFunctionOnSet, FoldFunctionOnSet, MapThenFoldSet,
           Monitor!SumFunction, Monitor!SumFunctionOnSet, Monitor!FoldFunctionOnSet,
           Monitor!MapThenFoldSet
  <1>3. ASSUME NEW s PROVE Monitor!ZClasses(s) = ZClasses(s)
    BY <1>2 DEF ZClasses, Squares, Monitor!ZClasses, Monitor!Squares
  <1>4. ASSUME NEW d, NEW error PROVE Monitor!RecordError(d, error) = RecordError(d, error)
    BY <1>3 DEF RecordError, LastSamples, Monitor!RecordError, Monitor!LastSamples
  <1>5. ASSUME NEW d, NEW error, NEW numeric, NEW success
        PROVE  Monitor!RecordCycle(d, error, numeric, success)
                  = RecordCycle(d, error, numeric, success)
    BY <1>4 DEF RecordCycle, RecordFeasibility, RegisterDrift, ClearStreak,
                Monitor!RecordCycle, Monitor!RecordFeasibility, Monitor!RegisterDrift,
                Monitor!ClearStreak
  <1> QED BY <1>1, <1>5

\* So are those of the signal.
LEMMA SignalOperators ==
  ASSUME NEW s, NEW o
  PROVE  /\ Signal!UpdateSignal(s, o) = UpdateSignal(s, o)
         /\ Signal!ValidOutcome(o) <=> ValidOutcome(o)
         /\ Signal!InitialSignal = InitialSignal
  <1>1. Signal!UpdateSignal(s, o) = UpdateSignal(s, o)
    BY DEF UpdateSignal, ConsumeWindow, NoUpdateCategories, ApplyEvidence, Smooth,
           GatedClamp, RawDelta, Clamp01, PartialRawDelta, EffectiveClass, BaseClass,
           Signal!UpdateSignal, Signal!ConsumeWindow, Signal!NoUpdateCategories,
           Signal!ApplyEvidence, Signal!Smooth, Signal!GatedClamp, Signal!RawDelta,
           Signal!Clamp01, Signal!PartialRawDelta, Signal!EffectiveClass, Signal!BaseClass
  <1>2. Signal!ValidOutcome(o) <=> ValidOutcome(o)
    BY DEF ValidOutcome, Signal!ValidOutcome
  <1>3. Signal!InitialSignal = InitialSignal
    BY DEF InitialSignal, Signal!InitialSignal
  <1> QED BY <1>1, <1>2, <1>3

\* Severities the agent may hand on are severities.
LEMMA SeveritiesType == Severities \subseteq 0 .. SCALE
  <1>1. \A o \in CriticOutcomes : o.severity \in 0 .. SCALE
    BY ConsensusFacts DEF ValidOutcome
  <1> QED BY <1>1, ScaleAssumption DEF Severities

AfterLearning == {"goal", "subtasks", "guard"}

\* How often the signal can have been updated, and the monitor no oftener; and what
\* the next update may be given.
Budgeted ==
    /\ faults <= MAX_FAULTS
    /\ pc # "idle" => cycles < MAX_CYCLES + MAX_ITERATIONS
    /\ pc \in AfterLearning => signal.cycle_id <= cycles + faults + 1
    /\ pc \notin AfterLearning => signal.cycle_id <= cycles + faults
    /\ drift.numeric <= signal.cycle_id
    /\ pc = "learn" => local.outcome.severity \in Severities

\* A recorded cycle adds at most one sample of feasibility, as the update adds one
\* to the signal's count.
LEMMA LearnCounts ==
  ASSUME IInv, Learn
  PROVE  /\ signal'.cycle_id = signal.cycle_id + 1
         /\ drift'.numeric \in Nat /\ drift'.numeric <= drift.numeric + 1
  <1>1. drift \in DriftRecords(0 .. SCALE) /\ drift.numeric \in Nat
    BY DEF IInv, TypeOK, DriftRecords
  <1>2. signal'.cycle_id = signal.cycle_id + 1  BY LearnFacts
  <1>3. CASE local.outcome.category \in NoUpdateCategories
    BY <1>1, <1>2, <1>3 DEF Learn
  <1>4. CASE local.outcome.category \notin NoUpdateCategories
    <2> DEFINE errors == 0 .. SCALE
    <2> HIDE DEF errors
    <2>1. PICK numeric \in BOOLEAN :
             drift' \in RecordCycle(drift, local.outcome.severity, numeric, Success)
      BY <1>4 DEF Learn
    <2>2. local.outcome.severity \in 0 .. SCALE
      <3>1. local \in Locals  BY DEF IInv, TypeOK
      <3> QED BY <3>1 DEF Locals
    <2>3. Success \in BOOLEAN  BY DEF Success
    <2>4. ASSUME NEW success \in BOOLEAN,
                 NEW d \in RecordCycle(drift, local.outcome.severity, numeric, success)
          PROVE  d.numeric = drift.numeric + (IF numeric THEN 1 ELSE 0)
      <3>1. drift \in DriftRecords(errors) /\ local.outcome.severity \in errors
        BY <1>1, <2>2 DEF errors
      <3> QED BY <2>1, <2>4, <3>1, RecordCycleFacts
    <2> QED BY <1>1, <1>2, <2>1, <2>3, <2>4
  <1> QED BY <1>3, <1>4

\* A cycle that learns is counted, or paid for with an exception.
LEMMA BudgetedInductive ==
  ASSUME IInv, Budgeted, [Next]_vars
  PROVE  Budgeted'
  <1>1. /\ cycles \in Nat /\ faults \in Nat /\ signal.cycle_id \in Nat
        /\ drift.numeric \in Nat /\ local \in Locals
        /\ MAX_CYCLES \in Nat /\ MAX_ITERATIONS \in Nat /\ MAX_FAULTS \in Nat
    BY AgentAssumption DEF IInv, TypeOK, Signals, DriftRecords
  <1>2. CASE \/ Seed \/ CallStep \/ CallRun \/ RunLoop \/ UNCHANGED vars
            \/ EnterHalted \/ EnterEmpty \/ EnterTask
    BY <1>1, <1>2 DEF Budgeted, AfterLearning, Seed, CallStep, CallRun, RunLoop,
       EnterHalted, EnterEmpty, EnterTask, Return, vars, kernel, telemetry, control
  <1>3. CASE \/ Predict \/ Propose \/ Decide \/ Perform
            \/ GenerateSubtasks \/ SuppressSubtasks
    BY <1>3 DEF Budgeted, AfterLearning, Predict, Propose, Decide, Perform,
                GenerateSubtasks, SuppressSubtasks, kernel, telemetry
  <1>4. CASE Evaluate
    <2>1. PICK o \in IF local.performed THEN CriticOutcomes
                      ELSE {RefusalOutcome(local.proposed)} :
             local' = [local EXCEPT !.outcome = o]
      BY <1>4 DEF Evaluate
    <2>2. local'.outcome = o  BY <1>1, <2>1 DEF Locals
    <2>3. o.severity \in Severities
      <3>1. RefusalOutcome(local.proposed).severity = 0  BY DEF RefusalOutcome
      <3> QED BY <2>1, <3>1 DEF Severities
    <2> QED BY <1>4, <2>2, <2>3 DEF Budgeted, AfterLearning, Evaluate, kernel, telemetry
  <1>5. CASE Learn
    <2>1. /\ signal'.cycle_id = signal.cycle_id + 1
          /\ drift'.numeric \in Nat /\ drift'.numeric <= drift.numeric + 1
      BY <1>5, LearnCounts
    <2>2. /\ pc = "learn" /\ faults' = faults
          /\ \/ pc' = "idle" /\ cycles' = cycles + 1
             \/ pc' = "goal" /\ cycles' = cycles
      BY <1>5 DEF Learn, End, Return
    <2> QED BY <1>1, <2>1, <2>2 DEF Budgeted, AfterLearning
  <1>6. CASE CheckGoal \/ Guard
    <2>1. /\ UNCHANGED <<signal, drift, faults>> /\ pc \in {"goal", "guard"}
          /\ \/ pc' = "idle" /\ cycles' = cycles + 1
             \/ pc' = "subtasks" /\ cycles' = cycles
      BY <1>6 DEF CheckGoal, Guard, End, Return, kernel, telemetry
    <2> QED BY <1>1, <2>1 DEF Budgeted, AfterLearning
  <1>7. CASE ModelRaises
    <2>1. /\ UNCHANGED <<signal, drift, cycles>> /\ pc' = "idle"
          /\ faults' = faults + 1 /\ faults < MAX_FAULTS
      BY <1>7 DEF ModelRaises, Raise, kernel, telemetry
    <2> QED BY <1>1, <2>1 DEF Budgeted, AfterLearning
  <1> QED BY <1>2, <1>3, <1>4, <1>5, <1>6, <1>7 DEF Next, Step

\* It holds in every reachable state.
LEMMA AlwaysBudgeted == Spec => [](IInv /\ Budgeted)
  <1>1. Init => Budgeted
    BY AgentAssumption DEF Init, Budgeted, AfterLearning, InitialSignal, InitialDrift
  <1> QED BY <1>1, BudgetedInductive, AlwaysIInv, PTL DEF Spec

\* What is learnt is a valid outcome, and there is room for it.
LEMMA NextUpdate ==
  ASSUME IInv, Budgeted, Learn
  PROVE  /\ local.outcome \in Signal!Outcomes(Severities)
         /\ ValidOutcome(local.outcome)
         /\ local.outcome.severity \in Severities
         /\ signal.cycle_id < MaxUpdates /\ drift.numeric < MaxUpdates
  <1>1. /\ cycles \in Nat /\ faults \in Nat /\ signal.cycle_id \in Nat
        /\ drift.numeric \in Nat
        /\ MAX_CYCLES \in Nat /\ MAX_ITERATIONS \in Nat /\ MAX_FAULTS \in Nat
    BY AgentAssumption DEF IInv, TypeOK, Signals, DriftRecords
  <1>2. pc = "learn" /\ local \in Locals  BY DEF Learn, IInv, TypeOK
  <1>3. ValidOutcome(local.outcome) /\ local.outcome.category \in Categories
    <2>1. Progress  BY DEF IInv
    <2> QED BY <1>2, <2>1, Zenon DEF Progress
  <1>4. local.outcome.severity \in Severities  BY <1>2 DEF Budgeted
  <1>5. local.outcome \in Signal!Outcomes(Severities)
    BY <1>2, <1>3, <1>4
    DEF Locals, Signal!Outcomes, Categories, ConflictKinds, Signal!Categories,
        Signal!ConflictKinds
  <1>6. signal.cycle_id < MaxUpdates /\ drift.numeric < MaxUpdates
    BY <1>1, <1>2 DEF Budgeted, AfterLearning, MaxUpdates
  <1> QED BY <1>3, <1>4, <1>5, <1>6

\* Every step of the agent is an entry check, a record, a cycle without one, or
\* nothing to the monitor.
LEMMA MonitorSteps ==
  ASSUME IInv, Budgeted, [Next]_vars
  PROVE  [Monitor!Next]_(Monitor!vars)
  <1>1. CASE Seed \/ CallStep \/ CallRun \/ RunLoop \/ UNCHANGED vars
    <2>1. UNCHANGED <<drift, configured, mode>>
      BY <1>1 DEF Seed, CallStep, CallRun, RunLoop, vars, kernel
    <2>2. Recording' = Recording
      BY <1>1 DEF Seed, CallStep, CallRun, RunLoop, vars, control, Recording
    <2> QED BY <2>1, <2>2 DEF Monitor!vars
  <1>2. CASE EnterHalted \/ EnterEmpty \/ EnterTask
    <2>1. /\ pc = "entry" /\ UNCHANGED <<drift, configured>>
          /\ mode' = Monitor!Escalate(drift, mode)
      BY <1>2, MonitorOperators DEF EnterHalted, EnterEmpty, EnterTask
    <2>2. ~Recording  BY <2>1 DEF Recording
    <2>3. CASE EnterHalted
      <3>1. mode' = "HALT"  BY <2>3 DEF EnterHalted
      <3>2. Recording' = FALSE  BY <2>3 DEF EnterHalted, Return, Recording
      <3>3. Monitor!StepEntry  BY <2>1, <2>2, <3>1, <3>2 DEF Monitor!StepEntry
      <3> QED BY <3>3 DEF Monitor!Next
    <2>4. CASE EnterEmpty \/ EnterTask
      <3>1. mode' # "HALT"  BY <2>4 DEF EnterEmpty, EnterTask
      <3>2. Recording' \in (IF mode' = "HALT" THEN {FALSE} ELSE BOOLEAN)
        BY <3>1 DEF Recording
      <3>3. Monitor!StepEntry  BY <2>1, <2>2, <3>2 DEF Monitor!StepEntry
      <3> QED BY <3>3 DEF Monitor!Next
    <2> QED BY <1>2, <2>3, <2>4
  <1>3. CASE Predict \/ Propose \/ Decide \/ Perform \/ Evaluate
    <2>1. UNCHANGED <<drift, configured, mode>>
      BY <1>3 DEF Predict, Propose, Decide, Perform, Evaluate, kernel
    <2>2. Recording' = Recording
      BY <1>3 DEF Predict, Propose, Decide, Perform, Evaluate, Recording
    <2> QED BY <2>1, <2>2 DEF Monitor!vars
  <1>4. CASE Learn
    <2>1. /\ Recording /\ Recording' = FALSE /\ UNCHANGED <<configured, mode>>
      BY <1>4 DEF Learn, End, Return, Recording
    <2>2. CASE local.outcome.category \in NoUpdateCategories
      <3>1. drift' = drift  BY <1>4, <2>2 DEF Learn
      <3> QED BY <2>1, <3>1 DEF Monitor!Next, Monitor!SkipRecording
    <2>3. CASE local.outcome.category \notin NoUpdateCategories
      <3>1. PICK numeric \in BOOLEAN :
               drift' \in RecordCycle(drift, local.outcome.severity, numeric, Success)
        BY <1>4, <2>3 DEF Learn
      <3>2. local.outcome.severity \in Severities /\ drift.numeric < MaxUpdates
        BY <1>4, NextUpdate
      <3>3. Success \in BOOLEAN  BY DEF Success
      <3>4. Monitor!Record(local.outcome.severity, numeric, Success)
        BY <2>1, <3>1, <3>2, MonitorOperators DEF Monitor!Record
      <3> QED BY <3>2, <3>3, <3>4 DEF Monitor!Next
    <2> QED BY <2>2, <2>3
  <1>5. CASE CheckGoal \/ GenerateSubtasks \/ SuppressSubtasks \/ Guard \/ ModelRaises
    <2>1. UNCHANGED <<drift, configured, mode>>
      BY <1>5 DEF CheckGoal, GenerateSubtasks, SuppressSubtasks, Guard, ModelRaises,
                  Raise, kernel
    <2>2. Recording' = FALSE
      BY <1>5 DEF CheckGoal, GenerateSubtasks, SuppressSubtasks, Guard, ModelRaises,
                  Raise, End, Return, Recording
    <2>3. CASE Recording  BY <2>1, <2>2, <2>3 DEF Monitor!Next, Monitor!SkipRecording
    <2>4. CASE ~Recording
      <3>1. Recording' = Recording  BY <2>2, <2>4 DEF Recording
      <3> QED BY <2>1, <3>1 DEF Monitor!vars
    <2> QED BY <2>3, <2>4
  <1> QED BY <1>1, <1>2, <1>3, <1>4, <1>5 DEF Next, Step

\* The agent drives its monitor as DriftMonitor does: one entry check, at most one
\* record, the next check (agent.py:145-168, 436-443), whatever leaves the step.
THEOREM AgentRefinesMonitor == Spec => RefinesMonitor
  <1>1. ASSUME Init PROVE Monitor!Init
    <2>1. Recording = FALSE  BY <1>1 DEF Init, Recording
    <2>2. Monitor!InitialDrift = InitialDrift /\ Monitor!PolicyModes = PolicyModes
      BY DEF InitialDrift, PolicyModes, Monitor!InitialDrift, Monitor!PolicyModes
    <2> QED BY <1>1, <2>1, <2>2, AgentAssumption DEF Init, Monitor!Init
  <1>2. IInv /\ Budgeted /\ [Next]_vars => [Monitor!Next]_(Monitor!vars)
    BY MonitorSteps
  <1> QED BY <1>1, <1>2, AlwaysBudgeted, PTL DEF Spec, RefinesMonitor, Monitor!Spec

\* Only learning moves the signal.
LEMMA SignalSteps ==
  ASSUME IInv, Budgeted, [Next]_vars
  PROVE  [Signal!Next]_(Signal!vars)
  <1>1. CASE Learn
    <2>1. /\ local.outcome \in Signal!Outcomes(Severities)
          /\ Signal!ValidOutcome(local.outcome)
          /\ signal.cycle_id < MaxUpdates
      BY <1>1, NextUpdate, SignalOperators
    <2>2. signal' = Signal!UpdateSignal(signal, local.outcome)
      BY <1>1, SignalOperators DEF Learn
    <2>3. UNCHANGED InitialSignal  BY DEF InitialSignal
    <2>4. Signal!Update(local.outcome)  BY <2>1, <2>2, <2>3 DEF Signal!Update
    <2> QED BY <2>1, <2>4 DEF Signal!Next
  <1>2. CASE ~Learn
    <2>1. signal' = signal
      BY <1>2 DEF Next, Step, Seed, CallStep, CallRun, RunLoop, EnterHalted, EnterEmpty,
         EnterTask, Predict, Propose, Decide, Perform, Evaluate, CheckGoal,
         GenerateSubtasks, SuppressSubtasks, Guard, ModelRaises, Raise, vars, kernel
    <2>2. UNCHANGED InitialSignal  BY DEF InitialSignal
    <2> QED BY <2>1, <2>2 DEF Signal!vars
  <1> QED BY <1>1, <1>2

\* All that moves the agent's signal is update() with an outcome it accepts
\* (agent.py:413, confidence.py:170-179).
THEOREM AgentRefinesSignal == Spec => RefinesSignal
  <1>1. Init => Signal!Init
    BY SignalOperators DEF Init, Signal!Init
  <1>2. IInv /\ Budgeted /\ [Next]_vars => [Signal!Next]_(Signal!vars)
    BY SignalSteps
  <1> QED BY <1>1, <1>2, AlwaysBudgeted, PTL DEF Spec, RefinesSignal, Signal!Spec
-----------------------------------------------------------------------------
(* What the two machines promise, promised of the agent's.                 *)

MonitorTheorems == INSTANCE DriftProofs WITH
                       inCycle <- Recording,
                       ERRORS <- Severities,
                       MAX_NUMERIC <- MaxUpdates

SignalTheorems == INSTANCE ConfidenceProofs WITH
                      replaying <- FALSE, saved <- InitialSignal, raised <- FALSE,
                      SEVERITIES <- Severities,
                      MAX_CYCLES <- MaxUpdates

\* The machine the theorems are about is the one the agent implements.
LEMMA SameMonitor == RefinesMonitor => MonitorTheorems!Spec
  <1>1. ASSUME NEW d, NEW m PROVE MonitorTheorems!Escalate(d, m) = Monitor!Escalate(d, m)
    BY DEF Monitor!Escalate, Monitor!GetPolicyMode, Monitor!Severe, Monitor!PolicyOrder,
           MonitorTheorems!Escalate, MonitorTheorems!GetPolicyMode,
           MonitorTheorems!Severe, MonitorTheorems!PolicyOrder
  <1>2. ASSUME NEW s PROVE MonitorTheorems!SumFunction(s) = Monitor!SumFunction(s)
    BY DEF Monitor!SumFunction, Monitor!SumFunctionOnSet, Monitor!FoldFunctionOnSet,
           Monitor!MapThenFoldSet, MonitorTheorems!SumFunction,
           MonitorTheorems!SumFunctionOnSet, MonitorTheorems!FoldFunctionOnSet,
           MonitorTheorems!MapThenFoldSet
  <1>3. ASSUME NEW s PROVE MonitorTheorems!ZClasses(s) = Monitor!ZClasses(s)
    BY <1>2 DEF Monitor!ZClasses, Monitor!Squares, MonitorTheorems!ZClasses,
                MonitorTheorems!Squares
  <1>4. ASSUME NEW d, NEW error
        PROVE  MonitorTheorems!RecordError(d, error) = Monitor!RecordError(d, error)
    BY <1>3 DEF Monitor!RecordError, Monitor!LastSamples, MonitorTheorems!RecordError,
                MonitorTheorems!LastSamples
  <1>5. ASSUME NEW d, NEW error, NEW numeric, NEW success
        PROVE  MonitorTheorems!RecordCycle(d, error, numeric, success)
                  = Monitor!RecordCycle(d, error, numeric, success)
    BY <1>4 DEF Monitor!RecordCycle, Monitor!RecordFeasibility, Monitor!RegisterDrift,
                Monitor!ClearStreak, MonitorTheorems!RecordCycle,
                MonitorTheorems!RecordFeasibility, MonitorTheorems!RegisterDrift,
                MonitorTheorems!ClearStreak
  <1>6. Monitor!Init => MonitorTheorems!Init
    BY DEF Monitor!Init, Monitor!InitialDrift, Monitor!PolicyModes, MonitorTheorems!Init,
           MonitorTheorems!InitialDrift, MonitorTheorems!PolicyModes
  <1>7. [Monitor!Next]_(Monitor!vars) => [MonitorTheorems!Next]_(MonitorTheorems!vars)
    <2>1. Monitor!StepEntry => MonitorTheorems!StepEntry
      BY <1>1 DEF Monitor!StepEntry, MonitorTheorems!StepEntry
    <2>2. Monitor!SkipRecording => MonitorTheorems!SkipRecording
      BY DEF Monitor!SkipRecording, MonitorTheorems!SkipRecording
    <2>3. ASSUME NEW error, NEW numeric, NEW success, Monitor!Record(error, numeric, success)
          PROVE  MonitorTheorems!Record(error, numeric, success)
      BY <1>5, <2>3 DEF Monitor!Record, MonitorTheorems!Record
    <2>4. CASE Monitor!Next
      <3>1. CASE Monitor!StepEntry \/ Monitor!SkipRecording
        BY <2>1, <2>2, <3>1 DEF MonitorTheorems!Next
      <3>2. CASE \E error \in Severities, numeric, success \in BOOLEAN :
                    Monitor!Record(error, numeric, success)
        BY <2>3, <3>2 DEF MonitorTheorems!Next
      <3> QED BY <2>4, <3>1, <3>2 DEF Monitor!Next
    <2>5. UNCHANGED (Monitor!vars) => UNCHANGED (MonitorTheorems!vars)
      BY DEF Monitor!vars, MonitorTheorems!vars
    <2> QED BY <2>4, <2>5
  <1> QED BY <1>6, <1>7, PTL DEF RefinesMonitor, Monitor!Spec, MonitorTheorems!Spec

\* A second drift event is never registered, and nothing is recorded on evidence the
\* entry check would have halted on (drift.py:116-166, agent.py:145-168, 436-456).
THEOREM AgentRecordsOnQuietEvidence ==
  Spec => []Monitor!AtMostOneDriftEvent /\ Monitor!NoCycleOnSevereEvidence
  <1>1. Severities \subseteq Nat  BY SeveritiesType, ScaleAssumption
  <1>2. MonitorTheorems!Spec => []MonitorTheorems!AtMostOneDriftEvent
    BY <1>1, DriftAssumption, MonitorTheorems!OneDriftEvent
  <1>3. MonitorTheorems!Spec => MonitorTheorems!NoCycleOnSevereEvidence
    BY <1>1, DriftAssumption, MonitorTheorems!RecordsOnQuietEvidence
  <1>4. MonitorTheorems!AtMostOneDriftEvent => Monitor!AtMostOneDriftEvent
    BY DEF MonitorTheorems!AtMostOneDriftEvent, Monitor!AtMostOneDriftEvent
  <1>5. [drift' # drift => /\ ~MonitorTheorems!Severe(drift)
                           /\ drift.last_error_z = "below"]_(MonitorTheorems!vars)
          => [drift' # drift => /\ ~Monitor!Severe(drift)
                                /\ drift.last_error_z = "below"]_(Monitor!vars)
    BY DEF MonitorTheorems!vars, Monitor!vars, MonitorTheorems!Severe, Monitor!Severe
  <1> QED BY <1>2, <1>3, <1>4, <1>5, SameMonitor, AgentRefinesMonitor, PTL
          DEF MonitorTheorems!NoCycleOnSevereEvidence, Monitor!NoCycleOnSevereEvidence

\* At a threshold t with t^2 >= WARMUP - 1, as the default, the agent halts on an
\* outlier only after WARMUP - 1 equal severities and one that differs (drift.py:67-75).
THEOREM AgentHaltsOnLoneErrors ==
  ASSUME Z_SQUARE >= (WARMUP - 1) * Z_UNIT
  PROVE  Spec => []Monitor!OnlyLoneOutliers
  <1>1. Severities \subseteq Nat  BY SeveritiesType, ScaleAssumption
  <1>2. MonitorTheorems!Spec => []MonitorTheorems!OnlyLoneOutliers
    BY <1>1, DriftAssumption, MonitorTheorems!OutliersAreLoneErrors
  <1>3. MonitorTheorems!OnlyLoneOutliers => Monitor!OnlyLoneOutliers
    BY DEF MonitorTheorems!OnlyLoneOutliers, Monitor!OnlyLoneOutliers
  <1> QED BY <1>2, <1>3, SameMonitor, AgentRefinesMonitor, PTL

\* The signal the theorems are about is the one the agent implements.
LEMMA SameSignal == RefinesSignal => SignalTheorems!Spec
  <1>1. ASSUME NEW s, NEW o
        PROVE  SignalTheorems!UpdateSignal(s, o) = Signal!UpdateSignal(s, o)
    BY DEF SignalTheorems!UpdateSignal, SignalTheorems!ConsumeWindow,
           SignalTheorems!NoUpdateCategories, SignalTheorems!ApplyEvidence,
           SignalTheorems!Smooth, SignalTheorems!GatedClamp, SignalTheorems!RawDelta,
           SignalTheorems!Clamp01, SignalTheorems!PartialRawDelta,
           SignalTheorems!EffectiveClass, SignalTheorems!BaseClass,
           Signal!UpdateSignal, Signal!ConsumeWindow, Signal!NoUpdateCategories,
           Signal!ApplyEvidence, Signal!Smooth, Signal!GatedClamp, Signal!RawDelta,
           Signal!Clamp01, Signal!PartialRawDelta, Signal!EffectiveClass, Signal!BaseClass
  <1>2. ASSUME NEW o
        PROVE  /\ Signal!ValidOutcome(o) <=> SignalTheorems!ValidOutcome(o)
               /\ Signal!Outcomes(Severities) = SignalTheorems!Outcomes(Severities)
    BY DEF Signal!ValidOutcome, SignalTheorems!ValidOutcome, Signal!Outcomes,
           SignalTheorems!Outcomes, Signal!Categories, SignalTheorems!Categories,
           Signal!ConflictKinds, SignalTheorems!ConflictKinds
  <1>3. Signal!Init => SignalTheorems!Init
    BY DEF Signal!Init, SignalTheorems!Init, Signal!InitialSignal,
           SignalTheorems!InitialSignal
  <1>4. [Signal!Next]_(Signal!vars) => [SignalTheorems!Next]_(SignalTheorems!vars)
    <2>1. ASSUME NEW o, Signal!Update(o) PROVE SignalTheorems!Update(o)
      BY <1>1, <1>2, <2>1 DEF Signal!Update, SignalTheorems!Update
    <2>2. ASSUME NEW o, Signal!UpdateRaises(o) PROVE SignalTheorems!UpdateRaises(o)
      BY <1>2, <2>2 DEF Signal!UpdateRaises, SignalTheorems!UpdateRaises,
         Signal!InitialSignal, SignalTheorems!InitialSignal
    <2>3. /\ Signal!ReplayBegin => SignalTheorems!ReplayBegin
          /\ Signal!ReplayEnd => SignalTheorems!ReplayEnd
      BY DEF Signal!ReplayBegin, Signal!ReplayEnd, SignalTheorems!ReplayBegin,
             SignalTheorems!ReplayEnd
    <2>4. CASE Signal!Next
      <3>1. CASE \E o \in Signal!Outcomes(Severities) :
                    Signal!Update(o) \/ Signal!UpdateRaises(o)
        BY <1>2, <2>1, <2>2, <3>1 DEF SignalTheorems!Next
      <3>2. CASE Signal!ReplayBegin \/ Signal!ReplayEnd
        BY <2>3, <3>2 DEF SignalTheorems!Next
      <3> QED BY <2>4, <3>1, <3>2 DEF Signal!Next
    <2>5. UNCHANGED (Signal!vars) => UNCHANGED (SignalTheorems!vars)
      BY DEF Signal!vars, SignalTheorems!vars
    <2> QED BY <2>4, <2>5
  <1> QED BY <1>3, <1>4, PTL DEF RefinesSignal, Signal!Spec, SignalTheorems!Spec

\* ADR-023 in the agent: in the cycle after a failure its confidence does not rise,
\* whatever the queue, the gate and the caller do in between (confidence.py:126, 243-263).
THEOREM AgentWindowBlocksRise == Spec => Signal!WindowBlocksRise
  <1>1. Severities \subseteq Int  BY SeveritiesType, ScaleAssumption
  <1>2. SignalTheorems!Spec => SignalTheorems!WindowBlocksRise
    BY <1>1, ScaleAssumption, AlphaAssumption, SignalTheorems!WindowBlocks
  <1>3. [SignalTheorems!Updates /\ signal.last_outcome_was_failure
            => signal'.value <= signal.value]_(SignalTheorems!vars)
          => [Signal!Updates /\ signal.last_outcome_was_failure
                => signal'.value <= signal.value]_(Signal!vars)
    BY DEF SignalTheorems!vars, Signal!vars, SignalTheorems!Updates, Signal!Updates
  <1> QED BY <1>2, <1>3, SameSignal, AgentRefinesSignal, PTL
          DEF SignalTheorems!WindowBlocksRise, Signal!WindowBlocksRise

\* At the default smoothing factor or a smaller one and a goal threshold of 0.90 or
\* more, no goal is declared satisfied before the third cycle learnt from
\* (agent.py:484-490, confidence.py:253-260).
THEOREM GoalTakesThreeCycles ==
  ASSUME 10 * ALPHA_NUM <= 3 * ALPHA_DEN, 10 * GOAL_THRESHOLD >= 9 * SCALE
  PROVE  Spec => [](GoalSatisfied => signal.cycle_id >= 3)
  <1>1. Severities \subseteq Int  BY SeveritiesType, ScaleAssumption
  <1>2. SignalTheorems!Spec => []SignalTheorems!HighConfidenceIsEarned
    BY <1>1, ScaleAssumption, AlphaAssumption, SignalTheorems!ConfidenceIsEarned
  <1>3. SignalTheorems!HighConfidenceIsEarned /\ IInv
          => (GoalSatisfied => signal.cycle_id >= 3)
    BY ScaleAssumption, AgentAssumption
    DEF SignalTheorems!HighConfidenceIsEarned, GoalSatisfied, IInv, TypeOK, Signals
  <1> QED BY <1>2, <1>3, SameSignal, AgentRefinesSignal, AlwaysIInv, PTL
=============================================================================
