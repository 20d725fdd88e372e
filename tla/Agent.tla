-------------------------------- MODULE Agent --------------------------------
(***************************************************************************)
(* ECKAgent of src/eck/agent.py with the components it owns: the task      *)
(* queue, the confidence signal, the drift monitor and the policy gate.    *)
(*                                                                         *)
(* The kernel is one thread.  What is not under its control is the caller  *)
(* (seed, step, run, in any order), the language model (any answer, or an  *)
(* exception, at every call) and an injected gate (any decision).  A step  *)
(* is cut at its model calls, where it can be left by an exception, and at *)
(* its early returns; the action that raises leaves everything done so far *)
(* as it is.                                                               *)
(***************************************************************************)
EXTENDS Critic, PolicyGate, Drift, FiniteSets

CONSTANTS CONFIGURED_MODES,   \* values of config.policy_mode
          GATES,              \* gates the agent may be built with
          MAX_QUEUE_SIZE,
          MAX_ITERATIONS,
          GUARD_INTERVAL,
          GOAL_THRESHOLD,     \* goal_completion_threshold, in units
          MAX_SUBTASKS,       \* 5 in the code
          MAX_CYCLES,         \* bound: cycles begun by direct calls of step()
          MAX_FAULTS          \* bound: exceptions that leave a step

ASSUME AgentAssumption ==
    /\ CONFIGURED_MODES \subseteq PolicyModes
    /\ GATES \subseteq {"default", "demo", "custom"}
    /\ MAX_QUEUE_SIZE \in Nat \ {0} /\ MAX_ITERATIONS \in Nat
    /\ GUARD_INTERVAL \in Nat \ {0} /\ GOAL_THRESHOLD \in 0 .. SCALE
    /\ MAX_SUBTASKS \in Nat /\ MAX_CYCLES \in Nat /\ MAX_FAULTS \in Nat

VARIABLES configured,  \* config.policy_mode at construction
          gate,        \* _policy_gate
          mode,        \* current_policy_mode, and config.policy_mode of agent and drift
          signal,      \* _confidence
          drift,       \* drift
          queue,       \* queue: the tasks in it, oldest first
          cycles,      \* cycles
          pc,          \* where step() is; "idle" when no step is on the stack
          caller,      \* who called it: "none", "step" or "run"
          local,       \* step()'s local variables
          lastNonce,   \* nonce of the last step.start of the current trace, or -1
          goal,        \* the last step reported goal_satisfied
          faults       \* exceptions so far

kernel == <<configured, gate, mode, signal, drift>>
telemetry == <<cycles, lastNonce, goal>>
control == <<pc, caller, local, faults>>
vars == <<kernel, queue, telemetry, control>>

\* generate_id(): a name no living task has, here the smallest.  Names of finished
\* tasks are reused, so that nothing bounds the number of tasks.
TaskIds == 1 .. MAX_QUEUE_SIZE + MAX_SUBTASKS + 1

FreshIds == TaskIds \ (Range(queue) \cup {local.task})

FreshTasks(n) ==
    {new \in [1 .. n -> FreshIds] :
        \A i \in 1 .. n : Cardinality({t \in FreshIds : t < new[i]}) = i - 1}

NoLocals == [task |-> 0, suppressed |-> FALSE, proposed |-> FALSE,
             decision |-> "none", performed |-> FALSE,
             outcome |-> [category |-> "none", severity |-> 0, kind |-> "none"]]

Init == /\ configured \in CONFIGURED_MODES
        /\ gate \in GATES
        /\ mode = configured
        /\ signal = InitialSignal
        /\ drift = InitialDrift
        /\ queue = <<>>
        /\ cycles = 0 /\ lastNonce = -1 /\ goal = FALSE
        /\ pc = "idle" /\ caller = "none" /\ local = NoLocals /\ faults = 0

-----------------------------------------------------------------------------
(* The caller.                                                             *)

\* seed(): push raises QueueFullError at capacity and changes nothing.
Seed == /\ pc = "idle" /\ caller = "none"
        /\ Len(queue) < MAX_QUEUE_SIZE
        /\ \E new \in FreshTasks(1) : queue' = queue \o new
        /\ UNCHANGED <<kernel, telemetry, control>>

CallStep == /\ pc = "idle" /\ caller = "none"
            /\ cycles < MAX_CYCLES
            /\ caller' = "step"
            /\ pc' = "entry"
            /\ UNCHANGED <<kernel, queue, telemetry, local, faults>>

\* run() draws a fresh trace id, so nonces may start over; cycles does not.
CallRun == /\ pc = "idle" /\ caller = "none"
           /\ caller' = "run"
           /\ lastNonce' = -1
           /\ UNCHANGED <<kernel, queue, cycles, goal, pc, local, faults>>

\* The while loop of run(), between two steps.
RunLoop == /\ pc = "idle" /\ caller = "run"
           /\ IF cycles < MAX_ITERATIONS
              THEN pc' = "entry" /\ UNCHANGED caller
              ELSE caller' = "none" /\ UNCHANGED pc
           /\ UNCHANGED <<kernel, queue, telemetry, local, faults>>

\* Mutant: run() does not look at what step() returns.
ReturnIgnored(continued) ==
    /\ pc' = "idle"
    /\ caller' = IF caller = "run" THEN "run" ELSE "none"
    /\ local' = NoLocals
    /\ UNCHANGED faults

\* step() returns: run() goes on with its loop only after True.
Return(continued) ==
    /\ pc' = "idle"
    /\ caller' = IF caller = "run" /\ continued THEN "run" ELSE "none"
    /\ local' = NoLocals
    /\ UNCHANGED faults

\* Mutant: a step that halts is not counted.
EndContinuedOnly(continued) == /\ Return(continued)
                               /\ cycles' = IF continued THEN cycles + 1 ELSE cycles
                               /\ UNCHANGED lastNonce

\* _end(): the cycle counts and step.end is emitted, on every return after step.start.
End(continued) == /\ Return(continued)
                  /\ cycles' = cycles + 1
                  /\ UNCHANGED lastNonce

\* An exception of the model, or of an injected gate, leaves step() and run() without passing _end.
Raise == /\ faults < MAX_FAULTS
         /\ faults' = faults + 1
         /\ pc' = "idle" /\ caller' = "none" /\ local' = NoLocals
         /\ UNCHANGED <<kernel, queue, telemetry>>

-----------------------------------------------------------------------------
(* step(), up to the effect.                                               *)

EnterHalted == /\ pc = "entry"
               /\ mode' = Escalate(drift, mode)
               /\ mode' = "HALT"
               /\ Return(FALSE)
               /\ UNCHANGED <<configured, gate, signal, drift, queue, telemetry>>

EnterEmpty == /\ pc = "entry"
              /\ mode' = Escalate(drift, mode)
              /\ mode' # "HALT"
              /\ queue = <<>>
              /\ Return(FALSE)
              /\ UNCHANGED <<configured, gate, signal, drift, queue, telemetry>>

\* Mutant: the mode is escalated only after the task was taken.
EnterTaskFirst == /\ pc = "entry"
                  /\ queue # <<>>
                  /\ mode # "HALT"
                  /\ mode' = Escalate(drift, mode)
                  /\ queue' = Tail(queue)
                  /\ local' = [NoLocals EXCEPT !.task = Head(queue)]
                  /\ lastNonce' = cycles
                  /\ goal' = FALSE
                  /\ pc' = "predict"
                  /\ UNCHANGED <<configured, gate, signal, drift, cycles, caller, faults>>

\* The task is popped and step.start emitted with the cycle count as its nonce.
EnterTask == /\ pc = "entry"
             /\ mode' = Escalate(drift, mode)
             /\ mode' # "HALT"
             /\ queue # <<>>
             /\ queue' = Tail(queue)
             /\ local' = [NoLocals EXCEPT !.task = Head(queue)]
             /\ lastNonce' = cycles
             /\ goal' = FALSE
             /\ pc' = "predict"
             /\ UNCHANGED <<configured, gate, signal, drift, cycles, caller, faults>>

\* Mutant: the MODERATE band is missing.
RecommendedBreadthNoModerate(confidence, m) ==
    CASE m = "NORMAL" \/ 10 * confidence >= 8 * SCALE -> "FULL"
      [] m # "NORMAL" /\ 10 * confidence >= 3 * SCALE /\ 10 * confidence < 5 * SCALE
            -> "RESTRICTED"
      [] OTHER -> "DEFERRED"

RecommendedBreadth(confidence, m) ==
    CASE m = "NORMAL" \/ 10 * confidence >= 8 * SCALE -> "FULL"
      [] m # "NORMAL" /\ 10 * confidence >= 5 * SCALE /\ 10 * confidence < 8 * SCALE
            -> "MODERATE"
      [] m # "NORMAL" /\ 10 * confidence >= 3 * SCALE /\ 10 * confidence < 5 * SCALE
            -> "RESTRICTED"
      [] OTHER -> "DEFERRED"

ShouldExecute(m, breadth) == /\ m # "HALT"
                             /\ m = "ENFORCED" => breadth # "DEFERRED"

\* generate_prediction; then breadth is fixed for the cycle, on today's confidence.
Predict == /\ pc = "predict"
           /\ local' = [local EXCEPT !.suppressed =
                           ~ShouldExecute(mode, RecommendedBreadth(signal.value, mode))]
           /\ pc' = "propose"
           /\ UNCHANGED <<kernel, queue, telemetry, caller, faults>>

\* propose_execution: a whitelisted action with its parameters, or None.
Propose == /\ pc = "propose"
           /\ \E proposed \in BOOLEAN :
                 /\ local' = [local EXCEPT !.proposed = proposed]
                 /\ pc' = IF proposed THEN "gate" ELSE "critic"
           /\ UNCHANGED <<kernel, queue, telemetry, caller, faults>>

\* What a proposal may carry for the childcare gate to look at.
Proposals == [action_type : {"llm_query"}, audience : {"adult", "child", "missing"},
              request_kind : {"answer", "transform", "missing"},
              bounded : {"yes", "no", "missing"}]

\* The agent fills in failure_window_active only.
GateContext == [environment |-> "none", safety_level |-> "none",
                failure_window_active |-> signal.last_outcome_was_failure]

GateDecisions ==
    CASE gate = "default" -> {DefaultGate(signal.value, signal.last_outcome_was_failure)}
      [] gate = "demo" -> {DemoGate(p, signal.value, GateContext) : p \in Proposals}
      [] OTHER -> ExecutionModes

Decide == /\ pc = "gate"
          /\ \E decision \in GateDecisions :
                /\ local' = [local EXCEPT !.decision = decision]
                /\ pc' = IF decision = "EXECUTE" THEN "perform" ELSE "critic"
          /\ UNCHANGED <<kernel, queue, telemetry, caller, faults>>

\* authorize_and_perform: the proposal passed the same whitelist when it was made,
\* so only the effect can fail; its exception and a non-string are refusals.
Perform == /\ pc = "perform"
           /\ \E performed \in BOOLEAN : local' = [local EXCEPT !.performed = performed]
           /\ pc' = "critic"
           /\ UNCHANGED <<kernel, queue, telemetry, caller, faults>>

-----------------------------------------------------------------------------
(* step(), after the effect.                                               *)

Evaluate == /\ pc = "critic"
            /\ \E outcome \in IF local.performed THEN CriticOutcomes
                              ELSE {RefusalOutcome(local.proposed)} :
                  local' = [local EXCEPT !.outcome = outcome]
            /\ pc' = "learn"
            /\ UNCHANGED <<kernel, queue, telemetry, caller, faults>>

Success == local.outcome.category = "success"

\* The signal, then the monitor; is_numeric_feasible compares two free texts.
Learn ==
    /\ pc = "learn"
    /\ signal' = UpdateSignal(signal, local.outcome)
    /\ IF local.outcome.category \in NoUpdateCategories
       THEN drift' = drift
       ELSE \E numeric \in BOOLEAN :
               drift' \in RecordCycle(drift, local.outcome.severity, numeric, Success)
    /\ IF local.outcome.category \notin NoUpdateCategories
          /\ drift'.drift_streak > MAX_DRIFT_STREAK
       THEN End(FALSE)
       ELSE pc' = "goal" /\ UNCHANGED <<caller, local, faults, cycles, lastNonce>>
    /\ UNCHANGED <<configured, gate, mode, queue, goal>>

GoalSatisfied == /\ Success
                 /\ queue = <<>>
                 /\ ~local.suppressed
                 /\ signal.value >= GOAL_THRESHOLD

CheckGoal == /\ pc = "goal"
             /\ IF GoalSatisfied
                THEN End(FALSE) /\ goal' = TRUE
                ELSE pc' = "subtasks" /\ UNCHANGED <<telemetry, caller, local, faults>>
             /\ UNCHANGED <<kernel, queue>>

\* Mutant: the capacity is not looked at.
PushedAll(generated) == generated

\* What does not fit is dropped: the first QueueFullError ends the loop.
Pushed(generated) == IF generated <= MAX_QUEUE_SIZE - Len(queue)
                     THEN generated ELSE MAX_QUEUE_SIZE - Len(queue)

GenerateSubtasks ==
    /\ pc = "subtasks"
    /\ ~local.suppressed
    /\ \E generated \in 0 .. MAX_SUBTASKS :
          \E new \in FreshTasks(Pushed(generated)) : queue' = queue \o new
    /\ pc' = "guard"
    /\ UNCHANGED <<kernel, telemetry, caller, local, faults>>

SuppressSubtasks == /\ pc = "subtasks"
                    /\ local.suppressed
                    /\ pc' = "guard"
                    /\ UNCHANGED <<kernel, queue, telemetry, caller, local, faults>>

Guard == /\ pc = "guard"
         /\ End(~((cycles + 1) % GUARD_INTERVAL = 0 /\ Severe(drift)))
         /\ UNCHANGED <<kernel, queue, goal>>

\* The places where an exception is nobody's to catch: four model calls and the
\* call of an injected gate.
ModelRaises == /\ \/ pc \in {"predict", "propose"}
                  \/ pc = "gate" /\ gate = "custom"
                  \/ pc = "critic" /\ local.performed
                  \/ pc = "subtasks" /\ ~local.suppressed
               /\ Raise

-----------------------------------------------------------------------------
Step == \/ EnterHalted \/ EnterEmpty \/ EnterTask
        \/ Predict \/ Propose \/ Decide \/ Perform
        \/ Evaluate \/ Learn \/ CheckGoal
        \/ GenerateSubtasks \/ SuppressSubtasks \/ Guard
        \/ ModelRaises

Next == Seed \/ CallStep \/ CallRun \/ RunLoop \/ Step

Spec == Init /\ [][Next]_vars

\* Every model call answers or raises; nothing is assumed of the caller.
FairSpec == Spec /\ WF_vars(RunLoop \/ Step)

-----------------------------------------------------------------------------
(* Properties.                                                             *)

Locals == [task : TaskIds \cup {0}, suppressed : BOOLEAN, proposed : BOOLEAN,
           decision : ExecutionModes \cup {"none"}, performed : BOOLEAN,
           outcome : [category : Categories \cup {"none"}, severity : 0 .. SCALE,
                      kind : ConflictKinds \cup {"none"}]]

\* The queue never exceeds its capacity, holds no task twice and never the one
\* being worked on; step() is past its entry check only in a mode other than HALT.
TypeOK == /\ configured \in PolicyModes /\ mode \in PolicyModes
          /\ gate \in {"default", "demo", "custom"}
          /\ signal \in Signals /\ drift \in DriftRecords(0 .. SCALE)
          /\ queue \in Seq(TaskIds) /\ Len(queue) <= MAX_QUEUE_SIZE
          /\ \A i, j \in DOMAIN queue : i # j => queue[i] # queue[j]
          /\ local.task \notin Range(queue)
          /\ cycles \in Nat /\ lastNonce \in {-1} \cup 0 .. cycles
          /\ goal \in BOOLEAN /\ faults \in Nat
          /\ pc \in {"idle", "entry", "predict", "propose", "gate", "perform",
                     "critic", "learn", "goal", "subtasks", "guard"}
          /\ caller \in {"none", "step", "run"}
          /\ local \in Locals
          /\ pc \notin {"idle", "entry"} => mode # "HALT" /\ local.task # 0

\* ADR-042: an effect is performed only for a proposal of this cycle that the gate
\* answered with EXECUTE, outside HALT, and never on evidence that is already
\* severe or already an outlier, whatever guard_interval is.
EffectsAreAuthorized ==
    pc = "perform" => /\ local.proposed /\ local.decision = "EXECUTE"
                      /\ mode # "HALT"
                      /\ ~Severe(drift) /\ drift.last_error_z = "below"

Phase == CASE pc \in {"idle", "entry"}                   -> "closed"
           [] pc \in {"predict", "propose", "gate"}         -> "open"
           [] pc = "perform"                                -> "authorized"
           [] pc \in {"critic", "learn"} /\ local.performed  -> "performed"
           [] pc \in {"critic", "learn"} /\ ~local.performed -> "refused"
           [] OTHER                                         -> "settled"

Boundary == INSTANCE ExecutionBoundary WITH
                phase <- Phase,
                halted <- mode = "HALT",
                evidence <- <<signal.value, drift>>

\* The agent implements the execution boundary: confidence and drift evidence move
\* only when a performed effect is learnt from, once per cycle, and no exception
\* later in the cycle undoes or repeats it; a cycle that was refused teaches
\* nothing; no cycle opens after HALT.
RefinesBoundary == Boundary!Spec

\* A cycle from the moment its evidence was judged to the moment it is learnt from.
Recording == pc \in {"predict", "propose", "gate", "perform", "critic", "learn"}

\* What the critic may report of an effect, or stands in for a refusal.
Severities == {o.severity : o \in CriticOutcomes} \cup {0}

\* Every cycle that learns ends counted, left by an exception, or is still under way.
MaxUpdates == MAX_CYCLES + MAX_ITERATIONS + MAX_FAULTS

Monitor == INSTANCE DriftMonitor WITH
               inCycle <- Recording,
               ERRORS <- Severities,
               MAX_NUMERIC <- MaxUpdates

Signal == INSTANCE ConfidenceSignal WITH
              replaying <- FALSE, saved <- InitialSignal, raised <- FALSE,
              SEVERITIES <- Severities,
              MAX_CYCLES <- MaxUpdates

\* The agent drives its monitor as DriftMonitor assumes: one entry check, then at
\* most one record on the evidence that check has seen, then the next check, however
\* the step in between ends.
RefinesMonitor == Monitor!Spec

\* All that ever moves the agent's signal is update(), with an outcome it accepts:
\* the ValueError of confidence.py never leaves a step whose effect was performed.
RefinesSignal == Signal!Spec

\* Escalation is irreversible and HALT is final: no task is taken, no cycle
\* counted, nothing learnt, however often step() or run() is called again.
HaltIsFinal ==
    [][/\ PolicyOrder[mode'] >= PolicyOrder[mode]
       /\ mode = "HALT" => /\ UNCHANGED <<mode, signal, drift, cycles>>
                           /\ Len(queue') >= Len(queue)]_vars

\* With ladder thresholds of one or more drift never leads to GUIDED or ENFORCED: the
\* mode is the configured one or HALT.
ModeIsConfiguredOrHalt == mode \in {configured, "HALT"}

\* With the default gate, or the demo gate (the agent never names an environment),
\* no effect is ever performed: confidence starts at 0.5, below the 0.90 the gate
\* asks for, and only an executed cycle could raise it.
ShippedGatesNeverExecute ==
    gate # "custom" => /\ pc # "perform" /\ ~local.performed /\ ~goal
                       /\ signal.value = InitialSignal.value

\* As long as the model raises nothing, every counted cycle has updated the signal
\* exactly once and its nonce was larger than any before it in the trace.
CyclesUpdateOnce ==
    faults = 0 => /\ pc \notin {"goal", "subtasks", "guard"}
                        => signal.cycle_id = cycles
                  /\ pc \in {"idle", "entry"} => lastNonce < cycles

\* Breadth is decided before the cycle's outcome is learnt and used after it: where
\* the goal depends on it, the decision is still the one today's confidence gives.
StaleBreadthIsHarmless ==
    pc = "goal" /\ Success /\ queue = <<>> /\ signal.value >= GOAL_THRESHOLD
        => local.suppressed = ~ShouldExecute(mode, RecommendedBreadth(signal.value, mode))

\* run() ends: every step counts a cycle or ends the run.
RunTerminates == caller = "run" ~> caller = "none"

-----------------------------------------------------------------------------
(* What the documents say and the code does not do.                        *)

\* ADR-045: the nonce "MUST strictly increase within a trace".  A step left by an
\* exception does not count its cycle, so the next one takes the same step_id.
NonceStrictlyIncreases ==
    [][pc = "entry" /\ pc' = "predict" => lastNonce' > lastNonce]_vars
=============================================================================
