# eba-core: a verification development in TLA+

The Epistemic Control Kernel (`eck/`) drives a language model through control
cycles: it takes a task, predicts, lets the model propose an action, asks a
policy gate whether the action may run, runs it, has the model criticise the
result, moves a confidence value, records drift evidence and decides whether to
go on.  The modules here model that kernel, TLC checks them on small instances,
and TLAPS proves what matters most for every value of the constants.

Notation: `file:line` is a place in the repository; `eck/` is left out where
it is clear.

## 1. Inventory

The kernel is one thread and keeps everything in memory.  There is no lock, no
persistence and no message to reorder.  What it does not control is its caller
(who may call `seed`, `step` and `run` in any order), the model (any answer or
an exception at each of up to six calls of a cycle), an injected policy gate,
the log handlers its
log lines and telemetry run through, which may raise, and interrupts, which no
`except Exception` stops.

| Part | State | Operations | What makes it correct |
|---|---|---|---|
| Agent, `agent.py` | mode, cycles, trace id, the parts below | `seed`, `step`, `run` | no effect without proposal and EXECUTE of its cycle; escalation irreversible, HALT final; learns once per performed effect; `run` ends |
| Confidence signal, `confidence.py` | value, momentum, failure window, cycle id | `update`, `replay` | value in [0, 1]; window and per-kind gates block the movement they name; `replay` leaves no trace |
| Drift monitor, `drift.py` | error history, drift events, streak, last z, feasibility history | `record_error`, `record_feasibility`, `register_drift`, `clear_streak`, `severe`, `get_policy_mode` | evidence append-only; severe evidence stops the kernel; recommendation as documented |
| Critic, `critic.py` | none | `critic_evaluate` | partial iff structured; refusal carries no evidence; disagreement is pessimistic |
| Gates, `policy_gate.py`, `demo_policy_gate.py` | none | `evaluate` | rules in their order; deterministic |
| Queue, `queue.py` | a bounded deque | `push`, `pop`, `is_empty` | never beyond capacity, never loses a task silently |
| Execution boundary, `execution.py` | none | `propose_execution`, `authorize_and_perform` | fails closed; the only effect |
| Utilities, `utils.py` | none | breadth, `should_execute`, feasibility, z-score | thresholds |
| Prediction, prompts, subtask generation | none | one model call each | at most five subtasks |
| Memory and similarity, `memory.py`, `similarity.py` | run id; whether numpy could be imported, per process | `retrieve` | one entry per retrieval, true of it; no record lost; a failed ranking falls back |
| Configuration, `config.py` | frozen | `effective_policy` | the mode's caps are applied (nothing reads them) |
| Telemetry, `telemetry.py`, `trace_analysis.py` | collected events | `emit_event`, `ingest` | nonce increases within a trace; one-way |
| Enforcement seam, `agent_loop.py` | none | `step` | one gate call, hook only on EXECUTE |
| Recorder, harness, store, `telemetry/` | current run and step, files | `start_run`, `ingest`, `finalize`, `clear`, `run`, `save_run`, `load_run` | every event filed once, under its own step; a file is the beginning of its run |
| Calibration, `telemetry/calibration.py` | none | statistics over reports | arithmetic |

Interactions: `ECKAgent.step` calls everything else, in one fixed order.  The
critic's outcome reaches the confidence signal and the drift monitor; the
signal's value and window reach the gate of the *next* cycle, the breadth
recommendation and the goal predicate; the monitor's evidence reaches the mode
at the *next* entry of `step`, and the periodic guard at the end of this one.
The hard behaviours are therefore not interleavings of threads but:

- exceptions, which leave `step` at a model call with half of a cycle done, or
  a result logged and not returned, or a recorder with an unfinished step;
- two checks of one evidence (guard and entry check) and four ways to stop;
- quantities with momentum, where one cycle's error shows cycles later;
- calls in an order nobody planned, above all after a halt;
- limits: a full queue, the clamps, a z-score that can only just be reached.

`PROJECT.json` lists them as hazards at their lines, with the properties that
watch them.

## 2. Modules

```
Units <- Confidence <- ConfidenceSignal        Drift <- DriftMonitor
         Confidence <- Critic   \                |
Units <- PolicyGate -------------> Agent <-------+      ExecutionBoundary
                          AgentWork <-+ \__ Boundary == INSTANCE ... WITH __/
                 Agent also has Monitor == INSTANCE DriftMonitor WITH ... and
                 Signal == INSTANCE ConfidenceSignal WITH ...
Execution      Memory      Trace        (each on its own, see below)
proofs:  ConfidenceLemmas, ConfidenceProofs, DriftLemmas, DriftProofs, AgentProofs,
         ExecutionProofs, MemoryProofs, TraceProofs
```

The parts without a life of their own are modules of operators over records, so
that the same definitions serve the stand-alone machine and the composed one.

- **Units** declares `SCALE`, the number of units in 1.0.  Confidence and
  severity are integers; every comparison with a threshold is the code's.
- **Confidence** is the arithmetic of `update`: raw delta, movement class with
  the failure window, gated clamp of raw delta *and* momentum, smoothing,
  clamping, and the path of a refused outcome.  Division rounds down; the runs
  choose `SCALE` so that the updates they reach are exact (see the cfg comments).
- **ConfidenceSignal** is one signal object: `Update(o)`, `UpdateRaises(o)` (the
  validation error, which inside `replay` skips the restoring assignments),
  `ReplayBegin`, `ReplayEnd`.
- **Critic** turns two model answers into an outcome; `CriticOutcomes` is every
  outcome `critic_evaluate` can return for a performed effect.
- **PolicyGate** has the two gates as functions.
- **Drift** is the monitor's record and its operators.  A z-score is kept as
  its place below, at or above the threshold, computed without roots
  (`z > t` iff `(W.e - S)^2 > t^2 (W.Q - S^2)`).  Where both sides are equal the
  code compares floats that may have rounded either way, and so does
  `ZClasses`.  Only the last `WARMUP` errors and two counts of the feasibility
  history are kept: the code reads nothing else of them.
- **DriftMonitor** drives the record as `step` does: entry check, then an empty
  queue or at most one recorded cycle.  Its critic may report anything.
- **ExecutionBoundary** is the abstract promise: a cycle opens only when not
  halted, is advised, is authorized and performed or is refused, and what the
  kernel believes (`evidence`) changes only when a performed effect is absorbed.
  It knows no queue, gate, model or caller.  (`docs/formal/ECK.tla` sketches the
  same subject; here the translated code is shown to implement it.)
- **Agent** is the composed kernel.  `pc` cuts `step` at its model calls and
  early returns:

| Action | Code |
|---|---|
| `Seed`, `CallStep`, `CallRun`, `RunLoop` | `agent.py` 122-140, 142, 572-587 |
| `EnterHalted`, `EnterEmpty`, `EnterTask` | escalation, HALT check, pop, step.start: 145-217 |
| `Predict` | prediction, breadth, suppression: 271-302 |
| `Propose`, `Decide`, `Perform` | `execution.py` 71-284; gate and refusal 314-369; `execution.py` 289-528 |
| `Evaluate`, `Learn` | critic 371-404; confidence, drift, streak halt 406-477 |
| `CheckGoal`, `GenerateSubtasks`, `SuppressSubtasks`, `Guard` | 479-508, 510-545, 547-570 |
| `End`, `Return`, `ModelRaises` | `_end` 219-269; what `run` does with the result; an exception leaving `step` |

`Propose` and `Perform` are single actions here: what `step` can tell apart of the
boundary's functions is a proposal or none, an effect or none.  Execution has
their inside, with what `step` never does (its own proposals, missing or bad
identifiers) and what the model of `step` leaves out (log handlers that raise).

State that is part of a step lives in `local` and is gone when it ends.
`queue` holds task names; names of finished tasks are used again, so the number
of tasks is not bounded.  `lastNonce` and `goal` observe telemetry.

- **AgentWork** adds to Agent a record, `lost`, of the ways in which work left
  the kernel without being done: refused by the gate (`TaskGated`) or dropped by
  a full queue (`SubtasksDropped`).  The kernel keeps no such record.
- **Execution** is the two functions of `execution.py` for any caller, one call
  after another, cut at the model call, at the plain log line each result is
  announced by, and at the report.  All three are calls of foreign code: a handler
  of the module's one logger may raise at either of the last two, any kind of
  exception, and an interrupt may arrive at all three.

| Action | Code |
|---|---|
| `Construct` | a caller's own `ProposedAction`, or a change of the parameter dict of one it holds: `types.py` 127-179 |
| `CallPropose`; `AnswerProposal`, `AnswerNonString`, `AnswerEscapes` | the model's answer and every check of it in order, `execution.py` 108-284 |
| `CallAuthorize`, `LoopStep` (both through `Enter`) | assertions and kernel checks 365-462, directly or behind `AgentLoop.step` |
| `Query` | the effect, 463-519; an interrupt of it leaves at 464 |
| `Log`, `LogRaises` | the `logger` call before each report: 161, 175, 189, 205, 221, 237, 260, 270 in `propose_execution`, 382, 407, 425, 446, 466, 485, 504 in `authorize_and_perform` |
| `Report`, `ReportRaises` | `_emit_action_proposed`, `_emit_action_executed`, with `validate_event` and the handlers: 112-145, 339-363, `telemetry.py` 66-240 |
| `Raises`, through `Catches` and `Caught` | what a raise does: the `except` clauses 174-201, 503-519, or out of the function |

  `guarded` says whether line and report are inside the function's `try`: where
  they are, one that raises changes the result.
- **Memory** is `MemoryRetrieval.retrieve` under `build_prediction_context`, with
  the ranking of `similarity.py`.  The world model is `NUM_RECORDS` records
  numbered by age (three in the code's mock, and in the runs); a query is the set
  of records it matches.  A sort is stated as what it returns (`InOrder`): the list
  of the records in which each stands before all that follow.  `numpy` is the
  module-level outcome of the import and outlives agents; everything else is set
  anew by `Construct`.  An interrupt, which no `except Exception` stops but every
  `finally` sees, may arrive in the import and in `encode` (`Escape`), before
  `item_count` is set, between that and the block, and after it (`Integrate`, on
  every path), and out of the log handler (`Log`).

| Action | Code |
|---|---|
| `Construct`, `Bypass` | `agent.py` 83-119; `prediction.py` 27-28 |
| `Retrieve` | permission, empty query, candidates: `memory.py` 201-228 |
| `ImportNumpy`, `EncodeQuery`, `EncodeTasks` | `similarity.py` 16-36, 149-180 |
| `Integrate` | `item_count` and the block: 232-234, 120-178 |
| `Log` | the finally block, 235-247, 179-188 |

- **Trace** is the recorder with the harness, the store and the two events of an
  agent's step.  An event carries the step id (trace and nonce) and, for the
  properties only, the `cycle` it is of.  `Books` lays out what the recorder holds,
  the steps of each run and last the one under construction; `Entries` are the
  places of events in it.

| Action | Code |
|---|---|
| `StepStart`, `StepEnd` (through `Ingest`) | `agent.py` 163-217, 219-269; `trace_recorder.py` 34-80 |
| `StepRaises`, `StepDeclines`, `AgentRun` | an exception; the early returns 163-176; a new trace id 572-587 |
| `HarnessRun`, `HarnessReturns` | `trace_harness.py` 42-57 |
| `CallerFinalizes`, `CallerClears`, `Save` | `trace_recorder.py` 82-99; `trace_harness.py` 59-63 and `trace_store.py` 23-58 |

## 3. Runs

| Run | Shows |
|---|---|
| `ConfidenceSignal` | type, window, per-kind gates, one-cycle window, and that 0.90 is not reached in two updates |
| `DriftMonitor` | at the default settings: no GUIDED or ENFORCED, at most one drift event, nothing recorded on severe evidence, outliers only as lone samples |
| `Agent` | everything of the composed kernel, the refinements of `ExecutionBoundary`, `DriftMonitor` and `ConfidenceSignal`, and that a run ends |
| `Execution` | effects only on what is complete when it is performed; result, effect and reports agree however often log lines and reports raise; an exception has a failed log or an interrupt behind it; the two lists of checks agree |
| `Memory` | one entry per retrieval, true of every one that returned, no match lost, the header true of what no embedding ordered, a failed import final for the process |
| `Trace` | every event filed once and in order, StepTraces are cycles, cycles are not torn, foreign steps come first, files are beginnings of runs |
| `AgentNonce`, `AgentWork`, `DriftLadder`, `FailureRaises`, `MemoryFallback`, `ReplayRestores` | what a document says and the code does not do (section 4) |

Bounds, and why they suffice:

- `ConfidenceSignal`: the default alpha 0.3, severities 0.0, 0.5, 1.0 and an
  invalid one, four updates.  0.90 takes three, the window properties two; the
  momentum's effect on a failure takes four (`FailureRaises`).
- `DriftMonitor`: the default ten samples and threshold 3.0, three severities,
  which is enough to meet and to miss equality; at most one numeric-feasible
  sample (`severe` needs one failed one).  The number of cycles is not bounded.
- `Agent`: alpha 1/2 and the two extreme severities, which make successes,
  failures and partial outcomes, the last at severity 0.0 or, on disagreement,
  1.0; a warm-up of two samples and a threshold of
  0.5, so that the first change of severity is an outlier; a queue of two and up
  to two subtasks, so it overflows; guard interval two, so the guard is due in
  one cycle and not in the next; every configured mode and all three kinds of
  gate (`custom` decides anything).  `MAX_CYCLES` bounds the cycles begun by
  direct calls (a run is bounded by `max_iterations`), `MAX_FAULTS` the
  exceptions; one is enough to leave a step half done and go on.  Deadlock
  is not checked there: the caller may stop calling.  `CRITIC_KINDS` has one
  kind; an answer that cannot be parsed adds `resolution_instability`, and how
  the other kinds gate the movement is `ConfidenceSignal`'s business.
- `Execution`: no bound.  Calls share nothing but the proposal in the caller's
  hands, and a call's own counters end with it.
- `Memory`: two agents, so that the second meets the first one's import; three
  retrievals each, so that there is one before and one after any failure.  The
  records are the code's, three scores give every order and every tie of them.
- `Trace`: three steps begun, two trace ids, three runs, at most two steps per
  harness run.  An unfinished step, one that merges into it and one of another
  run after it need three steps and two runs; four steps were run once as well
  (1.5 million states) with the same result.  Deadlock is not checked in
  `Memory` and `Trace`: their bounds end the behaviour.
- `AgentWork` and `MemoryFallback` have just the bounds their counterexamples
  need: a run of three cycles, whose first drops subtasks and whose third is declared
  to have satisfied the goal; one retrieval.

Fairness: `FairSpec` is weakly fair to `RunLoop \/ Step` as a whole: once `run`
or `step` is on the stack the thread goes on, because every model call answers
or raises.  Nothing is assumed of the caller or of which answer comes, and
nothing of any single branch.

## 4. Where documents and code differ

- **Nonce** (`AgentNonce`): ADR-045:115 wants it strictly increasing; an
  exception leaves `step` without `_end`, and the next step repeats nonce and
  step id.  While nothing raises it holds, and is proved (`CyclesUpdateOnce`).
- **Lost work and the goal** (`AgentWork`): `queue.py:30-33` and ADR-041
  section 3; dropped subtasks and refused tasks leave an empty queue that a
  later success takes for completion.  The predicate's own flag
  (`subtasks_suppressed`) looks at the present cycle only; that it is computed on
  the confidence before the update makes no difference (`StaleBreadthIsHarmless`).
- **Fallback** (`MemoryFallback`): ADR-032:34 and its "Must Never Happen"; the
  fallback orders the whole world model, the core path only what matches.
- **Graduated ladder** (`DriftLadder`): `drift.py:138-142` lists GUIDED and
  ENFORCED; the z-score term of the HALT condition hides them.  Thresholds of zero
  bring them back, for a fresh monitor and without any drift.
- **Failure raises confidence** (`FailureRaises`): `docs/eck-confidence.md:45`;
  the update that reports a failure still adds the momentum of the successes
  before it.
- **Replay** (`ReplayRestores`): `confidence.py:320-321`; an invalid outcome
  leaves the replayed prefix in the live object.

Differences noted while translating, which no run is spent on:

- RETRY: ADR-038:35 wants a new proposal cycle; the task has been popped and is
  dropped (part of `AgentWork`'s `TaskGated`).
- `config.py:41-46` promises a grace period of up to `guard_interval` cycles; the
  entry check of the next step halts first (`agent.py:146`).
  `NoCycleOnSevereEvidence` is the other side of it: the kernel is stricter than
  documented, never laxer.
- `execution.py:87-90` returns None for "any response that cannot be parsed", but
  JSON that is no object raises AttributeError at line 203, outside the try
  (`Execution!AnswerEscapes`).
- ADR-045:47 wants telemetry without influence; a log line or report that raises
  inside the try of `authorize_and_perform` (485, 500) turns a performed effect
  into a refusal.  "Contract-level authorization failures ... never raise"
  (`execution.py:320-322`) holds only while the log does not: lines 382, 407 and 425
  are outside any try.  `ResultIsTrue` and `RaisesOnlyForLogs` say how far that goes.
- An interrupt after `memory.py:232` leaves an entry that counts every record found
  while the prompt gets none.  `EntryDescribesContext` allows just that, and zero.
- ADR-029 wants an entry for each attempt, disabled ones included; a disabled
  retrieval logs nothing (`memory.py:203`).  The header "most recent first" is
  false of ranked contexts, and nothing reads `memory_retrieval_limit`.
- `trace_store.py` calls itself append-only and opens with "w"; `load_run` names
  `Event` without importing it and resolves the file name against the working
  directory, not `base_dir`; `RunTrace.halted` is never True, because a halted
  step sends no event; the run a harness returns keeps growing.

One more consequence is a property that *holds*: `ShippedGatesNeverExecute`.
With either gate of the repository no effect is ever performed, since confidence
starts at 0.5, the gate executes from 0.90, and a refused cycle moves nothing.
Everything past the effect is reached with an injected gate only.

## 5. Proofs

All theorems are for every value of the constants that satisfies the `ASSUME`s
(`ScaleAssumption`, `AlphaAssumption`, `SeveritiesAssumption`,
`CriticAssumption`, `DriftAssumption`, `ErrorsAssumption`, `AgentAssumption`,
`MemoryAssumption`, `BoundsAssumption`).  Of alpha they say what the constructor
checks.  `ECKConfig` checks nothing, so for its fields they are a restriction of
scope: a warm-up of at least one sample and a positive `error_z_threshold` (with
others `error_history[-n:]` and the initial z-score of 0.0 mean something else), a
queue capacity and a guard interval of at least one (zero would make the guard
divide by it), and goal and partial thresholds in [0.0, 1.0].  The remaining drift
thresholds may be any integers.  Every invariant the passing runs check is proved,
and so are the three refinements.  Five theorems are true of a setting rather than
of every setting; they name it as a hypothesis, and the defaults satisfy it:

| Theorem | Hypothesis | Default |
|---|---|---|
| `OutliersAreLoneErrors` | `Z_SQUARE >= (WARMUP - 1) * Z_UNIT` | 3.0 squared = 9 = 10 - 1: with equality |
| `ConfidenceIsEarned` | `10 * ALPHA_NUM <= 3 * ALPHA_DEN` | alpha = 0.3: with equality |
| `LadderUnreachable`, `NoGraduatedEscalation` | `LadderStartsAtOne`: both ladder thresholds at least 1 | 1 and 2 |
| `BreadthIsNeverStale` | `100 * GOAL_THRESHOLD >= 65 * SCALE` | 0.9 |

The first two lines say how little room the defaults leave: a larger window or a smaller
threshold lets ordinary outliers through, a larger alpha shortens the way to 0.90.

- **ConfidenceProofs**: `TypeCorrect`, `WindowBlocks`, `KindGates`,
  `SingleCycleWindow`.  The work is in `ConfidenceLemmas`: bounds of the
  rounding division, a weighted average stays between bounds of its arguments,
  so a smoothed gated delta has the sign its class permits (`UpdateFacts`).
  `TypeOK` is inductive here.  Its last conjunct, that what `replay` saved is
  never later than the live signal, is what lets an action property about
  `cycle_id` recognise updates.  `ConfidenceIsEarned` needs how far momentum has
  got: `EarlyInv` bounds the value and the smoothed delta after one and after two
  updates, in the live signal and in the one `replay` saved.
- **DriftProofs**: `DriftTypeCorrect`, `LadderUnreachable`, `OneDriftEvent`,
  `RecordsOnQuietEvidence`.  The invariant adds to `TypeOK` that a drift event
  or a streak implies the last error was an outlier, and that inside a cycle the
  evidence is quiet.  It asks nothing of the thresholds.  With ladder thresholds of
  at least one the recommendation is then NORMAL or HALT, so the ladder's branches
  are dead; with a threshold of zero a fresh monitor recommends GUIDED or ENFORCED
  (`drift.py:160-165`), which is why `LadderUnreachable` has a hypothesis.
  `OutliersAreLoneErrors` is Samuelson's inequality over the integers, in
  `DriftLemmas`: with `n` samples no deviation exceeds `sqrt(n - 1)` standard
  deviations, and one that reaches it stands against equal ones.  The sums are the
  recursive functions of the model; their facts are proved from a least
  counterexample (`NatLessThanWellFounded`), not by an induction theorem with an
  operator for a parameter.
- **AgentProofs**: `IInv == TypeOK /\ Quiet /\ Progress /\ Shipped`.  `Quiet`:
  between the entry check and `Learn` the evidence is neither severe nor an
  outlier.  `Progress`: what `local` holds at each place of `step` (an effect
  pending means proposal and EXECUTE).  `Shipped`: with a gate of the repository
  nothing was performed and the value is the initial one; it needs that the
  initial value is below the gate's threshold at every scale.  None of the
  checked invariants is inductive without these.  `Counted` adds the equality of
  counted cycles and updates.  From `IInv`: `AgentTypeCorrect`,
  `AuthorizedEffects`, `NoGraduatedEscalation`, `ShippedGatesAreInert`,
  `HaltFinal`, `CyclesAreUpdates`, and `AgentRefinesBoundary`, the refinement:
  the initial states map to initial states and each action to a step of
  `ExecutionBoundary` or a stutter, one lemma per stretch of `step`.
  `BreadthIsNeverStale` rests on `DecisionIsFresh`.  Breadth is suppressed only in
  ENFORCED below 0.3, and an update raises the value by at most the largest raw
  delta, 0.35: a cycle that began suppressed cannot end at a goal threshold of 0.65.
  The other way round there is nothing to show, since at the threshold itself
  today's confidence suppresses nothing.

  `AgentRefinesMonitor` and `AgentRefinesSignal` join the parts: between two steps
  of the agent its monitor and its signal do what `DriftMonitor` and
  `ConfidenceSignal` do, so those modules' assumptions about their caller are
  discharged rather than taken.  A cycle is open to the monitor from the entry check
  that takes a task until `Learn` or an exception (`Recording`); the signal is never replayed and never
  raises.  `Budgeted` says how often both can have been updated: each update is
  paid for by a counted cycle, an exception or the cycle under way, which bounds the
  machines' own counters.  The instances' operators are shown equal to the agent's
  (`MonitorOperators`, `SignalOperators`).  With that the theorems of `DriftProofs`
  and `ConfidenceProofs` hold of the agent's state, and four are restated there:
  `AgentRecordsOnQuietEvidence`, `AgentHaltsOnLoneErrors`, `AgentWindowBlocksRise`
  and, with the goal predicate, `GoalTakesThreeCycles` (hypotheses as in the table,
  and a goal threshold of at least 0.9).
- **ExecutionProofs**: the invariant says, for each place of a call, what the
  function knows there: at `query` the arguments passed the kernel's checks, at
  `log` and `report` the pending result is of this call and true of `answered`, and
  how many failures lie behind it (none inside the try, at most one outside it, and
  exactly one if an effect that answered is being refused).  `EffectIsAuthorized`
  is not inductive without the first, `ResultIsTrue` and `RaisesOnlyForLogs` not
  without the others.
- **MemoryProofs**: the run id is one behind the attempts exactly while a
  retrieval is on the stack, and logged ids are increasing and not above it;
  what the finally block counts is what is on its way to the prompt, or, on the way
  of an interrupt, possibly nothing.  `SortedExists` and
  `InOrderFacts` are about sorting: for a strict total order on a finite set there
  is a sorted list, it has each element once, and it is as long as the set is
  large.  With them `Kept` says of the items on the way to the prompt that they are
  complete, free of repetitions and, where nothing ranked them, newest first.
- **TraceProofs**: `IInv` adds to `TypeOK` that while a step is on the stack its
  StepTrace is the current one (`Current`), that a second step of a run is
  younger than the run (`Own`), what the log says of ids and nonces (`Logged`: an
  ended cycle is behind the nonce, so no later event can have its id), and that
  every StepTrace is whole (`Whole`, with cycles in order).  `WholeFacts` is the
  heart: an event that joins a StepTrace has its id, so nothing in it has ended.
  `FilesKeepTheirRuns` rests on `NextLengthens`: a run is never rewritten.
  `EventsAreFiledInOrder` and `CyclesAreWhole` have an invariant of their own over
  `IInv`.  `Ordered`: a StepTrace filed before another has strictly earlier cycles,
  and within one the events are in the order of the log.  `Placed`: what is held is
  exactly what was logged and not dropped, the current run is the last or none, and
  while a step is on the stack its first event is in the current StepTrace.  Without
  the strictness clearing the step under construction could drop an event that is
  also filed elsewhere; without the last part an end could be filed behind a
  displaced beginning.

Model-checked only: `RunTerminates`, a liveness property under fairness, which is
out of this prover's reach, as are `ENABLED` and what a recursion computes on every
input; and the counterexamples of section 4, which are about one behaviour each.

## 6. Not modelled

- `numeric_bias`, the conflict footprint and every log or telemetry payload:
  nothing in the kernel reads them.
- The critic's `verifier_callback` and its single-call mode, the `UP_ONLY`
  movement class, `effective_policy()`: nothing in the kernel uses them.
- The text of the memory block, the scored variants of the ranking, which
  nothing calls, and scores that are not numbers (a vector with NaN would leave
  the order to the sort).
- `TraceAnalyzer`, `TaskState`, calibration and the examples: no state that could
  go wrong, or none the kernel shares.
- The fields `StepTrace.finalize` derives from payloads: the agent sends only the
  two events, so they repeat what step.start said.  `load_run`, which raises.
- Whether two free texts count as numeric-feasible: a nondeterministic choice.
- In Agent, exceptions of log handlers.  At the plain lines of `step` they would
  leave it as those of the model and the injected gate do, which Agent has.  Inside
  the try of `authorize_and_perform` they turn an effect that answered into a
  refusal, on which the step goes on to the critic.  Execution and Trace have them.
  The recorder itself raises nothing (`trace_recorder.py:59`).
- Interrupts at every bytecode.  In Memory they arrive where foreign code runs or the
  retrieval's own work is done (the import, `encode`, around `item_count` and the
  block, the log handler), not in the few instructions between the start of the
  finally block and `_run_id += 1`; in Execution at the model call, the log lines
  and the reports; Agent has only what leaves a model call or the injected gate, and
  none out of the effect itself, which would leave the step like those.

## 7. Plan

Done in this order: Confidence and its machine; Drift and its machine; Critic,
PolicyGate; Agent; ExecutionBoundary and the refinement; their proofs; Execution,
Memory, Trace and their proofs; AgentWork; the refinements of the two machines by
the agent.  What could follow:

1. Execution in the place of Agent's `Propose` and `Perform`: a refinement, with
   the report failures it adds to `step`.
2. Queue order and conservation of tasks in Agent, with `lost` of AgentWork.
3. `load_run` as the inverse of `save_run`, when it can load.
