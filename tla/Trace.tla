-------------------------------- MODULE Trace --------------------------------
(***************************************************************************)
(* What src/telemetry keeps of an agent's cycles: TraceRecorder files the  *)
(* events of each step in a StepTrace and the steps in a RunTrace,         *)
(* TraceHarness.run opens and closes one around a loop of steps, and       *)
(* TraceStore writes the current one to a file.  Of the agent's step there *)
(* is its beginning, its end, and the exception that leaves it between.    *)
(* All calls come from one caller, who also steps the agent directly, uses *)
(* its run() and calls the recorder; a step is never interrupted by them.  *)
(***************************************************************************)
EXTENDS Integers, Sequences, FiniteSets, SequencesExt

CONSTANTS MAX_CYCLES,   \* bound: steps started
          MAX_TRACES,   \* bound: trace ids generated
          MAX_RUNS,     \* bound: RunTraces opened
          MAX_STEPS     \* bound: the max_steps of a harness run

ASSUME BoundsAssumption == MAX_CYCLES \in Nat /\ MAX_TRACES \in Nat \ {0}
                           /\ MAX_RUNS \in Nat /\ MAX_STEPS \in Nat

VARIABLES trace,      \* agent._trace_id
          cycles,     \* agent.cycles, the nonce of the next step
          stepping,   \* agent.step() is on the stack, past step.start
          left,       \* steps a running harness.run() may still take, or Idle
          runs,       \* the RunTrace objects opened so far, oldest first
          run,        \* recorder.current_run: one of them, or 0 for None
          step,       \* recorder.current_step
          files,      \* the store's directory, by the trace id in the file name
          started,    \* history: steps started
          log,        \* history: every event ingested
          dropped     \* history: events that clear() discarded

agent == <<trace, cycles, stepping, started>>
recorder == <<runs, run, step, log, dropped>>
vars == <<trace, cycles, stepping, left, runs, run, step, files, started, log, dropped>>

Idle == -1
NoStep == [id |-> <<0, 0>>, trace |-> 0, events |-> <<>>]
NoFile == [origin |-> 0, steps |-> <<>>]

Traces == 1 .. MAX_TRACES
Cycles == 1 .. MAX_CYCLES

\* make_step_id of trace and nonce; cycle tells apart what step_id may not.
Event(type, cycle) == [type |-> type, trace |-> trace, id |-> <<trace, cycles>>,
                       cycle |-> cycle]

Events == [type : {"step.start", "step.end"}, trace : Traces,
           id : Traces \X Nat, cycle : Cycles]

\* StepTrace holds events, RunTrace steps (opened: what had been started by then).
Steps == [id : Traces \X Nat, trace : Traces, events : Seq(Events)]
Runs == [trace : Traces, opened : Nat, steps : Seq(Steps)]

NewRun(t) == [trace |-> t, opened |-> started, steps |-> <<>>]

\* RunTrace.add_step; total_steps is the length.
AddStep(rs, k, s) == [rs EXCEPT ![k].steps = Append(@, s)]

-----------------------------------------------------------------------------
(* TraceRecorder.                                                          *)

\* Mutant: a step is told by its nonce.
SameStepByNonce(e) == step # NoStep /\ step.id[2] = e.id[2]

\* Mutant: a step whose trace is not the run's is no step of the run.
SameStepOfRun(e) == /\ step # NoStep /\ step.id = e.id
                    /\ run # 0 /\ runs[run].trace = e.trace

\* The event belongs to the step under construction.
SameStep(e) == step # NoStep /\ step.id = e.id

\* ingest of one event: a run is opened if there is none, and a step under another
\* id displaces the current one, which is filed.
Ingest(e) ==
    LET opened == IF run = 0 THEN Append(runs, NewRun(e.trace)) ELSE runs
        k == IF run = 0 THEN Len(opened) ELSE run
    IN /\ run' = k
       /\ IF SameStep(e)
          THEN /\ step' = [step EXCEPT !.events = Append(@, e)]
               /\ runs' = opened
          ELSE /\ step' = [id |-> e.id, trace |-> e.trace, events |-> <<e>>]
               /\ runs' = IF step = NoStep THEN opened ELSE AddStep(opened, k, step)
       /\ log' = Append(log, e)
       /\ UNCHANGED dropped

\* Mutant: RunTraces share one list of steps.
StartRunSharedSteps(t) ==
    /\ Len(runs) < MAX_RUNS
    /\ runs' = Append(runs, [NewRun(t) EXCEPT !.steps = IF runs = <<>> THEN <<>>
                                                        ELSE Last(runs).steps])
    /\ run' = Len(runs) + 1
    /\ UNCHANGED <<step, log, dropped>>

\* start_run: the step of an earlier run stays under construction.
StartRun(t) == /\ Len(runs) < MAX_RUNS
               /\ runs' = Append(runs, NewRun(t))
               /\ run' = Len(runs) + 1
               /\ UNCHANGED <<step, log, dropped>>

\* Mutant: the filed step stays under construction.
FinalizeKeepsStep ==
    /\ runs' = IF step # NoStep /\ run # 0 THEN AddStep(runs, run, step) ELSE runs
    /\ UNCHANGED <<run, step, log, dropped>>

\* finalize: the run stays the current one.
Finalize ==
    /\ runs' = IF step # NoStep /\ run # 0 THEN AddStep(runs, run, step) ELSE runs
    /\ step' = NoStep
    /\ UNCHANGED <<run, log, dropped>>

-----------------------------------------------------------------------------
(* The agent, stepped by the harness or directly.                          *)

CallerIdle == ~stepping /\ left = Idle

\* step() past its early returns.
StepStart ==
    /\ ~stepping /\ left # 0
    /\ started < MAX_CYCLES
    /\ run = 0 => Len(runs) < MAX_RUNS
    /\ stepping' = TRUE
    /\ started' = started + 1
    /\ Ingest(Event("step.start", started + 1))
    /\ UNCHANGED <<trace, cycles, left, files>>

\* A harness run that may go on: one step fewer.
Counted == IF left = Idle THEN Idle ELSE left - 1

\* Mutant: only a step that continues counts.
StepEndCountsContinued ==
    /\ stepping
    /\ stepping' = FALSE
    /\ \E continued \in BOOLEAN :
          /\ cycles' = IF continued THEN cycles + 1 ELSE cycles
          /\ left' = IF left = Idle THEN Idle ELSE IF continued THEN left - 1 ELSE 0
    /\ Ingest(Event("step.end", started))
    /\ UNCHANGED <<trace, files, started>>

\* _end(): counts the cycle; False ends the loop of a harness run.
StepEnd == /\ stepping
           /\ stepping' = FALSE
           /\ cycles' = cycles + 1
           /\ left' \in {Counted, IF left = Idle THEN Idle ELSE 0}
           /\ Ingest(Event("step.end", started))
           /\ UNCHANGED <<trace, files, started>>

\* An exception of a model call, or of a log handler at either event, leaves a harness
\* run before its finalize().  At step.end the cycle is counted, but not ended here.
StepRaises == /\ stepping \/ left > 0
              /\ stepping' = FALSE
              /\ left' = Idle
              /\ cycles' \in {cycles} \cup (IF stepping THEN {cycles + 1} ELSE {})
              /\ UNCHANGED <<trace, files, started, recorder>>

\* Mutant: a step that declines counts.
StepDeclinesCounted == /\ ~stepping /\ left > 0
                       /\ left' = 0
                       /\ cycles' = cycles + 1
                       /\ UNCHANGED <<trace, stepping, started, recorder, files>>

\* A halted agent or an empty queue: False, and no event.
StepDeclines == /\ ~stepping /\ left > 0
                /\ left' = 0
                /\ UNCHANGED <<agent, recorder, files>>

\* agent.run(): a fresh trace id, which the recorder is not told; its loop is the
\* steps that follow.
AgentRun == /\ CallerIdle
            /\ trace < MAX_TRACES
            /\ trace' = trace + 1
            /\ UNCHANGED <<cycles, stepping, started, left, recorder, files>>

-----------------------------------------------------------------------------
(* TraceHarness, TraceStore and the caller.                                *)

\* run(): start_run and seed; a seeding that raises leaves the run open.
HarnessRun == /\ CallerIdle
              /\ StartRun(trace)
              /\ left' \in {Idle} \cup (0 .. MAX_STEPS)
              /\ UNCHANGED <<agent, files>>

\* Its loop is over.
HarnessReturns == /\ left = 0 /\ ~stepping
                  /\ left' = Idle
                  /\ Finalize
                  /\ UNCHANGED <<agent, files>>

CallerFinalizes == CallerIdle /\ Finalize /\ UNCHANGED <<agent, left, files>>

\* clear(): the run and the step under construction are forgotten.
CallerClears == /\ CallerIdle
                /\ run' = 0 /\ step' = NoStep
                /\ dropped' = dropped \cup Range(step.events)
                /\ UNCHANGED <<agent, left, runs, log, files>>

\* Mutant: the file is named after the agent's trace.
SaveUnderAgentTrace ==
    /\ CallerIdle
    /\ run # 0
    /\ files' = [files EXCEPT ![trace] = [origin |-> run, steps |-> runs[run].steps]]
    /\ UNCHANGED <<agent, left, recorder>>

\* save_last_run: the file of that trace id is written anew.
Save == /\ CallerIdle
        /\ run # 0
        /\ files' = [files EXCEPT ![runs[run].trace] =
                        [origin |-> run, steps |-> runs[run].steps]]
        /\ UNCHANGED <<agent, left, recorder>>

-----------------------------------------------------------------------------
Init == /\ trace = 1 /\ cycles = 0 /\ stepping = FALSE
        /\ left = Idle
        /\ runs = <<>> /\ run = 0 /\ step = NoStep
        /\ files = [t \in Traces |-> NoFile]
        /\ started = 0 /\ log = <<>> /\ dropped = {}

Next == \/ StepStart \/ StepEnd \/ StepRaises \/ StepDeclines \/ AgentRun
        \/ HarnessRun \/ HarnessReturns
        \/ CallerFinalizes \/ CallerClears \/ Save

Spec == Init /\ [][Next]_vars

-----------------------------------------------------------------------------
(* Properties.                                                             *)

TypeOK == /\ trace \in Traces /\ cycles \in 0 .. started /\ stepping \in BOOLEAN
          /\ started \in 0 .. MAX_CYCLES
          /\ left \in {Idle} \cup 0 .. MAX_STEPS
          /\ runs \in Seq(Runs) /\ run \in 0 .. Len(runs)
          /\ step \in Steps \cup {NoStep}
          /\ files \in [Traces -> [origin : 0 .. Len(runs), steps : Seq(Steps)]]
          /\ log \in Seq(Events) /\ dropped \in SUBSET Events

StepTraces == (UNION {Range(runs[k].steps) : k \in DOMAIN runs})
                 \cup (IF step = NoStep THEN {} ELSE {step})

\* The recorder's books: the steps of each run, and last the one under construction.
Books == [k \in 1 .. Len(runs) + 1 |-> IF k <= Len(runs) THEN runs[k].steps
                                       ELSE IF step = NoStep THEN <<>> ELSE <<step>>]

\* Where an event is filed: in which book, in which of its steps, and at which place.
Entries == UNION {UNION {{<<k, i, m>> : m \in DOMAIN Books[k][i].events}
                            : i \in DOMAIN Books[k]} : k \in DOMAIN Books}
EventAt(p) == Books[p[1]][p[2]].events[p[3]]

Precedes(p, q) == \/ p[1] < q[1]
                  \/ p[1] = q[1] /\ p[2] < q[2]
                  \/ p[1] = q[1] /\ p[2] = q[2] /\ p[3] < q[3]

\* Whatever the caller does between steps, the recorder files every event once and in
\* the order of the agent's telemetry, save what clear() discarded.
FiledInOrder ==
    /\ Range(log) \ dropped = {EventAt(p) : p \in Entries}
    /\ \A p, q \in Entries : \A m, n \in DOMAIN log :
          log[m] = EventAt(p) /\ log[n] = EventAt(q) => (Precedes(p, q) <=> m < n)

Ended(cycle) == \E e \in Range(log) : e.type = "step.end" /\ e.cycle = cycle

\* "Complete record of one control cycle" (trace_types.py:43): the events of a
\* StepTrace are of its step and trace, none follows a step.end, and those of two
\* cycles meet only if an exception left the earlier one.
StepIsOneCycle ==
    \A s \in StepTraces :
       /\ \A e \in Range(s.events) : e.id = s.id /\ e.trace = s.trace
       /\ \A m, n \in DOMAIN s.events :
             m < n => /\ s.events[m].type = "step.start"
                      /\ s.events[m].cycle # s.events[n].cycle => ~Ended(s.events[m].cycle)

\* A cycle is never torn: its two events are in the same StepTrace.
NoCycleIsTorn ==
    \A p, q \in Entries :
       EventAt(p).cycle = EventAt(q).cycle => p[1] = q[1] /\ p[2] = q[2]

\* start_run() hands at most one step of an earlier time to the new run, as its first.
OnlyFirstStepIsForeign ==
    \A k \in DOMAIN runs : \A i \in 2 .. Len(runs[k].steps) :
       \A e \in Range(runs[k].steps[i].events) : e.cycle > runs[k].opened

\* A run a caller holds, or a file saved from it, is never rewritten, only fallen
\* behind: a file is the beginning of the run it was saved from, under its trace id.
FilesBeginRuns ==
    \A t \in Traces :
       files[t] # NoFile => LET r == runs[files[t].origin]
                            IN r.trace = t /\ IsPrefix(files[t].steps, r.steps)
=============================================================================
