----------------------------- MODULE TraceProofs -----------------------------
(***************************************************************************)
(* What the recorder's grouping of events guarantees for any number of     *)
(* cycles, runs and traces and any order of the caller's operations.       *)
(***************************************************************************)
EXTENDS Trace, TLAPS

\* While a step is on the stack its StepTrace is the current one, and it is counted
\* only when it ends.
Current == /\ run = 0 => step = NoStep
           /\ stepping => /\ step # NoStep /\ step.id = <<trace, cycles>>
                          /\ cycles < started
           /\ \A k \in DOMAIN runs : /\ runs[k].opened <= started
                                     /\ stepping => runs[k].opened < started

\* A second step of a run was begun after the run was opened.
Own == run # 0 /\ step # NoStep /\ Len(runs[run].steps) >= 1
          => \A e \in Range(step.events) : e.cycle > runs[run].opened

\* Of one cycle all events have one id; an ended cycle is behind the nonce.
Logged == /\ \A e \in Range(log) :
                /\ e.cycle <= started /\ e.id[2] <= cycles
                /\ e.type = "step.end" => /\ e.id[2] < cycles
                                          /\ stepping => e.cycle < started
                /\ stepping /\ e.cycle = started => e.id = <<trace, cycles>>
          /\ \A e, f \in Range(log) : e.cycle = f.cycle => e.id = f.id

\* The events of a StepTrace come from the log, in the order of their cycles.
Whole(s) ==
    /\ s.id[1] = s.trace
    /\ \A e \in Range(s.events) : e \in Range(log) /\ e.id = s.id /\ e.trace = s.trace
    /\ \A m, n \in DOMAIN s.events :
          m < n => /\ s.events[m].type = "step.start"
                   /\ s.events[m].cycle <= s.events[n].cycle
                   /\ s.events[m].cycle # s.events[n].cycle => ~Ended(s.events[m].cycle)

IInv == /\ TypeOK /\ Current /\ Own /\ OnlyFirstStepIsForeign /\ Logged
        /\ \A s \in StepTraces : Whole(s)

-----------------------------------------------------------------------------
(* Sequences and runs.                                                     *)

\* What appending does.
LEMMA AppendFacts ==
  ASSUME NEW S, NEW q \in Seq(S), NEW x \in S
  PROVE  /\ Append(q, x) \in Seq(S) /\ Len(Append(q, x)) = Len(q) + 1
         /\ DOMAIN Append(q, x) = 1 .. Len(q) + 1
         /\ \A i \in 1 .. Len(q) : Append(q, x)[i] = q[i]
         /\ Append(q, x)[Len(q) + 1] = x
         /\ Range(Append(q, x)) = Range(q) \cup {x}
  <1>1. /\ Append(q, x) \in Seq(S) /\ Len(Append(q, x)) = Len(q) + 1
        /\ DOMAIN Append(q, x) = 1 .. Len(q) + 1 /\ DOMAIN q = 1 .. Len(q)
        /\ \A i \in 1 .. Len(q) : Append(q, x)[i] = q[i]
        /\ Append(q, x)[Len(q) + 1] = x /\ Len(q) \in Nat
    OBVIOUS
  <1>2. Range(Append(q, x)) = Range(q) \cup {x}
    <2>1. \A y \in Range(Append(q, x)) : y \in Range(q) \cup {x}  BY <1>1 DEF Range
    <2>2. \A y \in Range(q) : y \in Range(Append(q, x))  BY <1>1 DEF Range
    <2>3. x \in Range(Append(q, x))  BY <1>1 DEF Range
    <2> QED BY <2>1, <2>2, <2>3
  <1> QED BY <1>1, <1>2

\* A sequence begins with itself, and goes on beginning what is appended to.
LEMMA PrefixFacts ==
  ASSUME NEW S, NEW p \in Seq(S), NEW q \in Seq(S), NEW x \in S
  PROVE  /\ IsPrefix(p, p)
         /\ IsPrefix(p, q) => IsPrefix(p, Append(q, x))
  <1>1. IsPrefix(p, p)  BY DEF IsPrefix
  <1>2. ASSUME IsPrefix(p, q) PROVE IsPrefix(p, Append(q, x))
    <2>1. /\ Len(p) <= Len(q) /\ SubSeq(p, 1, Len(p)) = SubSeq(q, 1, Len(p))
          /\ Len(p) \in Nat /\ Len(q) \in Nat
      BY <1>2 DEF IsPrefix
    <2>2. SubSeq(Append(q, x), 1, Len(p)) = SubSeq(q, 1, Len(p))
      BY <2>1
    <2>3. Len(Append(q, x)) = Len(q) + 1  OBVIOUS
    <2> QED BY <2>1, <2>2, <2>3 DEF IsPrefix
  <1> QED BY <1>1, <1>2

\* NoStep is no StepTrace.
LEMMA NoStepFacts == NoStep \notin Steps /\ NoStep.events = <<>> /\ Range(NoStep.events) = {}
  BY DEF NoStep, Steps, Traces, Range

\* What filing a step does.
LEMMA AddStepFacts ==
  ASSUME NEW rs \in Seq(Runs), NEW k \in DOMAIN rs, NEW s \in Steps
  PROVE  /\ AddStep(rs, k, s) \in Seq(Runs) /\ DOMAIN AddStep(rs, k, s) = DOMAIN rs
         /\ Len(AddStep(rs, k, s)) = Len(rs)
         /\ AddStep(rs, k, s)[k].steps = Append(rs[k].steps, s)
         /\ \A j \in DOMAIN rs : /\ AddStep(rs, k, s)[j].opened = rs[j].opened
                                 /\ AddStep(rs, k, s)[j].trace = rs[j].trace
                                 /\ j # k => AddStep(rs, k, s)[j] = rs[j]
  <1>1. rs[k] \in Runs  OBVIOUS
  <1>2. rs[k].steps \in Seq(Steps)  BY <1>1 DEF Runs
  <1>3. Append(rs[k].steps, s) \in Seq(Steps)  BY <1>2, AppendFacts
  <1>4. [rs[k] EXCEPT !.steps = Append(rs[k].steps, s)] \in Runs
    BY <1>1, <1>3 DEF Runs
  <1>5. AddStep(rs, k, s) = [rs EXCEPT ![k] = [rs[k] EXCEPT !.steps = Append(rs[k].steps, s)]]
    BY <1>1 DEF AddStep, Runs
  <1> DEFINE r == [rs[k] EXCEPT !.steps = Append(rs[k].steps, s)]
  <1>6. r.steps = Append(rs[k].steps, s) /\ r.opened = rs[k].opened /\ r.trace = rs[k].trace
    BY <1>1 DEF Runs
  <1> HIDE DEF r
  <1>7. AddStep(rs, k, s) = [rs EXCEPT ![k] = r] /\ r \in Runs  BY <1>4, <1>5 DEF r
  <1>8. [rs EXCEPT ![k] = r] \in Seq(Runs) /\ Len([rs EXCEPT ![k] = r]) = Len(rs)
    BY <1>7
  <1> QED BY <1>6, <1>7, <1>8

\* What opening a run does.
LEMMA OpenFacts ==
  ASSUME runs \in Seq(Runs), started \in Nat, NEW t \in Traces
  PROVE  /\ Append(runs, NewRun(t)) \in Seq(Runs)
         /\ Len(Append(runs, NewRun(t))) = Len(runs) + 1 /\ Len(runs) \in Nat
         /\ DOMAIN Append(runs, NewRun(t)) = 1 .. Len(runs) + 1
         /\ DOMAIN runs = 1 .. Len(runs)
         /\ \A k \in DOMAIN runs : Append(runs, NewRun(t))[k] = runs[k]
         /\ Append(runs, NewRun(t))[Len(runs) + 1] = NewRun(t)
         /\ NewRun(t).steps = <<>> /\ NewRun(t).opened = started
  <1>1. NewRun(t) \in Runs /\ NewRun(t).steps = <<>> /\ NewRun(t).opened = started
    BY DEF NewRun, Runs
  <1>2. DOMAIN runs = 1 .. Len(runs) /\ Len(runs) \in Nat  OBVIOUS
  <1> QED BY <1>1, <1>2, AppendFacts

\* A StepTrace is in a run or under construction.
LEMMA StepTracesFacts ==
  /\ \A s : s \in StepTraces <=> \/ \E k \in DOMAIN runs : s \in Range(runs[k].steps)
                                 \/ step # NoStep /\ s = step
  /\ \A s : s \in StepTraces' <=> \/ \E k \in DOMAIN runs' : s \in Range(runs'[k].steps)
                                  \/ step' # NoStep /\ s = step'
  <1>1. \A s : s \in (IF step = NoStep THEN {} ELSE {step}) <=> step # NoStep /\ s = step
    OBVIOUS
  <1>2. \A s : s \in (IF step' = NoStep THEN {} ELSE {step'}) <=> step' # NoStep /\ s = step'
    OBVIOUS
  <1>3. \A s : s \in UNION {Range(runs[k].steps) : k \in DOMAIN runs}
                 <=> \E k \in DOMAIN runs : s \in Range(runs[k].steps)
    BY Zenon
  <1>4. \A s : s \in UNION {Range(runs'[k].steps) : k \in DOMAIN runs'}
                 <=> \E k \in DOMAIN runs' : s \in Range(runs'[k].steps)
    BY Zenon
  <1>5. \A s : s \in StepTraces
                 <=> \/ s \in UNION {Range(runs[k].steps) : k \in DOMAIN runs}
                     \/ s \in (IF step = NoStep THEN {} ELSE {step})
    BY DEF StepTraces
  <1>6. \A s : s \in StepTraces'
                 <=> \/ s \in UNION {Range(runs'[k].steps) : k \in DOMAIN runs'}
                     \/ s \in (IF step' = NoStep THEN {} ELSE {step'})
    BY DEF StepTraces, NoStep
  <1> QED BY <1>1, <1>2, <1>3, <1>4, <1>5, <1>6, Zenon

\* Filing the current step moves it, and breaks no run.
LEMMA FileFacts ==
  ASSUME IInv, run # 0, step # NoStep, runs' = AddStep(runs, run, step)
  PROVE  /\ runs' \in Seq(Runs) /\ DOMAIN runs' = DOMAIN runs /\ Len(runs') = Len(runs)
         /\ \A k \in DOMAIN runs : runs'[k].opened = runs[k].opened
         /\ \A k \in DOMAIN runs' : Range(runs'[k].steps) \subseteq StepTraces
         /\ OnlyFirstStepIsForeign'
  <1>1. run \in DOMAIN runs /\ step \in Steps /\ runs \in Seq(Runs)
    BY DEF IInv, TypeOK
  <1>2. /\ runs' \in Seq(Runs) /\ DOMAIN runs' = DOMAIN runs /\ Len(runs') = Len(runs)
        /\ runs'[run].steps = Append(runs[run].steps, step)
        /\ \A k \in DOMAIN runs : /\ runs'[k].opened = runs[k].opened
                                  /\ k # run => runs'[k] = runs[k]
    BY <1>1, AddStepFacts
  <1>3. runs[run].steps \in Seq(Steps)
    <2>1. runs[run] \in Runs  BY <1>1
    <2> QED BY <2>1 DEF Runs
  <1>4. step \in StepTraces /\ \A k \in DOMAIN runs : Range(runs[k].steps) \subseteq StepTraces
    BY StepTracesFacts
  <1>5. Range(Append(runs[run].steps, step)) = Range(runs[run].steps) \cup {step}
    BY <1>1, <1>3, AppendFacts
  <1>6. \A k \in DOMAIN runs' : Range(runs'[k].steps) \subseteq StepTraces
    BY <1>1, <1>2, <1>4, <1>5
  <1>7. OnlyFirstStepIsForeign'
    <2> SUFFICES ASSUME NEW k \in DOMAIN runs', NEW i \in 2 .. Len(runs'[k].steps),
                        NEW e \in Range(runs'[k].steps[i].events)
                 PROVE  e.cycle > runs'[k].opened
      BY DEF OnlyFirstStepIsForeign
    <2>1. CASE k # run
      BY <1>2, <2>1 DEF IInv, OnlyFirstStepIsForeign
    <2>2. CASE k = run /\ i <= Len(runs[run].steps)
      <3>1. i \in 2 .. Len(runs[run].steps) /\ runs'[k].steps[i] = runs[run].steps[i]
        BY <1>1, <1>2, <1>3, <2>2, AppendFacts
      <3> QED BY <1>1, <1>2, <2>2, <3>1 DEF IInv, OnlyFirstStepIsForeign
    <2>3. CASE k = run /\ ~(i <= Len(runs[run].steps))
      <3>1. /\ i = Len(runs[run].steps) + 1 /\ Len(runs[run].steps) >= 1
            /\ runs'[k].steps[i] = step
        BY <1>1, <1>2, <1>3, <2>3, AppendFacts
      <3> QED BY <1>1, <1>2, <2>3, <3>1 DEF IInv, Own
    <2> QED BY <2>1, <2>2, <2>3
  <1> QED BY <1>2, <1>6, <1>7

-----------------------------------------------------------------------------
(* One event.                                                              *)

\* What ingesting an event of a cycle that no run is younger than does.
LEMMA IngestFacts ==
  ASSUME IInv, NEW e \in Events, Ingest(e), \A k \in DOMAIN runs : runs[k].opened < e.cycle
  PROVE  /\ runs' \in Seq(Runs) /\ run' \in DOMAIN runs' /\ Len(runs) <= Len(runs')
         /\ step' \in Steps /\ step' # NoStep /\ step'.id = e.id
         /\ \/ SameStep(e) /\ step'.trace = step.trace /\ step'.events = Append(step.events, e)
            \/ step'.trace = e.trace /\ step'.events = <<e>>
         /\ log' \in Seq(Events) /\ Range(log') = Range(log) \cup {e}
         /\ \A s \in StepTraces' : s \in StepTraces \/ s = step'
         /\ \A k \in DOMAIN runs' : \/ k \in DOMAIN runs /\ runs'[k].opened = runs[k].opened
                                    \/ run = 0 /\ runs'[k].opened = started
         /\ OnlyFirstStepIsForeign' /\ Own'
         /\ UNCHANGED dropped
  <1>1. /\ runs \in Seq(Runs) /\ run \in 0 .. Len(runs) /\ started \in Nat
        /\ Len(runs) \in Nat /\ DOMAIN runs = 1 .. Len(runs)
        /\ step \in Steps \cup {NoStep} /\ log \in Seq(Events)
        /\ run = 0 => step = NoStep
    BY DEF IInv, TypeOK, Current
  <1>2. e.id \in Traces \X Nat /\ e.trace \in Traces  BY DEF Events
  <1>3. log' \in Seq(Events) /\ Range(log') = Range(log) \cup {e} /\ UNCHANGED dropped
    BY <1>1, AppendFacts DEF Ingest
  <1> DEFINE new == [id |-> e.id, trace |-> e.trace, events |-> <<e>>]
  <1>4. /\ new \in Steps /\ new # NoStep /\ new.id = e.id /\ new.trace = e.trace
        /\ new.events = <<e>> /\ Range(new.events) = {e}
    <2>1. new \in Steps
      <3>1. <<e>> \in Seq(Events)  OBVIOUS
      <3> QED BY <1>2, <3>1 DEF Steps
    <2>2. Range(<<e>>) = {e}  BY DEF Range
    <2> QED BY <2>1, <2>2, NoStepFacts
  <1> HIDE DEF new
  <1>5. CASE run = 0
    <2>1. /\ ~SameStep(e) /\ step = NoStep /\ run' = Len(runs) + 1 /\ step' = new
          /\ runs' = Append(runs, NewRun(e.trace))
      BY <1>1, <1>2, <1>5, OpenFacts DEF Ingest, SameStep, new
    <2>2. /\ runs' \in Seq(Runs) /\ Len(runs') = Len(runs) + 1 /\ Len(runs) \in Nat
          /\ DOMAIN runs' = 1 .. Len(runs) + 1 /\ DOMAIN runs = 1 .. Len(runs)
          /\ \A k \in DOMAIN runs : runs'[k] = runs[k]
          /\ runs'[Len(runs) + 1].steps = <<>> /\ runs'[Len(runs) + 1].opened = started
      BY <1>1, <1>2, <2>1, OpenFacts
    <2>3. \A s \in StepTraces' : s \in StepTraces \/ s = step'
      <3>1. Range(<<>>) = {}  BY DEF Range
      <3>2. \A k \in DOMAIN runs' : \A s \in Range(runs'[k].steps) :
               \E j \in DOMAIN runs : s \in Range(runs[j].steps)
        BY <2>2, <3>1
      <3> QED BY <2>1, <3>2, StepTracesFacts
    <2>4. OnlyFirstStepIsForeign'
      BY <2>2 DEF IInv, OnlyFirstStepIsForeign
    <2>5. Own'  BY <2>1, <2>2 DEF Own
    <2>6. /\ runs' \in Seq(Runs) /\ run' \in DOMAIN runs' /\ Len(runs) <= Len(runs')
          /\ \A k \in DOMAIN runs' : \/ k \in DOMAIN runs /\ runs'[k].opened = runs[k].opened
                                     \/ run = 0 /\ runs'[k].opened = started
      BY <1>1, <1>5, <2>1, <2>2
    <2>7. /\ step' \in Steps /\ step' # NoStep /\ step'.id = e.id
          /\ step'.trace = e.trace /\ step'.events = <<e>>
      BY <1>4, <2>1
    <2> QED BY <1>3, <2>3, <2>4, <2>5, <2>6, <2>7
  <1>6. CASE run # 0 /\ (SameStep(e) \/ step = NoStep)
    <2>1. /\ run \in DOMAIN runs /\ run' = run /\ runs' = runs
      BY <1>1, <1>6 DEF Ingest, SameStep
    <2>2. CASE SameStep(e)
      <3>1. /\ step \in Steps /\ step # NoStep /\ step.id = e.id
            /\ step' = [step EXCEPT !.events = Append(@, e)]
        BY <1>1, <2>2 DEF SameStep, Ingest
      <3>2. step.events \in Seq(Events)  BY <3>1 DEF Steps
      <3>3. /\ step' = [step EXCEPT !.events = Append(step.events, e)]
            /\ Append(step.events, e) \in Seq(Events)
            /\ Range(Append(step.events, e)) = Range(step.events) \cup {e}
        BY <3>1, <3>2, AppendFacts DEF Steps
      <3>4. /\ step' \in Steps /\ step'.id = e.id /\ step'.trace = step.trace
            /\ step'.events = Append(step.events, e)
        BY <3>1, <3>3 DEF Steps
      <3>5. step' # NoStep  BY <3>4, NoStepFacts
      <3>6. Own'
        BY <2>1, <3>1, <3>3, <3>4 DEF IInv, Own
      <3>7. \A s \in StepTraces' : s \in StepTraces \/ s = step'
        BY <2>1, StepTracesFacts
      <3>8. OnlyFirstStepIsForeign'  BY <2>1 DEF IInv, OnlyFirstStepIsForeign
      <3>9. /\ runs' \in Seq(Runs) /\ run' \in DOMAIN runs' /\ Len(runs) <= Len(runs')
            /\ \A k \in DOMAIN runs' : \/ k \in DOMAIN runs /\ runs'[k].opened = runs[k].opened
                                       \/ run = 0 /\ runs'[k].opened = started
        BY <1>1, <2>1
      <3> QED BY <1>3, <2>2, <3>4, <3>5, <3>6, <3>7, <3>8, <3>9
    <2>3. CASE step = NoStep
      <3>1. step' = new  BY <2>3 DEF Ingest, SameStep, new
      <3>2. Own'  BY <1>4, <2>1, <3>1 DEF Own
      <3>3. \A s \in StepTraces' : s \in StepTraces \/ s = step'
        BY <2>1, StepTracesFacts
      <3>4. OnlyFirstStepIsForeign'  BY <2>1 DEF IInv, OnlyFirstStepIsForeign
      <3>5. /\ runs' \in Seq(Runs) /\ run' \in DOMAIN runs' /\ Len(runs) <= Len(runs')
            /\ \A k \in DOMAIN runs' : \/ k \in DOMAIN runs /\ runs'[k].opened = runs[k].opened
                                       \/ run = 0 /\ runs'[k].opened = started
        BY <1>1, <2>1
      <3>6. /\ step' \in Steps /\ step' # NoStep /\ step'.id = e.id
            /\ step'.trace = e.trace /\ step'.events = <<e>>
        BY <1>4, <3>1
      <3> QED BY <1>3, <3>2, <3>3, <3>4, <3>5, <3>6
    <2> QED BY <1>6, <2>2, <2>3
  <1>7. CASE run # 0 /\ ~SameStep(e) /\ step # NoStep
    <2>1. /\ run \in DOMAIN runs /\ run' = run /\ runs' = AddStep(runs, run, step)
          /\ step' = new
      BY <1>1, <1>7 DEF Ingest, new
    <2>2. /\ runs' \in Seq(Runs) /\ DOMAIN runs' = DOMAIN runs /\ Len(runs') = Len(runs)
          /\ \A k \in DOMAIN runs : runs'[k].opened = runs[k].opened
          /\ \A k \in DOMAIN runs' : Range(runs'[k].steps) \subseteq StepTraces
          /\ OnlyFirstStepIsForeign'
      BY <1>7, <2>1, FileFacts
    <2>3. Own'  BY <1>4, <2>1, <2>2 DEF Own
    <2>4. \A s \in StepTraces' : s \in StepTraces \/ s = step'
      BY <2>2, StepTracesFacts
    <2>5. /\ runs' \in Seq(Runs) /\ run' \in DOMAIN runs' /\ Len(runs) <= Len(runs')
          /\ \A k \in DOMAIN runs' : \/ k \in DOMAIN runs /\ runs'[k].opened = runs[k].opened
                                     \/ run = 0 /\ runs'[k].opened = started
      BY <1>1, <2>1, <2>2
    <2>6. /\ step' \in Steps /\ step' # NoStep /\ step'.id = e.id
          /\ step'.trace = e.trace /\ step'.events = <<e>>
      BY <1>4, <2>1
    <2> QED BY <1>3, <2>2, <2>3, <2>4, <2>5, <2>6
  <1> QED BY <1>5, <1>6, <1>7

\* The two kinds of events.
LEMMA EventFacts ==
  ASSUME NEW type \in {"step.start", "step.end"}, NEW c \in Cycles,
         trace \in Traces, cycles \in Nat
  PROVE  /\ Event(type, c) \in Events /\ Event(type, c).type = type
         /\ Event(type, c).cycle = c /\ Event(type, c).id = <<trace, cycles>>
         /\ Event(type, c).id[2] = cycles /\ Event(type, c).trace = trace
  BY DEF Event, Events

\* The event of the latest cycle leaves every StepTrace whole: an event filed beside it
\* has its id, so its cycle is not ended.
LEMMA WholeFacts ==
  ASSUME IInv, NEW e \in Events, Ingest(e), \A k \in DOMAIN runs : runs[k].opened < e.cycle,
         e.id = <<trace, cycles>>, e.trace = trace, started <= e.cycle
  PROVE  \A s \in StepTraces' : Whole(s)'
  <1>1. /\ trace \in Traces /\ cycles \in Nat /\ started \in Nat /\ log \in Seq(Events)
        /\ e.cycle \in Nat /\ step \in Steps \cup {NoStep}
    BY BoundsAssumption DEF IInv, TypeOK, Events, Cycles
  <1>2. /\ Range(log') = Range(log) \cup {e}
        /\ \A s \in StepTraces' : s \in StepTraces \/ s = step'
        /\ step'.id = e.id /\ step' \in Steps
        /\ \/ SameStep(e) /\ step'.trace = step.trace /\ step'.events = Append(step.events, e)
           \/ step'.trace = e.trace /\ step'.events = <<e>>
    BY IngestFacts
  <1>3. \A f \in Range(log) : /\ f \in Events /\ f.cycle \in Nat /\ f.cycle <= e.cycle
                              /\ f.type = "step.end" => f.id[2] < cycles
                              /\ f.id[2] \in Nat
    <2> SUFFICES ASSUME NEW f \in Range(log)
                 PROVE  /\ f \in Events /\ f.cycle \in Nat /\ f.cycle <= e.cycle
                        /\ f.type = "step.end" => f.id[2] < cycles
                        /\ f.id[2] \in Nat
      OBVIOUS
    <2>1. f \in Events  BY <1>1 DEF Range
    <2>2. f.cycle \in Nat /\ f.id[2] \in Nat  BY <2>1 DEF Events, Cycles
    <2>3. f.cycle <= started /\ (f.type = "step.end" => f.id[2] < cycles)
      BY DEF IInv, Logged
    <2> QED BY <1>1, <2>1, <2>2, <2>3
  <1>4. \A c : Ended(c)' => Ended(c) \/ c = e.cycle
    BY <1>2 DEF Ended
  <1>5. ASSUME NEW s \in StepTraces PROVE Whole(s)'
    <2>1. Whole(s)  BY <1>5 DEF IInv
    <2>2. ASSUME NEW m \in DOMAIN s.events, NEW n \in DOMAIN s.events, m < n,
                 s.events[m].cycle # s.events[n].cycle
          PROVE  ~Ended(s.events[m].cycle)'
      <3>1. s.events[m] \in Range(log) /\ s.events[n] \in Range(log)
        BY <2>1 DEF Whole, Range
      <3>2. s.events[m].cycle < e.cycle
        BY <1>1, <1>3, <2>1, <2>2, <3>1 DEF Whole
      <3> QED BY <1>1, <1>4, <2>1, <2>2, <3>2 DEF Whole
    <2> QED BY <1>2, <2>1, <2>2 DEF Whole
  <1>6. CASE SameStep(e) /\ step'.trace = step.trace /\ step'.events = Append(step.events, e)
    <2> SUFFICES ASSUME NEW s \in StepTraces', s = step' PROVE Whole(s)'
      BY <1>2, <1>5
    <2>1. /\ step \in Steps /\ step.id = e.id /\ step.events \in Seq(Events)
          /\ step \in StepTraces
      BY <1>1, <1>6, StepTracesFacts DEF SameStep, Steps
    <2>2. Whole(step)  BY <2>1 DEF IInv
    <2> DEFINE q == step.events
    <2>3. /\ DOMAIN Append(q, e) = 1 .. Len(q) + 1 /\ Len(q) \in Nat /\ DOMAIN q = 1 .. Len(q)
          /\ \A i \in 1 .. Len(q) : Append(q, e)[i] = q[i]
          /\ Append(q, e)[Len(q) + 1] = e
          /\ Range(Append(q, e)) = Range(q) \cup {e}
      BY <2>1, AppendFacts
    <2>4. \A i \in DOMAIN q : /\ q[i] \in Range(log) /\ q[i].id = <<trace, cycles>>
                              /\ q[i].type # "step.end" /\ ~Ended(q[i].cycle)
      <3> SUFFICES ASSUME NEW i \in DOMAIN q
                   PROVE  /\ q[i] \in Range(log) /\ q[i].id = <<trace, cycles>>
                          /\ q[i].type # "step.end" /\ ~Ended(q[i].cycle)
        OBVIOUS
      <3>1. q[i] \in Range(log) /\ q[i].id = <<trace, cycles>>
        BY <2>1, <2>2 DEF Whole, Range
      <3>2. \A f \in Range(log) : f.cycle = q[i].cycle => f.type # "step.end"
        <4> SUFFICES ASSUME NEW f \in Range(log), f.cycle = q[i].cycle
                     PROVE  f.type # "step.end"
          OBVIOUS
        <4>1. f.id = <<trace, cycles>>  BY <3>1 DEF IInv, Logged
        <4> QED BY <1>1, <1>3, <4>1
      <3> QED BY <3>1, <3>2 DEF Ended
    <2>5. s.id[1] = s.trace
      BY <1>2, <1>6, <2>1, <2>2 DEF Whole
    <2>6. \A f \in Range(s.events) :
             f \in Range(log)' /\ f.id = s.id /\ f.trace = s.trace
      <3>1. \A f \in Range(q) : f \in Range(log) /\ f.id = step.id /\ f.trace = step.trace
        BY <2>2 DEF Whole
      <3>2. step.trace = e.trace  BY <2>1, <2>2 DEF Whole
      <3> QED BY <1>2, <1>6, <2>1, <2>3, <3>1, <3>2
    <2>7. ASSUME NEW m \in DOMAIN s.events, NEW n \in DOMAIN s.events, m < n
          PROVE  /\ s.events[m].type = "step.start"
                 /\ s.events[m].cycle <= s.events[n].cycle
                 /\ s.events[m].cycle # s.events[n].cycle
                       => ~Ended(s.events[m].cycle)'
      <3>1. m \in DOMAIN q /\ s.events[m] = q[m]
        BY <1>6, <2>3, <2>7
      <3>2. /\ q[m] \in Range(log) /\ q[m].type # "step.end" /\ ~Ended(q[m].cycle)
            /\ q[m].cycle <= e.cycle /\ q[m] \in Events
        BY <1>3, <2>4, <3>1
      <3>3. q[m].type = "step.start"  BY <3>2 DEF Events
      <3>4. CASE n \in DOMAIN q
        <4>1. s.events[n] = q[n] /\ q[n] \in Range(log)  BY <1>6, <2>3, <2>4, <3>4
        <4>2. /\ q[m].cycle <= q[n].cycle /\ q[n].cycle <= e.cycle
              /\ q[m].cycle \in Nat /\ q[n].cycle \in Nat
          BY <1>3, <2>2, <2>7, <3>1, <3>2, <3>4, <4>1 DEF Whole
        <4>3. q[m].cycle # q[n].cycle => q[m].cycle # e.cycle  BY <1>1, <4>2
        <4> QED BY <1>4, <3>1, <3>2, <3>3, <4>1, <4>2, <4>3
      <3>5. CASE n \notin DOMAIN q
        <4>1. s.events[n] = e  BY <1>6, <2>3, <3>5
        <4> QED BY <1>4, <3>1, <3>2, <3>3, <4>1
      <3> QED BY <3>4, <3>5
    <2> QED BY <2>5, <2>6, <2>7 DEF Whole
  <1>7. CASE step'.trace = e.trace /\ step'.events = <<e>>
    <2> SUFFICES ASSUME NEW s \in StepTraces', s = step' PROVE Whole(s)'
      BY <1>2, <1>5
    <2>1. DOMAIN s.events = {1} /\ Range(s.events) = {e}  BY <1>7 DEF Range
    <2>2. s.id[1] = s.trace  BY <1>2, <1>7
    <2>3. \A f \in Range(s.events) :
             f \in Range(log)' /\ f.id = s.id /\ f.trace = s.trace
      BY <1>2, <1>7, <2>1
    <2>4. \A m, n \in DOMAIN s.events : ~(m < n)  BY <2>1
    <2> QED BY <2>2, <2>3, <2>4 DEF Whole
  <1> QED BY <1>2, <1>6, <1>7

\* What ingests nothing and files no new StepTrace leaves them whole.
LEMMA QuietFacts ==
  ASSUME IInv, UNCHANGED log, \A s \in StepTraces' : s \in StepTraces
  PROVE  \A s \in StepTraces' : Whole(s)'
  <1>1. \A c : Ended(c)' <=> Ended(c)  BY DEF Ended
  <1>2. ASSUME NEW s \in StepTraces PROVE Whole(s)'
    <2>1. Whole(s)  BY <1>2 DEF IInv
    <2> QED BY <1>1, <2>1 DEF Whole
  <1> QED BY <1>2

-----------------------------------------------------------------------------
(* The invariant, action by action.                                        *)

LEMMA InitIInv == Init => IInv
  <1> SUFFICES ASSUME Init PROVE IInv
    OBVIOUS
  <1>1. /\ runs = <<>> /\ Len(runs) = 0 /\ DOMAIN runs = {} /\ log = <<>>
        /\ step = NoStep /\ run = 0 /\ Range(log) = {}
    BY DEF Init, Range
  <1>2. TypeOK
    <2>1. runs \in Seq(Runs) /\ log \in Seq(Events)  BY <1>1
    <2>2. NoFile \in [origin : 0 .. Len(runs), steps : Seq(Steps)]
      BY <1>1 DEF NoFile
    <2>3. files \in [Traces -> [origin : 0 .. Len(runs), steps : Seq(Steps)]]
      BY <2>2 DEF Init
    <2>4. /\ trace \in Traces /\ cycles \in 0 .. started /\ started \in 0 .. MAX_CYCLES
          /\ left \in {Idle} \cup 0 .. MAX_STEPS /\ dropped \in SUBSET Events
          /\ run \in 0 .. Len(runs) /\ step \in Steps \cup {NoStep}
      BY <1>1, BoundsAssumption DEF Init, Traces
    <2>5. stepping \in BOOLEAN  BY DEF Init
    <2> QED BY <2>1, <2>3, <2>4, <2>5 DEF TypeOK
  <1>3. Current /\ Own /\ OnlyFirstStepIsForeign /\ Logged
    BY <1>1 DEF Init, Current, Own, OnlyFirstStepIsForeign, Logged
  <1>4. \A s : s \notin StepTraces  BY <1>1, StepTracesFacts
  <1> QED BY <1>2, <1>3, <1>4 DEF IInv

\* The store's files stay typed while runs are only added and lengthened.
LEMMA FilesFacts ==
  ASSUME TypeOK, UNCHANGED files, Len(runs') \in Nat, Len(runs) <= Len(runs')
  PROVE  files' \in [Traces -> [origin : 0 .. Len(runs'), steps : Seq(Steps)]]
  <1>1. Len(runs) \in Nat  BY DEF TypeOK
  <1>2. \A t \in Traces : files[t] \in [origin : 0 .. Len(runs'), steps : Seq(Steps)]
    <2> SUFFICES ASSUME NEW t \in Traces
                 PROVE  files[t] \in [origin : 0 .. Len(runs'), steps : Seq(Steps)]
      OBVIOUS
    <2>1. files[t] \in [origin : 0 .. Len(runs), steps : Seq(Steps)]  BY DEF TypeOK
    <2> QED BY <1>1, <2>1
  <1> QED BY <1>2 DEF TypeOK

\* A step of the agent begins.
LEMMA StepStartIInv == ASSUME IInv, StepStart PROVE IInv'
  <1> DEFINE e == Event("step.start", started + 1)
  <1>1. /\ trace \in Traces /\ cycles \in Nat /\ started \in Nat /\ cycles <= started
        /\ started + 1 \in Cycles /\ ~stepping /\ MAX_CYCLES \in Nat /\ started < MAX_CYCLES
    BY BoundsAssumption DEF IInv, TypeOK, StepStart, Cycles
  <1>2. /\ e \in Events /\ e.type = "step.start" /\ e.cycle = started + 1
        /\ e.id = <<trace, cycles>> /\ e.id[2] = cycles /\ e.trace = trace
    BY <1>1, EventFacts
  <1>3. /\ Ingest(e) /\ started' = started + 1 /\ stepping' = TRUE
        /\ UNCHANGED <<trace, cycles, left, files>>
    BY DEF StepStart
  <1>4. \A k \in DOMAIN runs : runs[k].opened \in Nat /\ runs[k].opened <= started
    <2> SUFFICES ASSUME NEW k \in DOMAIN runs
                 PROVE  runs[k].opened \in Nat /\ runs[k].opened <= started
      OBVIOUS
    <2>1. runs[k] \in Runs  BY DEF IInv, TypeOK
    <2> QED BY <2>1 DEF Runs, IInv, Current
  <1>5. \A k \in DOMAIN runs : runs[k].opened < e.cycle
    BY <1>1, <1>2, <1>4
  <1> HIDE DEF e
  <1>6. /\ runs' \in Seq(Runs) /\ run' \in DOMAIN runs' /\ Len(runs) <= Len(runs')
        /\ step' \in Steps /\ step' # NoStep /\ step'.id = e.id
        /\ log' \in Seq(Events) /\ Range(log') = Range(log) \cup {e}
        /\ \A k \in DOMAIN runs' : \/ k \in DOMAIN runs /\ runs'[k].opened = runs[k].opened
                                   \/ run = 0 /\ runs'[k].opened = started
        /\ OnlyFirstStepIsForeign' /\ Own' /\ UNCHANGED dropped
    BY <1>2, <1>3, <1>5, IngestFacts
  <1>7. \A s \in StepTraces' : Whole(s)'
    BY <1>1, <1>2, <1>3, <1>5, WholeFacts
  <1>8. TypeOK'
    <2>1. files' \in [Traces -> [origin : 0 .. Len(runs'), steps : Seq(Steps)]]
      BY <1>3, <1>6, FilesFacts DEF IInv
    <2>2. run' \in 0 .. Len(runs')  BY <1>6
    <2>3. cycles' \in 0 .. started' /\ started' \in 0 .. MAX_CYCLES /\ stepping' \in BOOLEAN
      BY <1>1, <1>3
    <2> QED BY <1>3, <1>6, <2>1, <2>2, <2>3 DEF IInv, TypeOK
  <1>9. Current'
    <2>1. \A k \in DOMAIN runs' : runs'[k].opened < started'
      BY <1>1, <1>3, <1>4, <1>6
    <2>2. run' # 0  BY <1>6
    <2>3. \A k \in DOMAIN runs' : runs'[k].opened <= started'
      BY <1>1, <1>3, <1>4, <1>6
    <2> QED BY <1>1, <1>2, <1>3, <1>6, <2>1, <2>2, <2>3 DEF Current
  <1>10. Logged'
    <2>1. \A f \in Range(log) : f \in Events /\ f.cycle \in Nat
      <3> SUFFICES ASSUME NEW f \in Range(log) PROVE f \in Events /\ f.cycle \in Nat
        OBVIOUS
      <3>1. f \in Events  BY DEF IInv, TypeOK, Range
      <3> QED BY <3>1, BoundsAssumption DEF Events, Cycles
    <2>2. \A f \in Range(log) : /\ f.cycle < e.cycle /\ f.cycle <= started /\ f.id[2] <= cycles
                                /\ f.type = "step.end" => f.id[2] < cycles
      BY <1>1, <1>2, <2>1 DEF IInv, Logged
    <2>3. \A f, g \in Range(log) : f.cycle = g.cycle => f.id = g.id
      BY DEF IInv, Logged
    <2>4. \A f \in Range(log)' : f \in Range(log) \/ f = e
      BY <1>6
    <2>5. \A f \in Range(log) : f.cycle < started'
      BY <1>1, <1>3, <2>1, <2>2
    <2>6. \A f \in Range(log)' : /\ f.cycle <= started' /\ f.id[2] <= cycles'
                                 /\ f.type = "step.end" => /\ f.id[2] < cycles'
                                                           /\ stepping' => f.cycle < started'
                                 /\ stepping' /\ f.cycle = started' => f.id = <<trace', cycles'>>
      <3> SUFFICES ASSUME NEW f \in Range(log)'
                   PROVE  /\ f.cycle <= started' /\ f.id[2] <= cycles'
                          /\ f.type = "step.end" => /\ f.id[2] < cycles'
                                                    /\ stepping' => f.cycle < started'
                          /\ stepping' /\ f.cycle = started' => f.id = <<trace', cycles'>>
        OBVIOUS
      <3>1. CASE f = e  BY <1>1, <1>2, <1>3, <3>1
      <3>2. CASE f \in Range(log)  BY <1>1, <1>3, <2>1, <2>2, <2>5, <3>2
      <3> QED BY <2>4, <3>1, <3>2
    <2>7. \A f, g \in Range(log)' : f.cycle = g.cycle => f.id = g.id
      <3> SUFFICES ASSUME NEW f \in Range(log)', NEW g \in Range(log)', f.cycle = g.cycle
                   PROVE  f.id = g.id
        OBVIOUS
      <3> QED BY <1>1, <1>2, <2>1, <2>2, <2>3, <2>4
    <2> QED BY <2>6, <2>7 DEF Logged
  <1> QED BY <1>6, <1>7, <1>8, <1>9, <1>10 DEF IInv

\* A step of the agent ends.
LEMMA StepEndIInv == ASSUME IInv, StepEnd PROVE IInv'
  <1> DEFINE e == Event("step.end", started)
  <1>1. /\ trace \in Traces /\ cycles \in Nat /\ started \in Nat /\ cycles < started
        /\ started \in Cycles /\ stepping /\ MAX_CYCLES \in Nat /\ MAX_STEPS \in Nat
        /\ started \in 0 .. MAX_CYCLES /\ run # 0
    BY BoundsAssumption DEF IInv, TypeOK, StepEnd, Cycles, Current
  <1>2. /\ e \in Events /\ e.type = "step.end" /\ e.cycle = started
        /\ e.id = <<trace, cycles>> /\ e.id[2] = cycles /\ e.trace = trace
    BY <1>1, EventFacts
  <1>3. /\ Ingest(e) /\ started' = started /\ stepping' = FALSE /\ cycles' = cycles + 1
        /\ UNCHANGED <<trace, files>>
        /\ left' \in {Counted, IF left = Idle THEN Idle ELSE 0}
    BY DEF StepEnd
  <1>4. \A k \in DOMAIN runs : /\ runs[k].opened \in Nat /\ runs[k].opened < started
                               /\ runs[k].opened < e.cycle
    <2> SUFFICES ASSUME NEW k \in DOMAIN runs
                 PROVE  /\ runs[k].opened \in Nat /\ runs[k].opened < started
                        /\ runs[k].opened < e.cycle
      OBVIOUS
    <2>1. runs[k] \in Runs  BY DEF IInv, TypeOK
    <2> QED BY <1>1, <1>2, <2>1 DEF Runs, IInv, Current
  <1> HIDE DEF e
  <1>5. /\ runs' \in Seq(Runs) /\ run' \in DOMAIN runs' /\ Len(runs) <= Len(runs')
        /\ step' \in Steps /\ step' # NoStep
        /\ log' \in Seq(Events) /\ Range(log') = Range(log) \cup {e}
        /\ \A k \in DOMAIN runs' : \/ k \in DOMAIN runs /\ runs'[k].opened = runs[k].opened
                                   \/ run = 0 /\ runs'[k].opened = started
        /\ OnlyFirstStepIsForeign' /\ Own' /\ UNCHANGED dropped
    BY <1>2, <1>3, <1>4, IngestFacts
  <1>6. \A s \in StepTraces' : Whole(s)'
    BY <1>1, <1>2, <1>3, <1>4, WholeFacts
  <1>7. TypeOK'
    <2>1. files' \in [Traces -> [origin : 0 .. Len(runs'), steps : Seq(Steps)]]
      BY <1>3, <1>5, FilesFacts DEF IInv
    <2>2. run' \in 0 .. Len(runs')  BY <1>5
    <2>3. cycles' \in 0 .. started' /\ started' \in 0 .. MAX_CYCLES /\ stepping' \in BOOLEAN
      <3>1. cycles + 1 \in 0 .. started  BY <1>1
      <3> QED BY <1>1, <1>3, <3>1
    <2>4. left' \in {Idle} \cup 0 .. MAX_STEPS
      BY <1>1, <1>3 DEF IInv, TypeOK, Counted, Idle
    <2> QED BY <1>3, <1>5, <2>1, <2>2, <2>3, <2>4 DEF IInv, TypeOK
  <1>8. Current'
    <2>1. run' # 0  BY <1>5
    <2>2. \A k \in DOMAIN runs' : runs'[k].opened <= started'
      BY <1>1, <1>3, <1>4, <1>5
    <2> QED BY <1>3, <2>1, <2>2 DEF Current
  <1>9. Logged'
    <2>1. \A f \in Range(log) : f \in Events /\ f.cycle \in Nat /\ f.id[2] \in Nat
      <3> SUFFICES ASSUME NEW f \in Range(log)
                   PROVE  f \in Events /\ f.cycle \in Nat /\ f.id[2] \in Nat
        OBVIOUS
      <3>1. f \in Events  BY DEF IInv, TypeOK, Range
      <3> QED BY <3>1, BoundsAssumption DEF Events, Cycles
    <2>2. \A f \in Range(log) : /\ f.cycle <= started /\ f.id[2] <= cycles
                                /\ f.cycle = started => f.id = <<trace, cycles>>
      BY <1>1 DEF IInv, Logged
    <2>3. \A f, g \in Range(log) : f.cycle = g.cycle => f.id = g.id
      BY DEF IInv, Logged
    <2>4. \A f \in Range(log)' : f \in Range(log) \/ f = e
      BY <1>5
    <2>5. \A f \in Range(log)' : /\ f.cycle <= started' /\ f.id[2] < cycles'
                                 /\ f.id[2] <= cycles'
      BY <1>1, <1>2, <1>3, <2>1, <2>2, <2>4
    <2>6. \A f, g \in Range(log)' : f.cycle = g.cycle => f.id = g.id
      BY <1>2, <2>2, <2>3, <2>4
    <2> QED BY <1>3, <2>5, <2>6 DEF Logged
  <1> QED BY <1>5, <1>6, <1>7, <1>8, <1>9 DEF IInv

\* Steps that leave the recorder alone: stepping may end, the trace change between steps.
LEMMA RecorderIdleIInv ==
  ASSUME IInv, UNCHANGED <<recorder, started>>, TypeOK', cycles <= cycles',
         stepping' => stepping, stepping' => UNCHANGED <<trace, cycles>>
  PROVE  IInv'
  <1>1. UNCHANGED <<runs, run, step, log, dropped, started>>  BY DEF recorder
  <1>2. Current'  BY <1>1 DEF IInv, Current
  <1>3. Own' /\ OnlyFirstStepIsForeign'
    BY <1>1 DEF IInv, Own, OnlyFirstStepIsForeign
  <1>4. Logged'
    <2>1. \A f \in Range(log) : f.id[2] \in Nat
      <3> SUFFICES ASSUME NEW f \in Range(log) PROVE f.id[2] \in Nat
        OBVIOUS
      <3>1. f \in Events  BY DEF IInv, TypeOK, Range
      <3> QED BY <3>1 DEF Events
    <2>2. cycles \in Nat /\ cycles' \in Nat  BY DEF IInv, TypeOK
    <2>3. \A f \in Range(log) : /\ f.id[2] <= cycles'
                                /\ f.type = "step.end" => f.id[2] < cycles'
      BY <2>1, <2>2 DEF IInv, Logged
    <2> QED BY <1>1, <2>3 DEF IInv, Logged
  <1>5. \A s \in StepTraces' : s \in StepTraces  BY <1>1, StepTracesFacts
  <1>6. \A s \in StepTraces' : Whole(s)'  BY <1>1, <1>5, QuietFacts
  <1> QED BY <1>2, <1>3, <1>4, <1>6 DEF IInv

LEMMA StepRaisesIInv == ASSUME IInv, StepRaises PROVE IInv'
  <1>1. cycles' \in 0 .. started /\ cycles <= cycles'
    BY DEF IInv, TypeOK, Current, StepRaises
  <1>2. TypeOK'
    BY <1>1 DEF IInv, TypeOK, StepRaises, recorder
  <1> QED BY <1>1, <1>2, RecorderIdleIInv DEF StepRaises, recorder

LEMMA StepDeclinesIInv == ASSUME IInv, StepDeclines PROVE IInv'
  <1>1. TypeOK'
    BY BoundsAssumption DEF IInv, TypeOK, StepDeclines, recorder, agent
  <1> QED BY <1>1, RecorderIdleIInv DEF StepDeclines, recorder, agent, IInv, TypeOK

LEMMA AgentRunIInv == ASSUME IInv, AgentRun PROVE IInv'
  <1>1. trace' \in Traces
    BY BoundsAssumption DEF IInv, TypeOK, AgentRun, Traces
  <1>2. TypeOK'
    BY <1>1 DEF IInv, TypeOK, AgentRun, recorder
  <1> QED BY <1>2, RecorderIdleIInv DEF AgentRun, recorder, CallerIdle, IInv, TypeOK

LEMMA SaveIInv == ASSUME IInv, Save PROVE IInv'
  <1>1. runs[run] \in Runs  BY DEF IInv, TypeOK, Save
  <1>2. [origin |-> run, steps |-> runs[run].steps] \in [origin : 0 .. Len(runs), steps : Seq(Steps)]
    BY <1>1 DEF IInv, TypeOK, Runs
  <1>3. files' \in [Traces -> [origin : 0 .. Len(runs), steps : Seq(Steps)]]
    BY <1>2 DEF IInv, TypeOK, Save
  <1>4. TypeOK'
    BY <1>3 DEF IInv, TypeOK, Save, recorder, agent
  <1> QED BY <1>4, RecorderIdleIInv DEF Save, recorder, agent, IInv, TypeOK

\* A run is opened beside the step under construction.
LEMMA HarnessRunIInv == ASSUME IInv, HarnessRun PROVE IInv'
  <1>1. /\ runs \in Seq(Runs) /\ started \in Nat /\ trace \in Traces /\ ~stepping
        /\ runs' = Append(runs, NewRun(trace)) /\ run' = Len(runs) + 1
        /\ UNCHANGED <<step, log, dropped, trace, cycles, stepping, started, files>>
        /\ left' \in {Idle} \cup 0 .. MAX_STEPS
    BY DEF IInv, TypeOK, HarnessRun, StartRun, agent, CallerIdle
  <1>2. /\ runs' \in Seq(Runs) /\ Len(runs') = Len(runs) + 1 /\ Len(runs) \in Nat
        /\ DOMAIN runs' = 1 .. Len(runs) + 1 /\ DOMAIN runs = 1 .. Len(runs)
        /\ \A k \in DOMAIN runs : runs'[k] = runs[k]
        /\ runs'[Len(runs) + 1].steps = <<>> /\ runs'[Len(runs) + 1].opened = started
    BY <1>1, OpenFacts
  <1>3. TypeOK'
    <2>1. files' \in [Traces -> [origin : 0 .. Len(runs'), steps : Seq(Steps)]]
      BY <1>1, <1>2, FilesFacts DEF IInv
    <2>2. run' \in 0 .. Len(runs')  BY <1>1, <1>2
    <2> QED BY <1>1, <1>2, <2>1, <2>2 DEF IInv, TypeOK
  <1>4. Current'
    <2>1. \A k \in DOMAIN runs' : runs'[k].opened <= started'
      BY <1>1, <1>2 DEF IInv, Current
    <2> QED BY <1>1, <1>2, <2>1 DEF Current
  <1>5. Own'  BY <1>1, <1>2 DEF Own
  <1>6. OnlyFirstStepIsForeign'
    BY <1>2 DEF IInv, OnlyFirstStepIsForeign
  <1>7. Logged'  BY <1>1 DEF IInv, Logged
  <1>8. \A s \in StepTraces' : s \in StepTraces
    <2>1. Range(<<>>) = {}  BY DEF Range
    <2>2. \A k \in DOMAIN runs' : \A s \in Range(runs'[k].steps) :
             \E j \in DOMAIN runs : s \in Range(runs[j].steps)
      BY <1>2, <2>1
    <2> QED BY <1>1, <2>2, StepTracesFacts
  <1>9. \A s \in StepTraces' : Whole(s)'  BY <1>1, <1>8, QuietFacts
  <1> QED BY <1>3, <1>4, <1>5, <1>6, <1>7, <1>9 DEF IInv

\* The step under construction is filed, or forgotten when there is no run.
LEMMA FinalizeIInv ==
  ASSUME IInv, Finalize, ~stepping, UNCHANGED <<agent, files>>,
         left' \in {Idle} \cup 0 .. MAX_STEPS
  PROVE  IInv'
  <1>1. /\ step' = NoStep /\ ~stepping
        /\ UNCHANGED <<run, log, dropped, trace, cycles, stepping, started, files>>
    BY DEF Finalize, agent
  <1>2. /\ runs' \in Seq(Runs) /\ DOMAIN runs' = DOMAIN runs /\ Len(runs') = Len(runs)
        /\ \A k \in DOMAIN runs : runs'[k].opened = runs[k].opened
        /\ \A k \in DOMAIN runs' : Range(runs'[k].steps) \subseteq StepTraces
        /\ OnlyFirstStepIsForeign'
    <2>1. CASE run # 0 /\ step # NoStep
      <3>1. runs' = AddStep(runs, run, step)  BY <2>1 DEF Finalize
      <3> QED BY <2>1, <3>1, FileFacts
    <2>2. CASE ~(run # 0 /\ step # NoStep)
      <3>1. runs' = runs  BY <2>2 DEF Finalize
      <3>2. OnlyFirstStepIsForeign'  BY <3>1 DEF IInv, OnlyFirstStepIsForeign
      <3>3. \A k \in DOMAIN runs' : \A s \in Range(runs'[k].steps) : s \in StepTraces
        BY <3>1, StepTracesFacts
      <3>4. runs \in Seq(Runs)  BY DEF IInv, TypeOK
      <3> QED BY <3>1, <3>2, <3>3, <3>4
    <2> QED BY <2>1, <2>2
  <1>3. TypeOK'
    <2>1. Len(runs) \in Nat  BY DEF IInv, TypeOK
    <2>2. files' \in [Traces -> [origin : 0 .. Len(runs'), steps : Seq(Steps)]]
      BY <1>1, <1>2, <2>1, FilesFacts DEF IInv
    <2> QED BY <1>1, <1>2, <2>2 DEF IInv, TypeOK
  <1>4. Current'  BY <1>1, <1>2 DEF IInv, Current
  <1>5. Own'  BY <1>1 DEF Own
  <1>6. Logged'  BY <1>1 DEF IInv, Logged
  <1>7. \A s \in StepTraces' : s \in StepTraces  BY <1>1, <1>2, StepTracesFacts
  <1>8. \A s \in StepTraces' : Whole(s)'  BY <1>1, <1>7, QuietFacts
  <1> QED BY <1>2, <1>3, <1>4, <1>5, <1>6, <1>8 DEF IInv

LEMMA HarnessReturnsIInv == ASSUME IInv, HarnessReturns PROVE IInv'
  BY FinalizeIInv DEF HarnessReturns

LEMMA CallerFinalizesIInv == ASSUME IInv, CallerFinalizes PROVE IInv'
  <1>1. left' \in {Idle} \cup 0 .. MAX_STEPS
    BY DEF IInv, TypeOK, CallerFinalizes
  <1> QED BY <1>1, FinalizeIInv DEF CallerFinalizes, CallerIdle

\* The step under construction is discarded.
LEMMA CallerClearsIInv == ASSUME IInv, CallerClears PROVE IInv'
  <1>1. /\ run' = 0 /\ step' = NoStep /\ ~stepping
        /\ dropped' = dropped \cup Range(step.events)
        /\ UNCHANGED <<trace, cycles, stepping, started, left, runs, log, files>>
    BY DEF CallerClears, CallerIdle, agent
  <1>2. Range(step.events) \subseteq Events
    <2>1. CASE step = NoStep  BY <2>1, NoStepFacts
    <2>2. CASE step # NoStep
      <3>1. step.events \in Seq(Events)  BY <2>2 DEF IInv, TypeOK, Steps
      <3> QED BY <3>1 DEF Range
    <2> QED BY <2>1, <2>2
  <1>3. TypeOK'
    <2>1. run' \in 0 .. Len(runs')  BY <1>1 DEF IInv, TypeOK
    <2> QED BY <1>1, <1>2, <2>1 DEF IInv, TypeOK
  <1>4. Current' /\ Own' /\ Logged' /\ OnlyFirstStepIsForeign'
    BY <1>1 DEF IInv, Current, Own, Logged, OnlyFirstStepIsForeign
  <1>5. \A s \in StepTraces' : s \in StepTraces  BY <1>1, StepTracesFacts
  <1>6. \A s \in StepTraces' : Whole(s)'  BY <1>1, <1>5, QuietFacts
  <1> QED BY <1>3, <1>4, <1>6 DEF IInv

LEMMA StutterIInv == ASSUME IInv, UNCHANGED vars PROVE IInv'
  <1>1. TypeOK'  BY DEF IInv, TypeOK, vars
  <1> QED BY <1>1, RecorderIdleIInv DEF vars, recorder, IInv, TypeOK

LEMMA NextIInv == IInv /\ [Next]_vars => IInv'
  BY StepStartIInv, StepEndIInv, StepRaisesIInv, StepDeclinesIInv, AgentRunIInv,
     HarnessRunIInv, HarnessReturnsIInv, CallerFinalizesIInv, CallerClearsIInv,
     SaveIInv, StutterIInv
  DEF Next

LEMMA Invariance == Spec => []IInv
  BY InitIInv, NextIInv, PTL DEF Spec

-----------------------------------------------------------------------------
(* Files.                                                                  *)

\* Runs are never rewritten, only lengthened.
Lengthened(r, s) == /\ s.trace = r.trace
                    /\ s.steps = r.steps \/ \E x \in Steps : s.steps = Append(r.steps, x)

RunsLengthen == \A k \in DOMAIN runs : k \in DOMAIN runs' /\ Lengthened(runs[k], runs'[k])

LEMMA FileLengthens ==
  ASSUME IInv, run # 0, step # NoStep, runs' = AddStep(runs, run, step)
  PROVE  RunsLengthen
  <1>1. run \in DOMAIN runs /\ step \in Steps /\ runs \in Seq(Runs)
    BY DEF IInv, TypeOK
  <1>2. /\ DOMAIN runs' = DOMAIN runs
        /\ runs'[run].steps = Append(runs[run].steps, step)
        /\ \A k \in DOMAIN runs : /\ runs'[k].trace = runs[k].trace
                                  /\ k # run => runs'[k] = runs[k]
    BY <1>1, AddStepFacts
  <1>3. ASSUME NEW k \in DOMAIN runs PROVE Lengthened(runs[k], runs'[k])
    <2>1. CASE k = run  BY <1>1, <1>2, <2>1 DEF Lengthened
    <2>2. CASE k # run  BY <1>2, <2>2 DEF Lengthened
    <2> QED BY <2>1, <2>2
  <1> QED BY <1>2, <1>3 DEF RunsLengthen

LEMMA IngestLengthens == ASSUME IInv, NEW e \in Events, Ingest(e) PROVE RunsLengthen
  <1>1. runs \in Seq(Runs) /\ started \in Nat /\ e.trace \in Traces
    BY DEF IInv, TypeOK, Events
  <1>2. CASE run = 0
    <2>1. step = NoStep /\ runs' = Append(runs, NewRun(e.trace))
      BY <1>2 DEF IInv, Current, Ingest, SameStep
    <2> QED BY <1>1, <2>1, OpenFacts DEF RunsLengthen, Lengthened
  <1>3. CASE run # 0 /\ (SameStep(e) \/ step = NoStep)
    <2>1. runs' = runs  BY <1>3 DEF Ingest, SameStep
    <2> QED BY <2>1 DEF RunsLengthen, Lengthened
  <1>4. CASE run # 0 /\ ~SameStep(e) /\ step # NoStep
    <2>1. runs' = AddStep(runs, run, step)  BY <1>4 DEF Ingest
    <2> QED BY <1>4, <2>1, FileLengthens
  <1> QED BY <1>2, <1>3, <1>4

LEMMA NextLengthens == ASSUME IInv, [Next]_vars PROVE RunsLengthen
  <1>1. /\ trace \in Traces /\ cycles \in Nat /\ started \in Nat /\ runs \in Seq(Runs)
        /\ MAX_CYCLES \in Nat
    BY BoundsAssumption DEF IInv, TypeOK
  <1>2. CASE StepStart
    <2>1. Event("step.start", started + 1) \in Events
      BY <1>1, <1>2, EventFacts DEF StepStart, Cycles
    <2> QED BY <1>2, <2>1, IngestLengthens DEF StepStart
  <1>3. CASE StepEnd
    <2>1. started \in Cycles
      BY <1>1, <1>3 DEF IInv, TypeOK, Current, StepEnd, Cycles
    <2>2. Event("step.end", started) \in Events
      BY <1>1, <2>1, EventFacts
    <2> QED BY <1>3, <2>2, IngestLengthens DEF StepEnd
  <1>4. CASE HarnessRun
    <2>1. runs' = Append(runs, NewRun(trace))  BY <1>4 DEF HarnessRun, StartRun
    <2> QED BY <1>1, <2>1, OpenFacts DEF RunsLengthen, Lengthened
  <1>5. CASE Finalize
    <2>1. CASE run # 0 /\ step # NoStep
      BY <1>5, <2>1, FileLengthens DEF Finalize
    <2>2. CASE ~(run # 0 /\ step # NoStep)
      <3>1. runs' = runs  BY <1>5, <2>2 DEF Finalize
      <3> QED BY <3>1 DEF RunsLengthen, Lengthened
    <2> QED BY <2>1, <2>2
  <1>6. CASE UNCHANGED runs
    BY <1>6 DEF RunsLengthen, Lengthened
  <1>7. StepRaises \/ StepDeclines \/ AgentRun \/ CallerClears \/ Save \/ UNCHANGED vars
           => UNCHANGED runs
    BY DEF StepRaises, StepDeclines, AgentRun, CallerClears, Save, recorder, vars
  <1> QED BY <1>2, <1>3, <1>4, <1>5, <1>6, <1>7 DEF Next, HarnessReturns, CallerFinalizes

FilesInv == /\ FilesBeginRuns
            /\ \A t \in Traces : files[t] # NoFile => files[t].origin \in DOMAIN runs

LEMMA NextFiles == IInv /\ FilesInv /\ [Next]_vars => FilesInv'
  <1> SUFFICES ASSUME IInv, FilesInv, [Next]_vars PROVE FilesInv'
    OBVIOUS
  <1>1. RunsLengthen /\ runs \in Seq(Runs)
        /\ files \in [Traces -> [origin : 0 .. Len(runs), steps : Seq(Steps)]]
    BY NextLengthens DEF IInv, TypeOK
  <1> SUFFICES ASSUME NEW t \in Traces, files'[t] # NoFile
               PROVE  /\ files'[t].origin \in DOMAIN runs'
                      /\ runs'[files'[t].origin].trace = t
                      /\ IsPrefix(files'[t].steps, runs'[files'[t].origin].steps)
    BY DEF FilesInv, FilesBeginRuns
  <1>2. CASE files'[t] = files[t]
    <2> DEFINE k == files[t].origin
    <2>1. /\ k \in DOMAIN runs /\ runs[k].trace = t
          /\ IsPrefix(files[t].steps, runs[k].steps)
      BY <1>2 DEF FilesInv, FilesBeginRuns
    <2>2. k \in DOMAIN runs' /\ Lengthened(runs[k], runs'[k])
      BY <1>1, <2>1 DEF RunsLengthen
    <2>3. files[t].steps \in Seq(Steps)  BY <1>1
    <2>4. runs[k].steps \in Seq(Steps)
      <3>1. runs[k] \in Runs  BY <1>1, <2>1
      <3> QED BY <3>1 DEF Runs
    <2>5. IsPrefix(files[t].steps, runs'[k].steps)
      BY <2>1, <2>2, <2>3, <2>4, PrefixFacts DEF Lengthened
    <2> QED BY <1>2, <2>1, <2>2, <2>5 DEF Lengthened
  <1>3. CASE Save
    <2>1. /\ run \in DOMAIN runs /\ runs' = runs /\ runs[run].trace \in Traces
          /\ files' = [files EXCEPT ![runs[run].trace] =
                          [origin |-> run, steps |-> runs[run].steps]]
          /\ runs[run].steps \in Seq(Steps)
      <3>1. run \in DOMAIN runs  BY <1>3 DEF Save, IInv, TypeOK
      <3>2. runs[run] \in Runs  BY <1>1, <3>1
      <3> QED BY <1>3, <3>1, <3>2 DEF Save, recorder, Runs
    <2>2. CASE t = runs[run].trace
      <3>1. files'[t] = [origin |-> run, steps |-> runs[run].steps]
        BY <1>1, <2>1, <2>2
      <3>2. IsPrefix(runs[run].steps, runs[run].steps)  BY DEF IsPrefix
      <3> QED BY <2>1, <2>2, <3>1, <3>2
    <2>3. CASE t # runs[run].trace
      <3>1. files'[t] = files[t]  BY <1>1, <2>1, <2>3
      <3> QED BY <1>2, <3>1
    <2> QED BY <2>2, <2>3
  <1>4. ~Save => UNCHANGED files
    BY DEF Next, StepStart, StepEnd, StepRaises, StepDeclines, AgentRun, HarnessRun,
           HarnessReturns, CallerFinalizes, CallerClears, vars
  <1> QED BY <1>2, <1>3, <1>4

-----------------------------------------------------------------------------
(* Places.                                                                 *)

\* Of two events the one the agent emits first.
Before(e, f) == \/ e.cycle < f.cycle
                \/ e.cycle = f.cycle /\ e.type = "step.start" /\ f.type = "step.end"

\* A StepTrace of earlier cycles than another.
Earlier(s, t) == \A e \in Range(s.events), f \in Range(t.events) : e.cycle < f.cycle

\* The steps of the runs are in order, and a step is later than all of them.
RunsInOrder(rs) ==
    \A k, l \in DOMAIN rs : \A i \in DOMAIN rs[k].steps, j \in DOMAIN rs[l].steps :
       (k < l \/ (k = l /\ i < j)) => Earlier(rs[k].steps[i], rs[l].steps[j])
Latest(rs, s) == \A k \in DOMAIN rs : \A i \in DOMAIN rs[k].steps : Earlier(rs[k].steps[i], s)

StepInOrder(s) == \A m, n \in DOMAIN s.events : m < n => Before(s.events[m], s.events[n])

\* Everything the recorder holds is in the order of the log, and is all of it that was
\* not dropped; the run it files in is the last, and a step on the stack has begun in
\* the current StepTrace.
Ordered == /\ RunsInOrder(runs) /\ Latest(runs, step)
           /\ \A s \in StepTraces : StepInOrder(s)
           /\ \A m, n \in DOMAIN log : m < n => Before(log[m], log[n])

Placed == /\ run \in {0, Len(runs)}
          /\ stepping => \E e \in Range(step.events) : e.cycle = started
          /\ dropped \subseteq Range(log)
          /\ \A e : e \in Range(log) \ dropped <=> \E s \in StepTraces : e \in Range(s.events)

OInv == Ordered /\ Placed

\* The order of the agent's events is strict.
LEMMA BeforeFacts ==
  ASSUME NEW e \in Events, NEW f \in Events
  PROVE  /\ e.cycle \in Nat /\ ~Before(e, e)
         /\ Before(e, f) => ~Before(f, e) /\ e # f /\ e.cycle <= f.cycle
         /\ e.cycle < f.cycle => Before(e, f)
  <1>1. e.cycle \in Nat /\ f.cycle \in Nat
    BY BoundsAssumption DEF Events, Cycles
  <1> QED BY <1>1 DEF Before

\* What a StepTrace holds was logged.
LEMMA HeldFacts ==
  ASSUME IInv
  PROVE  /\ \A e \in Range(log) : e \in Events
         /\ \A s \in StepTraces : \A e \in Range(s.events) : e \in Range(log)
         /\ \A s \in StepTraces : s \in Steps
         /\ \A k \in DOMAIN runs : runs[k] \in Runs /\ runs[k].steps \in Seq(Steps)
  <1>1. \A e \in Range(log) : e \in Events  BY DEF IInv, TypeOK, Range
  <1>2. \A s \in StepTraces : \A e \in Range(s.events) : e \in Range(log)
    BY DEF IInv, Whole
  <1>3. \A k \in DOMAIN runs : runs[k] \in Runs  BY DEF IInv, TypeOK
  <1>4. \A k \in DOMAIN runs : runs[k].steps \in Seq(Steps)  BY <1>3 DEF Runs
  <1>5. \A k \in DOMAIN runs : \A s \in Range(runs[k].steps) : s \in Steps
    BY <1>4 DEF Range
  <1>6. step # NoStep => step \in Steps  BY DEF IInv, TypeOK
  <1>7. \A s \in StepTraces : s \in Steps  BY <1>5, <1>6, StepTracesFacts
  <1> QED BY <1>1, <1>2, <1>3, <1>4, <1>7

\* A step filed in the last run goes to the end of the books.
LEMMA FileInOrder ==
  ASSUME NEW rs \in Seq(Runs), NEW k \in DOMAIN rs, k = Len(rs), NEW s \in Steps,
         RunsInOrder(rs), Latest(rs, s)
  PROVE  /\ RunsInOrder(AddStep(rs, k, s))
         /\ \A t : Latest(rs, t) /\ Earlier(s, t) => Latest(AddStep(rs, k, s), t)
  <1> DEFINE qs == AddStep(rs, k, s)
             n == Len(rs[k].steps)
  <1>1. /\ DOMAIN qs = DOMAIN rs /\ qs[k].steps = Append(rs[k].steps, s)
        /\ \A j \in DOMAIN rs : j # k => qs[j] = rs[j]
    BY AddStepFacts
  <1>2. /\ rs[k].steps \in Seq(Steps) /\ n \in Nat /\ DOMAIN rs[k].steps = 1 .. n
    <2>1. rs[k] \in Runs  OBVIOUS
    <2>2. rs[k].steps \in Seq(Steps)  BY <2>1 DEF Runs
    <2> QED BY <2>2
  <1>3. /\ DOMAIN qs[k].steps = 1 .. n + 1 /\ qs[k].steps[n + 1] = s
        /\ \A i \in 1 .. n : qs[k].steps[i] = rs[k].steps[i]
    BY <1>1, <1>2, AppendFacts
  <1>4. DOMAIN rs = 1 .. Len(rs) /\ Len(rs) \in Nat  OBVIOUS
  <1> HIDE DEF qs, n
  \* Every place of the new books is an old one, or that of s and then the last.
  <1>5. \A l \in DOMAIN qs : \A j \in DOMAIN qs[l].steps :
           \/ l \in DOMAIN rs /\ j \in DOMAIN rs[l].steps /\ qs[l].steps[j] = rs[l].steps[j]
           \/ l = k /\ j = n + 1 /\ qs[l].steps[j] = s
    <2> SUFFICES ASSUME NEW l \in DOMAIN qs, NEW j \in DOMAIN qs[l].steps
                 PROVE  \/ l \in DOMAIN rs /\ j \in DOMAIN rs[l].steps
                             /\ qs[l].steps[j] = rs[l].steps[j]
                        \/ l = k /\ j = n + 1 /\ qs[l].steps[j] = s
      OBVIOUS
    <2>1. CASE l # k  BY <1>1, <2>1
    <2>2. CASE l = k
      <3>1. j \in 1 .. n \/ j = n + 1  BY <1>2, <1>3, <2>2
      <3> QED BY <1>1, <1>2, <1>3, <2>2, <3>1
    <2> QED BY <2>1, <2>2
  <1>6. RunsInOrder(qs)
    <2> SUFFICES ASSUME NEW a \in DOMAIN qs, NEW l \in DOMAIN qs,
                        NEW i \in DOMAIN qs[a].steps, NEW j \in DOMAIN qs[l].steps,
                        a < l \/ (a = l /\ i < j)
                 PROVE  Earlier(qs[a].steps[i], qs[l].steps[j])
      BY DEF RunsInOrder
    <2>1. CASE a = k /\ i = n + 1
      <3>1. l \in 1 .. Len(rs)  BY <1>1, <1>4
      <3>2. l = k /\ n + 1 < j  BY <1>4, <2>1, <3>1
      <3>3. j \in 1 .. n + 1  BY <1>3, <3>2
      <3> QED BY <1>2, <3>2, <3>3
    <2>2. CASE /\ a \in DOMAIN rs /\ i \in DOMAIN rs[a].steps
               /\ qs[a].steps[i] = rs[a].steps[i]
      <3>1. CASE l \in DOMAIN rs /\ j \in DOMAIN rs[l].steps /\ qs[l].steps[j] = rs[l].steps[j]
        BY <2>2, <3>1 DEF RunsInOrder
      <3>2. CASE qs[l].steps[j] = s  BY <2>2, <3>2 DEF Latest
      <3> QED BY <1>5, <3>1, <3>2
    <2> QED BY <1>5, <2>1, <2>2
  <1>7. ASSUME NEW t, Latest(rs, t), Earlier(s, t) PROVE Latest(qs, t)
    BY <1>5, <1>7 DEF Latest
  <1> QED BY <1>6, <1>7 DEF qs

\* A run opened at the end holds nothing yet.
LEMMA OpenInOrder ==
  ASSUME runs \in Seq(Runs), started \in Nat, NEW t \in Traces, RunsInOrder(runs)
  PROVE  /\ RunsInOrder(Append(runs, NewRun(t)))
         /\ \A s : Latest(runs, s) => Latest(Append(runs, NewRun(t)), s)
  <1> DEFINE qs == Append(runs, NewRun(t))
  <1>1. /\ DOMAIN qs = 1 .. Len(runs) + 1 /\ DOMAIN runs = 1 .. Len(runs) /\ Len(runs) \in Nat
        /\ \A k \in DOMAIN runs : qs[k] = runs[k]
        /\ qs[Len(runs) + 1].steps = <<>>
    BY OpenFacts
  <1> HIDE DEF qs
  <1>2. \A k \in DOMAIN qs : \A i \in DOMAIN qs[k].steps : k \in DOMAIN runs /\ qs[k] = runs[k]
    <2>1. DOMAIN <<>> = {}  OBVIOUS
    <2>2. \A k \in DOMAIN qs : k \in DOMAIN runs \/ k = Len(runs) + 1  BY <1>1
    <2> QED BY <1>1, <2>1, <2>2
  <1>3. RunsInOrder(qs)
    <2> SUFFICES ASSUME NEW a \in DOMAIN qs, NEW l \in DOMAIN qs,
                        NEW i \in DOMAIN qs[a].steps, NEW j \in DOMAIN qs[l].steps,
                        a < l \/ (a = l /\ i < j)
                 PROVE  Earlier(qs[a].steps[i], qs[l].steps[j])
      BY DEF RunsInOrder
    <2> QED BY <1>2 DEF RunsInOrder
  <1>4. \A s : Latest(runs, s) => Latest(qs, s)  BY <1>2 DEF Latest
  <1> QED BY <1>3, <1>4 DEF qs
\* Filing the current step keeps every StepTrace, and adds none.
LEMMA FiledFacts ==
  ASSUME runs \in Seq(Runs), run \in DOMAIN runs, step \in Steps,
         runs' = AddStep(runs, run, step)
  PROVE  \A s \in StepTraces : \E k \in DOMAIN runs' : s \in Range(runs'[k].steps)
  <1>1. /\ DOMAIN runs' = DOMAIN runs
        /\ runs'[run].steps = Append(runs[run].steps, step)
        /\ \A k \in DOMAIN runs : k # run => runs'[k] = runs[k]
    BY AddStepFacts
  <1>2. runs[run].steps \in Seq(Steps)
    <2>1. runs[run] \in Runs  OBVIOUS
    <2> QED BY <2>1 DEF Runs
  <1>3. Range(runs'[run].steps) = Range(runs[run].steps) \cup {step}
    BY <1>1, <1>2, AppendFacts
  <1>4. \A k \in DOMAIN runs : Range(runs[k].steps) \subseteq Range(runs'[k].steps)
    BY <1>1, <1>3
  <1>5. \A s \in StepTraces : s = step \/ \E k \in DOMAIN runs : s \in Range(runs[k].steps)
    BY StepTracesFacts
  <1> QED BY <1>1, <1>3, <1>4, <1>5

\* Ingesting the latest event keeps the order, if the StepTrace it is put after is of
\* earlier cycles.
LEMMA IngestInOrder ==
  ASSUME IInv, OInv, NEW e \in Events, Ingest(e),
         \A k \in DOMAIN runs : runs[k].opened < e.cycle,
         \A f \in Range(log) : Before(f, e),
         \A k \in DOMAIN runs : \A i \in DOMAIN runs[k].steps :
            \A f \in Range(runs[k].steps[i].events) : f.cycle < e.cycle,
         ~SameStep(e) => \A f \in Range(step.events) : f.cycle < e.cycle
  PROVE  /\ Ordered' /\ run' \in {0, Len(runs')} /\ e \in Range(step'.events)
         /\ dropped' \subseteq Range(log')
         /\ \A f : f \in Range(log') \ dropped' <=> \E s \in StepTraces' : f \in Range(s.events)
  <1>1. /\ runs \in Seq(Runs) /\ started \in Nat /\ log \in Seq(Events)
        /\ run \in 0 .. Len(runs) /\ run \in {0, Len(runs)}
        /\ Len(runs) \in Nat /\ DOMAIN runs = 1 .. Len(runs)
        /\ step \in Steps \cup {NoStep}
        /\ run = 0 => step = NoStep
        /\ e.trace \in Traces
    BY DEF IInv, OInv, Placed, TypeOK, Current, Events
  <1>2. /\ Range(log') = Range(log) \cup {e} /\ step' # NoStep /\ UNCHANGED dropped
        /\ \A s \in StepTraces' : s \in StepTraces \/ s = step'
        /\ \/ SameStep(e) /\ step'.events = Append(step.events, e)
           \/ step'.events = <<e>>
    BY IngestFacts
  <1>3. /\ RunsInOrder(runs) /\ Latest(runs, step)
        /\ \A s \in StepTraces : StepInOrder(s)
        /\ \A m, n \in DOMAIN log : m < n => Before(log[m], log[n])
        /\ dropped \subseteq Range(log)
        /\ \A f : f \in Range(log) \ dropped <=> \E s \in StepTraces : f \in Range(s.events)
    BY DEF OInv, Ordered, Placed
  <1>4. e \notin Range(log)  BY BeforeFacts
  <1>5. \A m, n \in DOMAIN log' : m < n => Before(log'[m], log'[n])
    <2>1. /\ DOMAIN log' = 1 .. Len(log) + 1 /\ log'[Len(log) + 1] = e
          /\ \A i \in 1 .. Len(log) : log'[i] = log[i]
          /\ DOMAIN log = 1 .. Len(log) /\ Len(log) \in Nat
      BY <1>1, AppendFacts DEF Ingest
    <2> SUFFICES ASSUME NEW m \in DOMAIN log', NEW n \in DOMAIN log', m < n
                 PROVE  Before(log'[m], log'[n])
      OBVIOUS
    <2>2. m \in DOMAIN log /\ log'[m] = log[m]  BY <2>1
    <2>3. CASE n \in DOMAIN log  BY <1>3, <2>1, <2>2, <2>3
    <2>4. CASE n \notin DOMAIN log
      <3>1. log'[n] = e  BY <2>1, <2>4
      <3>2. log[m] \in Range(log)  BY <2>2 DEF Range
      <3> QED BY <2>2, <3>1, <3>2
    <2> QED BY <2>3, <2>4
  <1>6. Range(<<e>>) = {e} /\ DOMAIN <<e>> = 1 .. 1  BY DEF Range
  <1>7. step' \in StepTraces'  BY <1>2, StepTracesFacts
  \* The step displaced, or none, is before the new one, whose only event is e.
  <1>8. ~SameStep(e) =>
           /\ step'.events = <<e>> /\ StepInOrder(step') /\ Earlier(step, step')
           /\ Latest(runs, step') /\ Range(step'.events) = {e}
    <2> SUFFICES ASSUME ~SameStep(e)
                 PROVE  /\ step'.events = <<e>> /\ StepInOrder(step') /\ Earlier(step, step')
                        /\ Latest(runs, step') /\ Range(step'.events) = {e}
      OBVIOUS
    <2>1. step'.events = <<e>> /\ Range(step'.events) = {e}  BY <1>2, <1>6
    <2>2. \A m, n \in 1 .. 1 : ~(m < n)  OBVIOUS
    <2>3. StepInOrder(step')  BY <1>6, <2>1, <2>2 DEF StepInOrder
    <2>4. Earlier(step, step')  BY <2>1 DEF Earlier
    <2>5. Latest(runs, step')  BY <2>1 DEF Latest, Earlier
    <2> QED BY <2>1, <2>3, <2>4, <2>5
  \* What remains to be shown of the new books.
  <1> DEFINE Good ==
        /\ RunsInOrder(runs') /\ Latest(runs', step') /\ StepInOrder(step')
        /\ run' = Len(runs') /\ e \in Range(step'.events)
        /\ \A s \in StepTraces : s \in StepTraces' \/ Range(s.events) \subseteq Range(step'.events)
        /\ \A f \in Range(step'.events) : f = e \/ (f \in Range(step.events) /\ step \in StepTraces)
  <1>9. ASSUME run = 0 PROVE Good
    <2>1. /\ ~SameStep(e) /\ step = NoStep /\ run' = Len(runs) + 1
          /\ runs' = Append(runs, NewRun(e.trace))
      BY <1>1, <1>9, OpenFacts DEF Ingest, SameStep
    <2>2. /\ Len(runs') = Len(runs) + 1 /\ DOMAIN runs' = 1 .. Len(runs) + 1
          /\ \A k \in DOMAIN runs : runs'[k] = runs[k]
      BY <1>1, <2>1, OpenFacts
    <2>3. RunsInOrder(runs') /\ Latest(runs', step')
      BY <1>1, <1>3, <1>8, <2>1, OpenInOrder
    <2>4. \A s \in StepTraces : s \in StepTraces'
      <3>1. \A s \in StepTraces : \E k \in DOMAIN runs : s \in Range(runs[k].steps)
        BY <2>1, StepTracesFacts
      <3>2. \A k \in 1 .. Len(runs) : k \in 1 .. Len(runs) + 1
        <4>1. Len(runs) \in Nat  BY <1>1
        <4> QED BY <4>1
      <3>3. \A k \in DOMAIN runs : k \in DOMAIN runs' /\ runs'[k] = runs[k]
        BY <1>1, <2>2, <3>2
      <3> QED BY <3>1, <3>3, StepTracesFacts
    <2> QED BY <1>8, <2>1, <2>2, <2>3, <2>4
  <1>10. ASSUME run # 0 /\ SameStep(e) PROVE Good
    <2>1. /\ run' = run /\ runs' = runs /\ run = Len(runs) /\ step # NoStep
      BY <1>1, <1>10 DEF Ingest, SameStep
    <2>2. /\ step \in Steps /\ step \in StepTraces
      BY <1>1, <2>1, StepTracesFacts
    <2>3. step.events \in Seq(Events)  BY <2>2 DEF Steps
    <2>4. step'.events = Append(step.events, e)
      BY <1>10, <2>2 DEF Ingest, Steps
    <2> DEFINE q == step.events
    <2>5. /\ DOMAIN Append(q, e) = 1 .. Len(q) + 1 /\ Len(q) \in Nat /\ DOMAIN q = 1 .. Len(q)
          /\ \A i \in 1 .. Len(q) : Append(q, e)[i] = q[i]
          /\ Append(q, e)[Len(q) + 1] = e
          /\ Range(Append(q, e)) = Range(q) \cup {e}
      BY <2>3, AppendFacts
    <2>6. StepInOrder(step')
      <3> SUFFICES ASSUME NEW m \in DOMAIN Append(q, e), NEW n \in DOMAIN Append(q, e), m < n
                   PROVE  Before(Append(q, e)[m], Append(q, e)[n])
        BY <2>4 DEF StepInOrder
      <3>1. m \in DOMAIN q /\ Append(q, e)[m] = q[m]  BY <2>5
      <3>2. q[m] \in Range(log)
        <4>1. q[m] \in Range(step.events)  BY <3>1 DEF Range
        <4> QED BY <2>2, <4>1, HeldFacts
      <3>3. CASE n \in DOMAIN q
        BY <1>3, <2>2, <2>5, <3>1, <3>3 DEF StepInOrder
      <3>4. CASE n \notin DOMAIN q
        <4>1. Append(q, e)[n] = e  BY <2>5, <3>4
        <4> QED BY <3>1, <3>2, <4>1
      <3> QED BY <3>3, <3>4
    <2>7. Latest(runs, step')
      BY <1>3, <2>4, <2>5 DEF Latest, Earlier
    <2>8. \A s \in StepTraces : s \in StepTraces' \/ s = step
      BY <2>1, StepTracesFacts
    <2>9. Range(step'.events) = Range(step.events) \cup {e}  BY <2>4, <2>5
    <2>10. \A s \in StepTraces : s \in StepTraces' \/ Range(s.events) \subseteq Range(step'.events)
      BY <2>8, <2>9
    <2> QED BY <1>3, <2>1, <2>2, <2>6, <2>7, <2>9, <2>10
  <1>11. ASSUME run # 0 /\ ~SameStep(e) /\ step = NoStep PROVE Good
    <2>1. /\ run' = run /\ runs' = runs /\ run = Len(runs)
      BY <1>1, <1>11 DEF Ingest, SameStep
    <2>2. \A s \in StepTraces : s \in StepTraces'  BY <1>11, <2>1, StepTracesFacts
    <2> QED BY <1>3, <1>8, <1>11, <2>1, <2>2
  <1>12. ASSUME run # 0 /\ ~SameStep(e) /\ step # NoStep PROVE Good
    <2>1. /\ run' = run /\ runs' = AddStep(runs, run, step) /\ run = Len(runs)
          /\ run \in DOMAIN runs /\ step \in Steps
      BY <1>1, <1>12 DEF Ingest
    <2>2. RunsInOrder(runs') /\ Latest(runs', step') /\ Len(runs') = Len(runs)
      BY <1>1, <1>3, <1>8, <1>12, <2>1, FileInOrder, AddStepFacts
    <2>3. \A s \in StepTraces : s \in StepTraces'
      <3>1. \A s \in StepTraces : \E k \in DOMAIN runs' : s \in Range(runs'[k].steps)
        BY <1>1, <2>1, FiledFacts
      <3> QED BY <3>1, StepTracesFacts
    <2> QED BY <1>8, <1>12, <2>1, <2>2, <2>3
  <1>13. Good  BY <1>9, <1>10, <1>11, <1>12
  <1> HIDE DEF Good
  <1>14. Ordered'
    <2>1. \A s \in StepTraces' : StepInOrder(s)
      BY <1>2, <1>3, <1>13 DEF Good
    <2>2. RunsInOrder(runs') /\ Latest(runs', step')  BY <1>13 DEF Good
    <2> QED BY <1>5, <2>1, <2>2 DEF Ordered
  <1>15. \A f : f \in Range(log') \ dropped' <=> \E s \in StepTraces' : f \in Range(s.events)
    <2>1. ASSUME NEW f, f \in Range(log') \ dropped'
          PROVE  \E s \in StepTraces' : f \in Range(s.events)
      <3>1. CASE f = e  BY <1>7, <1>13, <3>1 DEF Good
      <3>2. CASE f # e
        <4>1. f \in Range(log) \ dropped  BY <1>2, <2>1, <3>2
        <4>2. PICK s \in StepTraces : f \in Range(s.events)  BY <1>3, <4>1
        <4> QED BY <1>7, <1>13, <4>2 DEF Good
      <3> QED BY <3>1, <3>2
    <2>2. ASSUME NEW f, NEW s \in StepTraces', f \in Range(s.events)
          PROVE  f \in Range(log') \ dropped'
      <3>1. f = e \/ \E t \in StepTraces : f \in Range(t.events)
        BY <1>2, <1>13, <2>2 DEF Good
      <3> QED BY <1>2, <1>3, <1>4, <3>1
    <2> QED BY <2>1, <2>2
  <1> QED BY <1>2, <1>3, <1>13, <1>14, <1>15 DEF Good

\* The start of a step is the first event of its cycle, after all that is held.
LEMMA StepStartInOrder == ASSUME IInv, OInv, StepStart PROVE OInv'
  <1> DEFINE e == Event("step.start", started + 1)
  <1>1. /\ trace \in Traces /\ cycles \in Nat /\ started \in Nat /\ started + 1 \in Cycles
    BY BoundsAssumption DEF IInv, TypeOK, StepStart, Cycles
  <1>2. e \in Events /\ e.cycle = started + 1 /\ Ingest(e) /\ started' = started + 1
    BY <1>1, EventFacts DEF StepStart
  <1> HIDE DEF e
  <1>3. \A k \in DOMAIN runs : runs[k].opened < e.cycle
    <2> SUFFICES ASSUME NEW k \in DOMAIN runs PROVE runs[k].opened < e.cycle
      OBVIOUS
    <2>1. runs[k].opened \in Nat
      <3>1. runs[k] \in Runs  BY HeldFacts
      <3> QED BY <3>1 DEF Runs
    <2>2. runs[k].opened <= started  BY DEF IInv, Current
    <2> QED BY <1>1, <1>2, <2>1, <2>2
  <1>4. \A f \in Range(log) : f.cycle < e.cycle /\ Before(f, e)
    <2> SUFFICES ASSUME NEW f \in Range(log) PROVE f.cycle < e.cycle /\ Before(f, e)
      OBVIOUS
    <2>1. f \in Events /\ f.cycle <= started  BY HeldFacts DEF IInv, Logged
    <2>2. f.cycle \in Nat  BY <1>2, <2>1, BeforeFacts
    <2>3. f.cycle < e.cycle  BY <1>1, <1>2, <2>1, <2>2
    <2> QED BY <2>3 DEF Before
  <1>5. \A s \in StepTraces : \A f \in Range(s.events) : f.cycle < e.cycle
    BY <1>4, HeldFacts
  <1>6. \A k \in DOMAIN runs : \A i \in DOMAIN runs[k].steps : runs[k].steps[i] \in StepTraces
    BY StepTracesFacts DEF Range
  <1>7. \A f \in Range(step.events) : f.cycle < e.cycle
    <2>1. CASE step = NoStep  BY <2>1, NoStepFacts
    <2>2. CASE step # NoStep
      <3>1. step \in StepTraces  BY <2>2, StepTracesFacts
      <3> QED BY <1>5, <3>1
    <2> QED BY <2>1, <2>2
  <1>8. /\ Ordered' /\ run' \in {0, Len(runs')} /\ e \in Range(step'.events)
        /\ dropped' \subseteq Range(log')
        /\ \A f : f \in Range(log') \ dropped' <=> \E s \in StepTraces' : f \in Range(s.events)
    <2>1. \A k \in DOMAIN runs : \A i \in DOMAIN runs[k].steps :
             \A f \in Range(runs[k].steps[i].events) : f.cycle < e.cycle
      BY <1>5, <1>6
    <2> QED BY <1>2, <1>3, <1>4, <1>7, <2>1, IngestInOrder
  <1> QED BY <1>2, <1>8 DEF OInv, Placed

\* The end of a step comes after its start, in the same StepTrace.
LEMMA StepEndInOrder == ASSUME IInv, OInv, StepEnd PROVE OInv'
  <1> DEFINE e == Event("step.end", started)
  <1>1. /\ trace \in Traces /\ cycles \in Nat /\ started \in Nat /\ started \in Cycles /\ stepping
        /\ step # NoStep /\ step.id = <<trace, cycles>>
    BY BoundsAssumption DEF IInv, TypeOK, StepEnd, Cycles, Current
  <1>2. /\ e \in Events /\ e.type = "step.end" /\ e.cycle = started /\ e.id = <<trace, cycles>>
        /\ Ingest(e) /\ stepping' = FALSE
    BY <1>1, EventFacts DEF StepEnd
  <1> HIDE DEF e
  <1>3. \A k \in DOMAIN runs : runs[k].opened < e.cycle
    BY <1>1, <1>2 DEF IInv, Current
  <1>4. \A f \in Range(log) : Before(f, e)
    <2> SUFFICES ASSUME NEW f \in Range(log) PROVE Before(f, e)
      OBVIOUS
    <2>1. f \in Events  BY HeldFacts
    <2>2. f.cycle <= started /\ (f.type = "step.end" => f.cycle < started)
      BY <1>1 DEF IInv, Logged
    <2>3. f.cycle \in Nat  BY <2>1, BeforeFacts
    <2>4. f.type \in {"step.start", "step.end"}  BY <2>1 DEF Events
    <2> QED BY <1>1, <1>2, <2>2, <2>3, <2>4 DEF Before
  <1>5. \A k \in DOMAIN runs : \A i \in DOMAIN runs[k].steps :
           \A f \in Range(runs[k].steps[i].events) : f.cycle < e.cycle
    <2>1. PICK g \in Range(step.events) : g.cycle = started
      BY <1>1 DEF OInv, Placed
    <2> QED BY <1>2, <2>1 DEF OInv, Ordered, Latest, Earlier
  <1>6. SameStep(e)  BY <1>1, <1>2 DEF SameStep
  <1>7. /\ Ordered' /\ run' \in {0, Len(runs')} /\ e \in Range(step'.events)
        /\ dropped' \subseteq Range(log')
        /\ \A f : f \in Range(log') \ dropped' <=> \E s \in StepTraces' : f \in Range(s.events)
    BY <1>2, <1>3, <1>4, <1>5, <1>6, IngestInOrder
  <1> QED BY <1>2, <1>7 DEF OInv, Placed

\* What leaves the recorder alone, and begins no step.
LEMMA RecorderIdleInOrder ==
  ASSUME OInv, UNCHANGED <<recorder, started>>, stepping' => stepping
  PROVE  OInv'
  <1>1. UNCHANGED <<runs, run, step, log, dropped, started>>  BY DEF recorder
  <1>2. \A s : s \in StepTraces' <=> s \in StepTraces  BY <1>1, StepTracesFacts
  <1>3. Ordered'  BY <1>1, <1>2 DEF OInv, Ordered
  <1>4. Placed'  BY <1>1, <1>2 DEF OInv, Placed
  <1> QED BY <1>3, <1>4 DEF OInv

\* A run is opened behind the others.
LEMMA HarnessRunInOrder == ASSUME IInv, OInv, HarnessRun PROVE OInv'
  <1>1. /\ runs \in Seq(Runs) /\ started \in Nat /\ trace \in Traces /\ ~stepping
        /\ runs' = Append(runs, NewRun(trace)) /\ run' = Len(runs) + 1
        /\ UNCHANGED <<step, log, dropped, stepping, started>>
    BY DEF IInv, TypeOK, HarnessRun, StartRun, agent, CallerIdle
  <1>2. /\ Len(runs') = Len(runs) + 1 /\ Len(runs) \in Nat
        /\ DOMAIN runs' = 1 .. Len(runs) + 1 /\ DOMAIN runs = 1 .. Len(runs)
        /\ \A k \in DOMAIN runs : runs'[k] = runs[k]
        /\ runs'[Len(runs) + 1].steps = <<>>
    BY <1>1, OpenFacts
  <1>3. \A s : s \in StepTraces' <=> s \in StepTraces
    <2>1. Range(<<>>) = {}  BY DEF Range
    <2>2. \A k \in 1 .. Len(runs) : k \in 1 .. Len(runs) + 1  BY <1>2
    <2>3. \A k \in DOMAIN runs : k \in DOMAIN runs'  BY <1>2, <2>2
    <2>4. \A k \in DOMAIN runs' : k \in DOMAIN runs \/ k = Len(runs) + 1  BY <1>2
    <2>5. \A s : (\E k \in DOMAIN runs' : s \in Range(runs'[k].steps))
                    <=> \E k \in DOMAIN runs : s \in Range(runs[k].steps)
      BY <1>2, <2>1, <2>3, <2>4
    <2> QED BY <1>1, <2>5, StepTracesFacts
  <1>4. RunsInOrder(runs') /\ Latest(runs', step')
    BY <1>1, OpenInOrder DEF OInv, Ordered
  <1>5. Ordered'  BY <1>1, <1>3, <1>4 DEF OInv, Ordered
  <1>6. Placed'  BY <1>1, <1>2, <1>3 DEF OInv, Placed
  <1> QED BY <1>5, <1>6 DEF OInv

\* The step under construction moves to the end of the last run.
LEMMA FinalizeInOrder ==
  ASSUME IInv, OInv, Finalize, ~stepping, UNCHANGED agent
  PROVE  OInv'
  <1>1. step' = NoStep /\ UNCHANGED <<run, log, dropped, stepping, started>>
    BY DEF Finalize, agent
  <1>2. /\ runs \in Seq(Runs) /\ run \in 0 .. Len(runs) /\ run \in {0, Len(runs)}
        /\ step \in Steps \cup {NoStep} /\ DOMAIN runs = 1 .. Len(runs) /\ Len(runs) \in Nat
    BY DEF IInv, OInv, Placed, TypeOK
  <1>3. \A t : Earlier(t, NoStep)  BY NoStepFacts DEF Earlier
  <1>4. Latest(runs', step')  BY <1>1, <1>3 DEF Latest
  <1>5. /\ RunsInOrder(runs') /\ Len(runs') = Len(runs)
        /\ \A s : s \in StepTraces' <=> s \in StepTraces
    <2>1. CASE run # 0 /\ step # NoStep
      <3>1. runs' = AddStep(runs, run, step) /\ step \in Steps
        BY <1>2, <2>1, ZenonT(60) DEF Finalize
      <3>2. run = Len(runs) /\ run \in DOMAIN runs
        <4>1. run \in 0 .. Len(runs) /\ Len(runs) \in Nat /\ run # 0  BY <1>2, <2>1
        <4>2. run \in 1 .. Len(runs)  BY <4>1
        <4> QED BY <1>2, <2>1, <4>2
      <3>3. RunsInOrder(runs') /\ Len(runs') = Len(runs)
        BY <1>2, <3>1, <3>2, FileInOrder, AddStepFacts DEF OInv, Ordered
      <3>4. \A k \in DOMAIN runs' : Range(runs'[k].steps) \subseteq StepTraces
        BY <2>1, <3>1, FileFacts
      <3>5. \A s \in StepTraces : \E k \in DOMAIN runs' : s \in Range(runs'[k].steps)
        BY <1>2, <3>1, <3>2, FiledFacts
      <3> QED BY <1>1, <3>3, <3>4, <3>5, StepTracesFacts
    <2>2. CASE ~(run # 0 /\ step # NoStep)
      <3>1. runs' = runs /\ step = NoStep
        BY <2>2 DEF Finalize, IInv, Current
      <3> QED BY <1>1, <3>1, StepTracesFacts DEF OInv, Ordered
    <2> QED BY <2>1, <2>2
  <1>6. Ordered'  BY <1>1, <1>4, <1>5 DEF OInv, Ordered
  <1>7. Placed'  BY <1>1, <1>5 DEF OInv, Placed
  <1> QED BY <1>6, <1>7 DEF OInv

\* What is cleared is of later cycles than what is filed: nothing else is dropped with it.
LEMMA CallerClearsInOrder == ASSUME IInv, OInv, CallerClears PROVE OInv'
  <1>1. /\ run' = 0 /\ step' = NoStep /\ ~stepping
        /\ dropped' = dropped \cup Range(step.events)
        /\ UNCHANGED <<stepping, started, runs, log>>
    BY DEF CallerClears, CallerIdle, agent
  <1>2. \A t : Earlier(t, NoStep)  BY NoStepFacts DEF Earlier
  <1>3. \A s : s \in StepTraces <=> \/ s \in StepTraces'
                                    \/ step # NoStep /\ s = step
    BY <1>1, StepTracesFacts
  <1>4. Ordered'
    <2>1. Latest(runs', step')  BY <1>1, <1>2 DEF Latest
    <2> QED BY <1>1, <1>3, <2>1 DEF OInv, Ordered
  <1>5. \A s \in StepTraces' : \A f \in Range(s.events) : f \notin Range(step.events)
    <2> SUFFICES ASSUME NEW s \in StepTraces', NEW f \in Range(s.events),
                        f \in Range(step.events)
                 PROVE  FALSE
      OBVIOUS
    <2>1. PICK k \in DOMAIN runs : s \in Range(runs[k].steps)
      BY <1>1, StepTracesFacts
    <2>2. PICK i \in DOMAIN runs[k].steps : s = runs[k].steps[i]
      BY <2>1 DEF Range
    <2>3. f.cycle < f.cycle
      BY <2>2 DEF OInv, Ordered, Latest, Earlier
    <2>4. f \in Events  BY <1>3, HeldFacts
    <2> QED BY <2>3, <2>4, BeforeFacts
  <1>6. Range(step.events) \subseteq Range(log)
    <2>1. CASE step = NoStep  BY <2>1, NoStepFacts
    <2>2. CASE step # NoStep
      <3>1. step \in StepTraces  BY <2>2, StepTracesFacts
      <3> QED BY <3>1, HeldFacts
    <2> QED BY <2>1, <2>2
  <1>7. \A f : f \in Range(log) \ dropped' <=> \E s \in StepTraces' : f \in Range(s.events)
    <2>1. \A f : f \in Range(log) \ dropped <=> \E s \in StepTraces : f \in Range(s.events)
      BY DEF OInv, Placed
    <2>2. \A f : f \in Range(step.events) => f \in Range(log)  BY <1>6
    <2> QED BY <1>1, <1>3, <1>5, <2>1
  <1>8. Placed'  BY <1>1, <1>6, <1>7 DEF OInv, Placed
  <1> QED BY <1>4, <1>8 DEF OInv

LEMMA InitInOrder == Init => OInv
  <1> SUFFICES ASSUME Init PROVE OInv
    OBVIOUS
  <1>1. /\ runs = <<>> /\ log = <<>> /\ step = NoStep /\ run = 0 /\ dropped = {} /\ ~stepping
        /\ DOMAIN runs = {} /\ DOMAIN log = {} /\ Range(log) = {}
    BY DEF Init, Range
  <1>2. \A s : s \notin StepTraces  BY <1>1, StepTracesFacts
  <1>3. Ordered  BY <1>1, <1>2 DEF Ordered, RunsInOrder, Latest
  <1>4. Placed  BY <1>1, <1>2 DEF Placed
  <1> QED BY <1>3, <1>4 DEF OInv

LEMMA NextInOrder == IInv /\ OInv /\ [Next]_vars => OInv'
  <1> SUFFICES ASSUME IInv, OInv, [Next]_vars PROVE OInv'
    OBVIOUS
  <1>1. CASE HarnessReturns  BY <1>1, FinalizeInOrder DEF HarnessReturns
  <1>2. CASE CallerFinalizes  BY <1>2, FinalizeInOrder DEF CallerFinalizes, CallerIdle
  <1>3. CASE StepRaises \/ StepDeclines \/ AgentRun \/ Save \/ UNCHANGED vars
    <2>1. UNCHANGED <<recorder, started>> /\ (stepping' => stepping)
      BY <1>3 DEF StepRaises, StepDeclines, AgentRun, Save, agent, recorder, vars
    <2> QED BY <2>1, RecorderIdleInOrder
  <1> QED BY <1>1, <1>2, <1>3, StepStartInOrder, StepEndInOrder, HarnessRunInOrder,
             CallerClearsInOrder
          DEF Next

LEMMA InvarianceInOrder == Spec => []OInv
  BY InitInOrder, NextInOrder, Invariance, PTL DEF Spec

-----------------------------------------------------------------------------
(* Entries.                                                                *)

\* What a place in the books is.
LEMMA EntryFacts ==
  /\ \A p : p \in Entries <=>
        \E k \in DOMAIN Books : \E i \in DOMAIN Books[k] :
           \E m \in DOMAIN Books[k][i].events : p = <<k, i, m>>
  /\ \A k, i, m : EventAt(<<k, i, m>>) = Books[k][i].events[m]
  <1> DEFINE At(k, i) == {<<k, i, m>> : m \in DOMAIN Books[k][i].events}
             In(k) == UNION {At(k, i) : i \in DOMAIN Books[k]}
             Is(p, k, i) == \E m \in DOMAIN Books[k][i].events : p = <<k, i, m>>
  <1>1. Entries = UNION {In(k) : k \in DOMAIN Books}  BY DEF Entries
  <1>2. \A p, k, i : p \in At(k, i) <=> Is(p, k, i)  OBVIOUS
  <1>3. \A k, i, m : EventAt(<<k, i, m>>) = Books[k][i].events[m]  BY DEF EventAt
  <1> HIDE DEF At, Is
  <1>4. \A p, k : p \in In(k) <=> \E i \in DOMAIN Books[k] : p \in At(k, i)
    BY Zenon
  <1> HIDE DEF In
  <1>5. \A p : p \in UNION {In(k) : k \in DOMAIN Books} <=> \E k \in DOMAIN Books : p \in In(k)
    BY Zenon
  <1>6. \A p : p \in Entries <=> \E k \in DOMAIN Books : \E i \in DOMAIN Books[k] : Is(p, k, i)
    BY <1>1, <1>2, <1>4, <1>5
  <1> QED BY <1>3, <1>6 DEF Is

\* The books hold the StepTraces, in the order of their cycles.
LEMMA BookFacts ==
  ASSUME IInv, OInv
  PROVE  /\ \A s : s \in StepTraces <=>
               \E k \in DOMAIN Books : \E i \in DOMAIN Books[k] : s = Books[k][i]
         /\ \A k, l \in DOMAIN Books : \A i \in DOMAIN Books[k], j \in DOMAIN Books[l] :
               /\ k \in Nat /\ l \in Nat /\ i \in Nat /\ j \in Nat
               /\ (k < l \/ (k = l /\ i < j)) => Earlier(Books[k][i], Books[l][j])
  <1> DEFINE n == Len(runs)
             last == IF step = NoStep THEN <<>> ELSE <<step>>
  <1>1. /\ n \in Nat /\ DOMAIN runs = 1 .. n /\ DOMAIN Books = 1 .. n + 1
        /\ \A k \in 1 .. n + 1 : Books[k] = IF k <= n THEN runs[k].steps ELSE last
    BY DEF IInv, TypeOK, Books
  <1>2. /\ DOMAIN last = IF step = NoStep THEN {} ELSE {1}
        /\ step # NoStep => last[1] = step
    OBVIOUS
  <1>3. \A k \in 1 .. n : k \in 1 .. n + 1 /\ k <= n /\ k # n + 1  BY <1>1
  <1>4. \A k \in DOMAIN runs : k \in DOMAIN Books /\ Books[k] = runs[k].steps
    BY <1>1, <1>3
  <1>5. n + 1 \in DOMAIN Books /\ Books[n + 1] = last
    <2>1. n + 1 \in 1 .. n + 1 /\ ~(n + 1 <= n)  BY <1>1
    <2> QED BY <1>1, <2>1
  <1>6. \A k \in DOMAIN Books : k \in DOMAIN runs \/ k = n + 1
    <2>1. \A k \in 1 .. n + 1 : k \in 1 .. n \/ k = n + 1  BY <1>1
    <2> QED BY <1>1, <2>1
  <1>7. \A k \in DOMAIN runs : /\ runs[k].steps \in Seq(Steps)
                               /\ DOMAIN runs[k].steps \subseteq Nat
    <2>1. \A k \in DOMAIN runs : runs[k].steps \in Seq(Steps)  BY HeldFacts
    <2>2. \A q \in Seq(Steps) : DOMAIN q \subseteq Nat  OBVIOUS
    <2> QED BY <2>1, <2>2
  <1> HIDE DEF n, last
  <1>8. \A s : s \in StepTraces <=>
           \E k \in DOMAIN Books : \E i \in DOMAIN Books[k] : s = Books[k][i]
    <2>1. ASSUME NEW s \in StepTraces
          PROVE  \E k \in DOMAIN Books : \E i \in DOMAIN Books[k] : s = Books[k][i]
      <3>1. CASE step # NoStep /\ s = step  BY <1>2, <1>5, <3>1
      <3>2. CASE \E k \in DOMAIN runs : s \in Range(runs[k].steps)
        BY <1>4, <3>2 DEF Range
      <3> QED BY <3>1, <3>2, StepTracesFacts
    <2>2. ASSUME NEW k \in DOMAIN Books, NEW i \in DOMAIN Books[k]
          PROVE  Books[k][i] \in StepTraces
      <3>1. CASE k \in DOMAIN runs
        <4>1. Books[k][i] \in Range(runs[k].steps)  BY <1>4, <3>1 DEF Range
        <4> QED BY <3>1, <4>1, StepTracesFacts
      <3>2. CASE k = n + 1
        <4>1. step # NoStep /\ Books[k][i] = step  BY <1>2, <1>5, <3>2
        <4> QED BY <4>1, StepTracesFacts
      <3> QED BY <1>6, <3>1, <3>2
    <2> QED BY <2>1, <2>2
  <1>9. ASSUME NEW k \in DOMAIN Books, NEW l \in DOMAIN Books,
               NEW i \in DOMAIN Books[k], NEW j \in DOMAIN Books[l]
        PROVE  /\ k \in Nat /\ l \in Nat /\ i \in Nat /\ j \in Nat
               /\ (k < l \/ (k = l /\ i < j)) => Earlier(Books[k][i], Books[l][j])
    <2>1. k \in 1 .. n + 1 /\ l \in 1 .. n + 1 /\ n \in Nat  BY <1>1
    <2>2. k \in Nat /\ l \in Nat  BY <2>1
    <2>3. \A a \in DOMAIN Books : \A b \in DOMAIN Books[a] :
             b \in Nat /\ (a = n + 1 => b = 1 /\ step # NoStep /\ Books[a][b] = step)
      BY <1>2, <1>4, <1>5, <1>6, <1>7
    <2>4. ASSUME k < l \/ (k = l /\ i < j) PROVE Earlier(Books[k][i], Books[l][j])
      <3>1. CASE k = n + 1
        <4>1. l = n + 1 /\ i < j  BY <2>1, <2>4, <3>1
        <4> QED BY <2>3, <3>1, <4>1
      <3>2. CASE k \in DOMAIN runs /\ l = n + 1
        BY <1>4, <2>3, <3>2 DEF OInv, Ordered, Latest
      <3>3. CASE k \in DOMAIN runs /\ l \in DOMAIN runs
        BY <1>4, <2>4, <3>3 DEF OInv, Ordered, RunsInOrder
      <3> QED BY <1>6, <3>1, <3>2, <3>3
    <2> QED BY <2>2, <2>3, <2>4
  <1> QED BY <1>8, <1>9

\* Where events are filed says in which order they were emitted.
LEMMA EntriesInOrder ==
  ASSUME IInv, OInv, NEW p \in Entries, NEW q \in Entries
  PROVE  /\ EventAt(p) \in Range(log) \ dropped /\ EventAt(p) \in Events
         /\ p = q \/ Precedes(p, q) \/ Precedes(q, p)
         /\ Precedes(p, q) => Before(EventAt(p), EventAt(q))
         /\ ~(p[1] = q[1] /\ p[2] = q[2]) => EventAt(p).cycle # EventAt(q).cycle
  <1>1. PICK k \in DOMAIN Books : \E i \in DOMAIN Books[k] :
                \E m \in DOMAIN Books[k][i].events : p = <<k, i, m>>
    BY EntryFacts
  <1>2. PICK i \in DOMAIN Books[k] : \E m \in DOMAIN Books[k][i].events : p = <<k, i, m>>
    BY <1>1
  <1>3. PICK m \in DOMAIN Books[k][i].events : p = <<k, i, m>>
    BY <1>2
  <1>4. PICK l \in DOMAIN Books : \E j \in DOMAIN Books[l] :
                \E n \in DOMAIN Books[l][j].events : q = <<l, j, n>>
    BY EntryFacts
  <1>5. PICK j \in DOMAIN Books[l] : \E n \in DOMAIN Books[l][j].events : q = <<l, j, n>>
    BY <1>4
  <1>6. PICK n \in DOMAIN Books[l][j].events : q = <<l, j, n>>
    BY <1>5
  <1>7. /\ p[1] = k /\ p[2] = i /\ p[3] = m /\ q[1] = l /\ q[2] = j /\ q[3] = n
    BY <1>3, <1>6
  <1> DEFINE s == Books[k][i]
             t == Books[l][j]
             e == s.events[m]
             f == t.events[n]
  <1>8. EventAt(p) = e /\ EventAt(q) = f  BY <1>3, <1>6, EntryFacts
  <1>9. s \in StepTraces /\ t \in StepTraces  BY BookFacts
  <1>10. /\ k \in Nat /\ l \in Nat /\ i \in Nat /\ j \in Nat
         /\ (k < l \/ (k = l /\ i < j)) => Earlier(s, t)
         /\ (l < k \/ (l = k /\ j < i)) => Earlier(t, s)
    BY BookFacts
  <1>11. s.events \in Seq(Events) /\ t.events \in Seq(Events)
    BY <1>9, HeldFacts DEF Steps
  <1>12. m \in Nat /\ n \in Nat /\ e \in Events /\ f \in Events
    BY <1>11
  <1>13. e \in Range(s.events) /\ f \in Range(t.events)  BY DEF Range
  <1>14. e \in Range(log) \ dropped  BY <1>9, <1>13 DEF OInv, Placed
  <1>15. StepInOrder(s)  BY <1>9 DEF OInv, Ordered
  <1>16. Precedes(p, q) <=> \/ k < l
                            \/ k = l /\ i < j
                            \/ k = l /\ i = j /\ m < n
    BY <1>7 DEF Precedes
  <1>17. Precedes(q, p) <=> \/ l < k
                            \/ l = k /\ j < i
                            \/ l = k /\ j = i /\ n < m
    BY <1>7 DEF Precedes
  <1>18. k = l /\ i = j /\ m < n => Before(e, f)
    BY <1>15 DEF StepInOrder
  <1> HIDE DEF s, t, e, f
  <1>19. Earlier(s, t) => e.cycle < f.cycle  BY <1>13 DEF Earlier
  <1>20. Earlier(t, s) => f.cycle < e.cycle  BY <1>13 DEF Earlier
  <1>21. e.cycle \in Nat /\ f.cycle \in Nat  BY <1>12, BeforeFacts
  <1>22. p = q \/ Precedes(p, q) \/ Precedes(q, p)
    <2>1. k < l \/ l < k \/ k = l  BY <1>10
    <2>2. i < j \/ j < i \/ i = j  BY <1>10
    <2>3. m < n \/ n < m \/ m = n  BY <1>12
    <2> QED BY <1>3, <1>6, <1>16, <1>17, <2>1, <2>2, <2>3
  <1>23. Precedes(p, q) => Before(e, f)
    BY <1>10, <1>16, <1>18, <1>19 DEF Before
  <1>24. ~(k = l /\ i = j) => e.cycle # f.cycle
    <2>1. k < l \/ l < k \/ k = l  BY <1>10
    <2>2. i < j \/ j < i \/ i = j  BY <1>10
    <2>3. ~(k = l /\ i = j) => Earlier(s, t) \/ Earlier(t, s)  BY <1>10, <2>1, <2>2
    <2> QED BY <1>19, <1>20, <1>21, <2>3
  <1> QED BY <1>7, <1>8, <1>12, <1>14, <1>22, <1>23, <1>24

LEMMA OrderIsFiled == ASSUME IInv, OInv PROVE FiledInOrder
  <1>1. Range(log) \ dropped = {EventAt(p) : p \in Entries}
    <2>1. ASSUME NEW e, e \in Range(log) \ dropped PROVE \E p \in Entries : e = EventAt(p)
      <3>1. PICK s \in StepTraces : e \in Range(s.events)
        BY <2>1 DEF OInv, Placed
      <3>2. PICK m \in DOMAIN s.events : e = s.events[m]  BY <3>1 DEF Range
      <3>3. PICK k \in DOMAIN Books : \E i \in DOMAIN Books[k] : s = Books[k][i]
        BY BookFacts
      <3>4. PICK i \in DOMAIN Books[k] : s = Books[k][i]  BY <3>3
      <3>5. <<k, i, m>> \in Entries /\ EventAt(<<k, i, m>>) = e
        BY <3>2, <3>4, EntryFacts
      <3> QED BY <3>5
    <2>2. \A p \in Entries : EventAt(p) \in Range(log) \ dropped
      BY EntriesInOrder
    <2> QED BY <2>1, <2>2
  <1>2. ASSUME NEW p \in Entries, NEW q \in Entries, NEW m \in DOMAIN log, NEW n \in DOMAIN log,
               log[m] = EventAt(p), log[n] = EventAt(q)
        PROVE  Precedes(p, q) <=> m < n
    <2>1. DOMAIN log \subseteq Nat
      <3>1. log \in Seq(Events)  BY DEF IInv, TypeOK
      <3> QED BY <3>1
    <2>2. m \in Nat /\ n \in Nat  BY <2>1
    <2>3. /\ log[m] \in Events /\ log[n] \in Events
          /\ p = q \/ Precedes(p, q) \/ Precedes(q, p)
          /\ Precedes(p, q) => Before(log[m], log[n])
          /\ Precedes(q, p) => Before(log[n], log[m])
      BY <1>2, EntriesInOrder
    <2>4. /\ m < n => Before(log[m], log[n])
          /\ n < m => Before(log[n], log[m])
      BY DEF OInv, Ordered
    <2>5. /\ ~Before(log[m], log[m]) /\ (Before(log[m], log[n]) => ~Before(log[n], log[m]))
          /\ Before(log[m], log[n]) => log[m] # log[n]
      BY <2>3, BeforeFacts
    <2>6. ASSUME Precedes(p, q) PROVE m < n
      <3>1. ~(n < m) /\ m # n  BY <2>3, <2>4, <2>5, <2>6
      <3> QED BY <2>2, <3>1
    <2>7. ASSUME m < n PROVE Precedes(p, q)
      <3>1. Before(log[m], log[n])  BY <2>4, <2>7
      <3>2. p # q  BY <1>2, <2>5, <3>1
      <3> QED BY <2>3, <2>5, <3>1, <3>2
    <2> QED BY <2>6, <2>7
  <1> QED BY <1>1, <1>2 DEF FiledInOrder

-----------------------------------------------------------------------------
(* Theorems.                                                               *)

\* Recorder, store and agent keep their types in every order of calls.
THEOREM TraceTypeCorrect == Spec => []TypeOK
  <1>1. IInv => TypeOK  BY DEF IInv
  <1> QED BY <1>1, Invariance, PTL

\* Of an earlier time than its own a run holds at most its first step.
THEOREM ForeignStepsComeFirst == Spec => []OnlyFirstStepIsForeign
  <1>1. IInv => OnlyFirstStepIsForeign  BY DEF IInv
  <1> QED BY <1>1, Invariance, PTL

\* A StepTrace is one cycle, or cycles that exceptions left and at most one that ended.
THEOREM StepTracesAreCycles == Spec => []StepIsOneCycle
  <1>1. IInv => StepIsOneCycle  BY DEF IInv, StepIsOneCycle, Whole
  <1> QED BY <1>1, Invariance, PTL

\* No order of calls rewrites a run, or files it under another trace than its own.
THEOREM FilesKeepTheirRuns == Spec => []FilesBeginRuns
  <1>1. Init => FilesInv
    BY DEF Init, FilesInv, FilesBeginRuns
  <1>2. FilesInv => FilesBeginRuns  BY DEF FilesInv
  <1>3. IInv /\ FilesInv /\ [Next]_vars => FilesInv'  BY NextFiles
  <1> QED BY <1>1, <1>2, <1>3, Invariance, PTL DEF Spec

\* Whatever its callers do between steps, the recorder loses, repeats and reorders no
\* event that it was not told to discard.
THEOREM EventsAreFiledInOrder == Spec => []FiledInOrder
  <1>1. IInv /\ OInv => FiledInOrder  BY OrderIsFiled
  <1> QED BY <1>1, Invariance, InvarianceInOrder, PTL

\* Both events of a cycle are in one StepTrace.
THEOREM CyclesAreWhole == Spec => []NoCycleIsTorn
  <1>1. IInv /\ OInv => NoCycleIsTorn  BY EntriesInOrder DEF NoCycleIsTorn
  <1> QED BY <1>1, Invariance, InvarianceInOrder, PTL
=============================================================================
