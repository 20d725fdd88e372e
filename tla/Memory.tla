-------------------------------- MODULE Memory --------------------------------
(***************************************************************************)
(* Memory retrieval for the prediction prompt: MemoryRetrieval of          *)
(* src/eck/memory.py, the ranking of src/eck/similarity.py, and the parts  *)
(* of the agent's construction and of build_prediction_context that switch *)
(* them on.  The agents of one process are used one after the other; what  *)
(* outlives an agent is the module-level outcome of importing numpy.  An   *)
(* interrupt, which no "except Exception" stops, may arrive in the import, *)
(* in encode, up to and in integrate_retrieval, and in the log handler.    *)
(***************************************************************************)
EXTENDS Naturals, Sequences, FiniteSets, SequencesExt

CONSTANTS NUM_RECORDS,   \* records of the world model, 3 in the code's mock
          MAX_AGENTS,    \* bound: agents constructed in the process
          MAX_ATTEMPTS   \* bound: retrievals of one agent

ASSUME MemoryAssumption ==
    NUM_RECORDS \in Nat /\ MAX_AGENTS \in Nat /\ MAX_ATTEMPTS \in Nat

VARIABLES agents,    \* agents constructed so far
          enabled,   \* enable_memory_retrieval of the present one's config
          model,     \* its embedding model was asked for, and loaded
          numpy,     \* _np and _np_failed of similarity.py
          pc,        \* "idle", "numpy", "query", "tasks", "integrate", "log" (the finally block)
          query,     \* of the last retrieval
          items,     \* execution.items of the retrieval on the stack
          count,     \* its item_count
          raised,    \* an exception is on its way out
          ordering,  \* what ordered the items: "none", "core", "fallback", "ranked"
          runId,     \* _run_id
          attempts,  \* enabled retrievals of this agent so far
          logs,      \* its entries that a handler received
          context    \* what the last retrieval put in the prompt, in order

present == <<agents, enabled, model>>
vars == <<agents, enabled, model, numpy, pc, query, items, count, raised, ordering,
          runId, attempts, logs, context>>

\* The mock world model, its records numbered by created_at.
Records == 1 .. NUM_RECORDS

\* A stripped, lower-cased text is empty, or a substring of some descriptions: every
\* set of the mock's three is met by some text ("co" for the first two, "w" for the others).
EmptyQuery == [empty |-> TRUE, matches |-> {}]
Queries == {EmptyQuery} \cup [empty : {FALSE}, matches : SUBSET Records]

\* Cosine scores, as far as their order goes.
Scores == 0 .. 2

\* sort() by a key no two records share: each record stands before all that follow.
InOrder(records, before) ==
    CHOOSE list \in [1 .. Cardinality(records) -> records] :
        \A i, j \in 1 .. Cardinality(records) : i < j => <<list[i], list[j]>> \in before

\* Mutant: sorted without reverse.
OldestFirst(records) == InOrder(records, {p \in records \X records : p[1] < p[2]})

\* sort(key=created_at, reverse=True).
NewestFirst(records) == InOrder(records, {p \in records \X records : p[1] > p[2]})

\* _core_retrieve_similar with limit = len(tasks): nothing is cut off.
CoreOrder(records) == NewestFirst(records)

\* sort(key=(score, created_at), reverse=True) over the whole world model.
Ranked(score) ==
    InOrder(Records, {p \in Records \X Records :
                         \/ score[p[1]] > score[p[2]]
                         \/ score[p[1]] = score[p[2]] /\ p[1] > p[2]})

-----------------------------------------------------------------------------
Init == /\ agents = 0
        /\ enabled = FALSE /\ model = FALSE
        /\ numpy = "untried"
        /\ pc = "idle" /\ query = EmptyQuery /\ items = <<>> /\ count = 0
        /\ raised = FALSE
        /\ ordering = "none"
        /\ runId = 0 /\ attempts = 0 /\ logs = <<>>
        /\ context = <<>>

\* Mutant: one _run_id for all agents of the process.
ConstructSharedCounter ==
    /\ pc = "idle"
    /\ agents < MAX_AGENTS
    /\ agents' = agents + 1
    /\ enabled' \in BOOLEAN /\ model' \in BOOLEAN
    /\ attempts' = 0 /\ logs' = <<>>
    /\ query' = EmptyQuery /\ items' = <<>> /\ count' = 0 /\ raised' = FALSE
    /\ ordering' = "none" /\ context' = <<>>
    /\ UNCHANGED <<numpy, pc, runId>>

\* ECKAgent.__init__: a model that cannot be loaded is None, silently.
Construct ==
    /\ pc = "idle"
    /\ agents < MAX_AGENTS
    /\ agents' = agents + 1
    /\ enabled' \in BOOLEAN
    /\ \E enable_embeddings, loads \in BOOLEAN : model' = (enable_embeddings /\ loads)
    /\ runId' = 0 /\ attempts' = 0 /\ logs' = <<>>
    /\ query' = EmptyQuery /\ items' = <<>> /\ count' = 0 /\ raised' = FALSE
    /\ ordering' = "none" /\ context' = <<>>
    /\ UNCHANGED <<numpy, pc>>

\* build_prediction_context looks at the toggle first: nothing else happens.
Bypass == /\ pc = "idle"
          /\ agents > 0 /\ ~enabled
          /\ query' \in Queries
          /\ context' = <<>>
          /\ UNCHANGED <<present, numpy, pc, items, count, raised, ordering, runId,
                         attempts, logs>>

\* execution = RetrievalExecution(items=...).
Finish(list, how) == /\ pc' = "integrate" /\ items' = list /\ ordering' = how
                     /\ UNCHANGED <<count, raised>>

\* An interrupt goes to the finally block with item_count still 0.
Escape == pc' = "log" /\ raised' = TRUE /\ UNCHANGED <<items, count, ordering>>

\* retrieve(): with a model every record is a candidate, without one the matching.
Retrieve ==
    /\ pc = "idle"
    /\ agents > 0 /\ enabled
    /\ attempts < MAX_ATTEMPTS
    /\ attempts' = attempts + 1
    /\ \E q \in Queries :
          /\ query' = q
          /\ count' = 0 /\ raised' = FALSE
          /\ IF q.empty
             THEN pc' = "integrate" /\ items' = <<>> /\ ordering' = "none"
             ELSE IF model
             THEN pc' = "numpy" /\ items' = <<>> /\ ordering' = "none"
             ELSE pc' = "integrate" /\ items' = CoreOrder(q.matches) /\ ordering' = "core"
    /\ UNCHANGED <<present, numpy, runId, logs, context>>

\* Mutant: what failed returns nothing.
FallbackEmpty == Finish(<<>>, "fallback")

\* _core_retrieve_similar of all candidates, in place of any ranking that failed.
Fallback == Finish(CoreOrder(Records), "fallback")

\* Mutant: the failure sentinel is not kept, the import is tried each time.
ImportNumpyAgain ==
    /\ pc = "numpy"
    /\ \/ numpy' = "loaded" /\ pc' = "query" /\ UNCHANGED <<items, count, raised, ordering>>
       \/ numpy' = "failed" /\ Fallback
    /\ UNCHANGED <<present, query, runId, attempts, logs, context>>

\* _get_np: the first outcome is kept for the life of the process, unless an
\* interrupt, which is no Exception, leaves the import.
ImportNumpy ==
    /\ pc = "numpy"
    /\ \/ /\ numpy # "failed"
          /\ numpy' = "loaded" /\ pc' = "query"
          /\ UNCHANGED <<items, count, raised, ordering>>
       \/ numpy # "loaded" /\ numpy' = "failed" /\ Fallback
       \/ numpy = "untried" /\ Escape /\ UNCHANGED numpy
    /\ UNCHANGED <<present, query, runId, attempts, logs, context>>

\* embedding_model.encode of the query; anything but an interrupt falls back.
EncodeQuery ==
    /\ pc = "query"
    /\ \/ pc' = "tasks" /\ UNCHANGED <<items, count, raised, ordering>>
       \/ Fallback
       \/ Escape
    /\ UNCHANGED <<present, numpy, query, runId, attempts, logs, context>>

\* encode of the descriptions and the ranking; so does a wrong number of vectors.
EncodeTasks ==
    /\ pc = "tasks"
    /\ \/ \E score \in [Records -> Scores] : Finish(Ranked(score), "ranked")
       \/ Fallback
       \/ Escape
    /\ UNCHANGED <<present, numpy, query, runId, attempts, logs, context>>

\* item_count, then the block: an interrupt may come before either or between them.
Integrate ==
    /\ pc = "integrate"
    /\ pc' = "log"
    /\ \/ count' = Len(items) /\ UNCHANGED raised
       \/ count' \in {0, Len(items)} /\ raised' = TRUE
    /\ UNCHANGED <<present, numpy, query, items, ordering, runId, attempts, logs, context>>

\* Mutant: only a retrieval that succeeded is logged.
LogOnReturn == /\ pc = "log"
               /\ pc' = "idle"
               /\ runId' = IF raised THEN runId ELSE runId + 1
               /\ logs' = IF raised THEN logs
                          ELSE Append(logs, [run_id |-> runId + 1, item_count |-> count])
               /\ context' = IF raised THEN <<>> ELSE items
               /\ UNCHANGED <<present, numpy, query, items, count, raised, ordering, attempts>>

\* Mutant: the entry counts the candidates.
LogCandidates == /\ pc = "log"
                 /\ pc' = "idle"
                 /\ runId' = runId + 1
                 /\ logs' = Append(logs, [run_id |-> runId + 1,
                                         item_count |-> Cardinality(query.matches)])
                 /\ context' = IF raised THEN <<>> ELSE items
                 /\ UNCHANGED <<present, numpy, query, items, count, raised, ordering, attempts>>

\* log_observability in the finally block: its handler receives the entry or not,
\* and returns, raises what is swallowed, or is interrupted.  Then the return.
Log == /\ pc = "log"
       /\ pc' = "idle"
       /\ runId' = runId + 1
       /\ \/ logs' = Append(logs, [run_id |-> runId + 1, item_count |-> count])
          \/ UNCHANGED logs
       /\ UNCHANGED raised \/ raised' = TRUE
       /\ context' = IF raised' THEN <<>> ELSE items
       /\ UNCHANGED <<present, numpy, query, items, count, ordering, attempts>>

Next == \/ Construct \/ Bypass \/ Retrieve \/ ImportNumpy
        \/ EncodeQuery \/ EncodeTasks \/ Integrate \/ Log

Spec == Init /\ [][Next]_vars

-----------------------------------------------------------------------------
(* Properties.                                                             *)

TypeOK == /\ agents \in 0 .. MAX_AGENTS /\ enabled \in BOOLEAN /\ model \in BOOLEAN
          /\ numpy \in {"untried", "loaded", "failed"}
          /\ pc \in {"idle", "numpy", "query", "tasks", "integrate", "log"}
          /\ query \in Queries /\ raised \in BOOLEAN
          /\ items \in Seq(Records) /\ context \in Seq(Records)
          /\ count \in 0 .. NUM_RECORDS
          /\ ordering \in {"none", "core", "fallback", "ranked"}
          /\ runId \in 0 .. MAX_ATTEMPTS /\ attempts \in 0 .. MAX_ATTEMPTS
          /\ logs \in Seq([run_id : 1 .. MAX_ATTEMPTS, item_count : 0 .. NUM_RECORDS])

\* ADR-029: each enabled retrieval issues one entry, however it was left, numbered
\* by the retrieval; an entry its handler lost leaves a gap, never a shift.
OneEntryPerAttempt ==
    /\ pc = "idle" => runId = attempts
    /\ \A i, j \in DOMAIN logs : i < j => logs[i].run_id < logs[j].run_id

\* The entry of a retrieval that returned counts the records that reached the prompt,
\* also when a ranking was given up on the way.  Nothing reaches it after an interrupt:
\* the entry then counts no record, or all that had been found (memory.py:232).
EntryDescribesContext ==
    pc = "idle" /\ logs # <<>> /\ Last(logs).run_id = attempts
        => IF raised
           THEN context = <<>> /\ Last(logs).item_count \in {0, Len(items)}
           ELSE Last(logs).item_count = Len(context)

\* Ranking and falling back never cost a record: every record that matches the text
\* is in the prompt, none twice, unless an exception left.
NoMatchIsLost ==
    pc = "idle" /\ attempts > 0 /\ ~raised
        => query.matches \subseteq ToSet(context) /\ IsInjective(context)

\* The block's constant header, "Order: most recent first" (memory.py:152), is true
\* of every context that no embedding ranked.
HeaderIsTrueUnlessRanked ==
    pc = "idle" /\ ordering # "ranked"
        => \A i, j \in DOMAIN context : i < j => context[i] > context[j]

\* Once the import of numpy failed, no agent of the process ranks by embedding again,
\* whether or not its model loaded.
NoRankingAfterFailure ==
    [][numpy = "failed" => /\ numpy' = "failed"
                           /\ ordering' = "ranked" => UNCHANGED ordering]_vars

\* ADR-032, "Must Never Happen": "Optional dependency failure causing any exception,
\* HALT, policy change, or behavioral divergence from the ADR-031 core path."  The
\* core path lists the matching records only.
FallbackIsCorePath ==
    pc = "idle" /\ ordering = "fallback" /\ ~raised
        => context = CoreOrder(query.matches)
=============================================================================
