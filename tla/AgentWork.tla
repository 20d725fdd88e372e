------------------------------ MODULE AgentWork ------------------------------
(***************************************************************************)
(* Agent with a record of the work that left the queue, or never reached   *)
(* it, because of the gate or of its capacity: the kernel keeps none.      *)
(***************************************************************************)
EXTENDS Agent

VARIABLE lost   \* ways in which work was lost so far

workVars == <<vars, lost>>

WorkInit == Init /\ lost = {}

\* A task whose proposal the gate refused is not put back.
TaskGated == pc = "learn" /\ local.decision \notin {"none", "EXECUTE"}

\* More subtasks than the queue, full now, had room for.
SubtasksDropped == /\ pc = "subtasks" /\ pc' = "guard"
                   /\ Len(queue') = MAX_QUEUE_SIZE
                   /\ MAX_SUBTASKS > MAX_QUEUE_SIZE - Len(queue)

WorkNext == /\ Next
            /\ lost' \in IF TaskGated THEN {lost \cup {"gated"}}
                         ELSE IF SubtasksDropped THEN {lost, lost \cup {"dropped"}}
                         ELSE {lost}

WorkSpec == WorkInit /\ [][WorkNext]_workVars

\* ADR-041 section 3: an empty queue is completion "only when naturally exhausted";
\* emptiness caused by policy gating "MUST NOT be treated as sufficient".
GoalOnNaturalExhaustion == goal => lost = {}
=============================================================================
