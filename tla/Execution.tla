------------------------------ MODULE Execution ------------------------------
(***************************************************************************)
(* The two functions of src/eck/execution.py at the level of their model   *)
(* calls and of their telemetry, and the seam of src/eck/agent_loop.py in  *)
(* front of the second one.  Agent sees of them a proposal or none and an  *)
(* effect or none; here is what happens in between, for any caller: it may *)
(* build proposals itself, change the parameters of one it was given (the  *)
(* dataclass is frozen, its dict is not), pass any mode, no model, and no  *)
(* or unusable telemetry identifiers.  Each result is logged by a plain    *)
(* line and then reported by an event, through one logger; a handler of it *)
(* may raise at either, and an interrupt may arrive there or in the model. *)
(***************************************************************************)
EXTENDS Naturals, Sequences, SequencesExt

VARIABLES proposal,  \* the ProposedAction in the caller's hands, or NoProposal
          call,      \* arguments of the call on the stack, or of the last one
          pc,        \* "idle", "ask" or "query" the model, "log", "report"
          pending,   \* the result that is being logged and reported
          guarded,   \* that is inside the function's try
          queries,   \* effects attempted by this call
          answered,  \* the effect returned a string
          reports,   \* action.* events of this call that a handler received
          failures,  \* log lines and reports of this call that raised
          interrupted, \* it was left by an interrupt
          result     \* what the last call returned, or Raised

vars == <<proposal, call, pc, pending, guarded, queries, answered,
          reports, failures, interrupted, result>>

\* action_type, "prompt" among the parameters, non-blank provenance_id.
Actions == [action_type : {"llm_query", "other"}, prompt : BOOLEAN,
            provenance : BOOLEAN, origin : {"propose", "caller"}]

NoProposal == [action_type |-> "none", prompt |-> FALSE,
               provenance |-> FALSE, origin |-> "caller"]

Modes == {"NORMAL", "GUIDED", "ENFORCED", "HALT"}
Decisions == {"EXECUTE", "RETRY", "DEGRADE", "HALT"}

\* The three identifiers of an event: not all given, good ones, or given but blank
\* or negative, which only validate_event notices.
Identifiers == {"none", "valid", "invalid"}

\* What is raised: a JSONDecodeError, another ValueError (or TypeError, KeyError),
\* another Exception, or what is no Exception.
Kinds == {"json", "value", "other", "interrupt"}

\* gate is the decision of AgentLoop's gate, "direct" for a call past the seam.
Calls == [fn : {"none", "propose", "authorize"}, ids : Identifiers,
          task_id : {"good", "blank"}, argument : Actions \cup {NoProposal},
          mode : Modes, model : BOOLEAN, gate : Decisions \cup {"direct"}]

NoCall == [fn |-> "none", ids |-> "none", task_id |-> "good",
           argument |-> NoProposal, mode |-> "NORMAL", model |-> FALSE,
           gate |-> "direct"]

\* ProposedAction or None, and ExecutionResult: the reason tells them apart.
Ok == [ok |-> TRUE, reason |-> "none"]
Refused(reason) == [ok |-> FALSE, reason |-> reason]
Raised == [ok |-> FALSE, reason |-> "raised"]

Init == /\ proposal = NoProposal
        /\ call = NoCall
        /\ pc = "idle" /\ pending = Raised /\ guarded = FALSE
        /\ queries = 0 /\ answered = FALSE
        /\ reports = <<>> /\ failures = 0 /\ interrupted = FALSE
        /\ result = Raised

\* A call begins with clean locals.
Begin(c) == /\ pc = "idle"
            /\ call' = c
            /\ queries' = 0 /\ answered' = FALSE
            /\ reports' = <<>> /\ failures' = 0 /\ interrupted' = FALSE

\* A result is decided: its log line comes first.
ToLog(r, inTry) == pc' = "log" /\ pending' = r /\ guarded' = inTry
Leave(r) == pc' = "idle" /\ result' = r

-----------------------------------------------------------------------------
(* The caller's hands.                                                     *)

Construct == /\ pc = "idle"
             /\ \E a \in Actions : proposal' = [a EXCEPT !.origin = "caller"]
             /\ UNCHANGED <<call, pc, pending, guarded, queries, answered,
                            reports, failures, interrupted, result>>

-----------------------------------------------------------------------------
(* propose_execution.                                                      *)

CallPropose == /\ \E ids \in Identifiers, task_id \in {"good", "blank"} :
                     Begin([NoCall EXCEPT !.fn = "propose", !.ids = ids,
                                          !.task_id = task_id])
               /\ pc' = "ask"
               /\ proposal' = NoProposal
               /\ UNCHANGED <<pending, guarded, result>>

\* Mutant: key presence is left to the kernel.
AnswerRefusalNoKeys ==
    [not_json |-> "json_parse_failure",
     value_error |-> "parse_failure",
     other_action |-> "action_type_not_whitelisted",
     bad_parameters |-> "parameters_not_dict"]

\* Answers refused with a report outside any try: no JSON, a ValueError, TypeError
\* or KeyError of the model call, and the checks in their order.
AnswerRefusal ==
    [not_json |-> "json_parse_failure",
     value_error |-> "parse_failure",
     other_action |-> "action_type_not_whitelisted",
     bad_parameters |-> "parameters_not_dict",
     no_prompt |-> "missing_required_parameters"]

Answers == {"not_json", "value_error", "other_action", "bad_parameters",
            "no_prompt", "complete"}

AnswerProposal ==
    /\ pc = "ask"
    /\ \E answer \in Answers :
          IF answer \in DOMAIN AnswerRefusal
          THEN ToLog(Refused(AnswerRefusal[answer]), FALSE) /\ UNCHANGED proposal
          ELSE IF call.task_id = "blank"  \* ProposedAction.__post_init__ refuses
          THEN ToLog(Refused("construction_failure"), FALSE) /\ UNCHANGED proposal
          ELSE /\ ToLog(Ok, FALSE)
               /\ proposal' = [action_type |-> "llm_query", prompt |-> answer # "no_prompt",
                               provenance |-> TRUE, origin |-> "propose"]
    /\ UNCHANGED <<call, queries, answered, reports, failures, interrupted, result>>

\* Not a string: logged and reported before the try block is left.
AnswerNonString == /\ pc = "ask"
                   /\ ToLog(Refused("llm_non_string_response"), TRUE)
                   /\ UNCHANGED <<proposal, call, queries, answered, reports,
                                  failures, interrupted, result>>

\* Any other exception of the model call, an interrupt of it, and JSON that is no
\* object: data.get raises AttributeError past both handlers.
AnswerEscapes == /\ pc = "ask"
                 /\ Leave(Raised)
                 /\ interrupted' \in BOOLEAN
                 /\ UNCHANGED <<proposal, call, pending, guarded, queries,
                                answered, reports, failures>>

-----------------------------------------------------------------------------
(* authorize_and_perform.                                                  *)

\* Mutant: what was proposed is taken to have been checked.
KernelRefusalTrusting(a) ==
    CASE a.action_type # "llm_query" -> "action_type_not_whitelisted"
      [] OTHER -> "none"

\* The kernel's own checks of the proposal, in their order.
KernelRefusal(a) ==
    CASE a.action_type # "llm_query" -> "action_type_not_whitelisted"
      [] a.action_type = "llm_query" /\ ~a.prompt -> "missing_required_parameters"
      [] a.action_type = "llm_query" /\ a.prompt /\ ~a.provenance
            -> "missing_provenance_id"
      [] OTHER -> "none"

\* INV3 and INV6: anything else raises AssertionError at once.
Compliant(c) == c.argument # NoProposal /\ c.mode # "HALT"

Enter(c) == /\ Begin(c)
            /\ IF ~Compliant(c)
               THEN Leave(Raised) /\ UNCHANGED <<pending, guarded>>
               ELSE /\ IF KernelRefusal(c.argument) # "none"
                       THEN ToLog(Refused(KernelRefusal(c.argument)), FALSE)
                       ELSE IF ~c.model
                       THEN ToLog(Refused("llm_call_not_provided"), TRUE)
                       ELSE pc' = "query" /\ UNCHANGED <<pending, guarded>>
                    /\ UNCHANGED result
            /\ UNCHANGED proposal

CallAuthorize ==
    \E ids \in Identifiers, m \in Modes, model \in BOOLEAN :
       Enter([NoCall EXCEPT !.fn = "authorize", !.ids = ids, !.mode = m,
                            !.model = model, !.argument = proposal])

\* AgentLoop.step with authorize_and_perform as its hook: one gate decision, and
\* the hook on EXECUTE only.  Any other decision ends the step with no result.
LoopStep ==
    \E d \in Decisions, ids \in Identifiers, m \in Modes :
       LET c == [NoCall EXCEPT !.fn = "authorize", !.ids = ids, !.mode = m,
                               !.model = TRUE, !.argument = proposal, !.gate = d]
       IN IF d = "EXECUTE"
          THEN Enter(c)
          ELSE /\ Begin(c)
               /\ Leave(Refused("gate"))
               /\ UNCHANGED <<proposal, pending, guarded>>

\* Mutant: any answer will do.
NonStringAccepted == Ok

NonStringResult == Refused("llm_query_non_string_response")

\* Mutant: an exception of the effect is tried again.
QueryRetries == /\ pc = "query"
                /\ queries' = queries + 1
                /\ \/ answered' = TRUE /\ ToLog(Ok, TRUE)
                   \/ UNCHANGED <<answered, pc, pending, guarded>>
                /\ UNCHANGED <<proposal, call, reports, failures, interrupted, result>>

\* The one effect.  Its answer is a string, something else, or an exception, which
\* is refused outside the try; an interrupt of it is not caught at all.
Query == /\ pc = "query"
         /\ queries' = queries + 1
         /\ \/ /\ answered' = TRUE /\ ToLog(Ok, TRUE)
               /\ UNCHANGED <<interrupted, result>>
            \/ /\ ToLog(NonStringResult, TRUE)
               /\ UNCHANGED <<answered, interrupted, result>>
            \/ /\ ToLog(Refused("unexpected_error"), FALSE)
               /\ UNCHANGED <<answered, interrupted, result>>
            \/ /\ Leave(Raised) /\ interrupted' = TRUE
               /\ UNCHANGED <<answered, pending, guarded>>
         /\ UNCHANGED <<proposal, call, reports, failures>>

-----------------------------------------------------------------------------
(* logger.info or logger.warning, _emit_action_proposed or                 *)
(* _emit_action_executed, then the return; and what a raise of them does.  *)

Log == /\ pc = "log"
       /\ pc' = "report"
       /\ UNCHANGED <<proposal, call, pending, guarded, queries, answered,
                      reports, failures, interrupted, result>>

\* build_event raises ValueError on an envelope that validate_event rejects.
Reportable == call.ids = "valid"

Report == /\ pc = "report"
          /\ call.ids # "invalid"
          /\ reports' = IF Reportable THEN Append(reports, pending) ELSE reports
          /\ Leave(pending)
          /\ UNCHANGED <<proposal, call, pending, guarded, queries, answered,
                         failures, interrupted>>

\* Mutant: authorize_and_perform handles ValueError and its like only.
CatchesFew(kind) == guarded /\ kind \in {"json", "value"}

\* The handlers: propose's know ValueError and its like, authorize's any Exception.
Catches(kind) == /\ guarded
                 /\ kind \in IF call.fn = "authorize" THEN Kinds \ {"interrupt"}
                                                    ELSE {"json", "value"}

\* What they make of it.
CaughtReason(kind) == CASE call.fn = "authorize" -> "unexpected_error"
                        [] call.fn # "authorize" /\ kind = "json" -> "json_parse_failure"
                        [] OTHER -> "parse_failure"

\* Mutant: a handler returns its refusal without reporting it.
CaughtSilently(reason) == Leave(Refused(reason)) /\ UNCHANGED <<pending, guarded>>

\* A handler logs and reports a refusal of its own in place of the result, and is
\* itself outside the try.
Caught(reason) == ToLog(Refused(reason), FALSE) /\ UNCHANGED result

Raises(kind) ==
    /\ failures' = failures + 1
    /\ interrupted' = (kind = "interrupt")
    /\ IF Catches(kind)
       THEN Caught(CaughtReason(kind))
       ELSE Leave(Raised) /\ UNCHANGED <<pending, guarded>>
    /\ proposal' = IF call.fn = "propose" THEN NoProposal ELSE proposal
    /\ UNCHANGED <<call, queries, answered>>

\* A handler raises at the plain line: the event is not sent.
LogRaises == /\ pc = "log"
             /\ \E kind \in Kinds : Raises(kind)
             /\ UNCHANGED reports

\* A handler raises at the event, perhaps after another has received it.
ReportRaises ==
    /\ pc = "report"
    /\ call.ids # "none"
    /\ \E kind \in IF Reportable THEN Kinds ELSE {"value"} : Raises(kind)
    /\ reports' \in {reports} \cup (IF Reportable THEN {Append(reports, pending)} ELSE {})

-----------------------------------------------------------------------------
Next == \/ Construct \/ CallPropose \/ CallAuthorize \/ LoopStep
        \/ AnswerProposal \/ AnswerNonString \/ AnswerEscapes
        \/ Query \/ Log \/ LogRaises \/ Report \/ ReportRaises

Spec == Init /\ [][Next]_vars

-----------------------------------------------------------------------------
(* Properties.                                                             *)

Reasons == {"none", "raised", "gate", "json_parse_failure", "parse_failure",
            "llm_non_string_response", "action_type_not_whitelisted",
            "parameters_not_dict", "missing_required_parameters",
            "construction_failure", "missing_provenance_id",
            "llm_call_not_provided", "llm_query_non_string_response",
            "unexpected_error"}

\* ExecutionResult.__post_init__: no result is split-brain.
Results == {r \in [ok : BOOLEAN, reason : Reasons] : r.ok <=> r.reason = "none"}

\* No result is performed and refused at once, and a call attempts one effect at most.
TypeOK == /\ proposal \in Actions \cup {NoProposal}
          /\ call \in Calls
          /\ pc \in {"idle", "ask", "query", "log", "report"}
          /\ pending \in Results /\ guarded \in BOOLEAN
          /\ queries \in 0 .. 1 /\ answered \in BOOLEAN
          /\ reports \in Seq(Results) /\ failures \in 0 .. 2 /\ interrupted \in BOOLEAN
          /\ result \in Results

\* ADR-042 sections 4 and 5: whatever the caller did to the proposal since it was
\* made, an effect is attempted only for one that is complete when it is attempted,
\* outside HALT, and behind the seam only on EXECUTE.
EffectIsAuthorized ==
    queries > 0 => /\ call.fn = "authorize" /\ call.mode # "HALT" /\ call.model
                   /\ call.argument \in [action_type : {"llm_query"}, prompt : {TRUE},
                                         provenance : {TRUE}, origin : {"propose", "caller"}]
                   /\ call.gate \in {"direct", "EXECUTE"}

Finished(fn) == pc = "idle" /\ call.fn = fn /\ call.gate \in {"direct", "EXECUTE"}

\* A result is performed only if the effect answered, and an effect that answered is
\* refused only if logging or reporting that it was performed raised, once.
ResultIsTrue ==
    Finished("authorize") => /\ result.ok => answered
                             /\ answered /\ ~result.ok /\ result # Raised => failures = 1

\* However often logging and reporting fail, the last event a handler got is about
\* the result the caller got; without failures it is the only one.
LastReportAgrees ==
    /\ \E fn \in {"propose", "authorize"} : Finished(fn)
    /\ call.ids = "valid" /\ result # Raised
    => /\ reports # <<>> /\ Last(reports) = result
       /\ failures = 0 => Len(reports) = 1

\* "Contract-level authorization failures never raise": to a compliant caller only
\* an interrupt or the log does, the log after an effect that answered only by
\* failing twice.
RaisesOnlyForLogs ==
    Finished("authorize") /\ result = Raised /\ Compliant(call) /\ ~interrupted
        => failures > 0 /\ (answered => failures = 2)

\* The two whitelists agree: the kernel refuses no proposal as propose_execution
\* returned it.
ProposedIsAuthorizable ==
    proposal.origin = "propose" => KernelRefusal(proposal) = "none"
=============================================================================
