--------------------------- MODULE ExecutionProofs ---------------------------
(***************************************************************************)
(* The properties of Execution, for every caller and any sequence of calls.*)
(* Each speaks of what a call has done when it returns; the invariant says *)
(* what is true at each place inside one.                                  *)
(***************************************************************************)
EXTENDS Execution, TLAPS

\* Before the effect nothing has happened.
Untouched == /\ queries = 0 /\ answered = FALSE /\ reports = <<>> /\ failures = 0
             /\ interrupted = FALSE

Authorized == /\ call.fn = "authorize" /\ Compliant(call) /\ call.model
              /\ KernelRefusal(call.argument) = "none"
              /\ call.gate \in {"direct", "EXECUTE"}

\* A refusal of an effect that answered is a handler's, after one failure.
Reporting == /\ call.fn \in {"propose", "authorize"}
             /\ call.fn = "authorize" => Compliant(call) /\ call.gate \in {"direct", "EXECUTE"}
             /\ call.fn = "authorize" /\ pending.ok => answered /\ guarded
             /\ answered => call.fn = "authorize" /\ queries = 1
             /\ answered /\ ~pending.ok => ~guarded /\ failures = 1
             /\ guarded => failures = 0
             /\ failures <= 1 /\ interrupted = FALSE
             /\ failures = 0 => reports = <<>>
             /\ pending # Raised

Places == /\ pc = "ask" => call.fn = "propose" /\ Untouched
          /\ pc = "query" => Authorized /\ Untouched
          /\ pc \in {"log", "report"} => Reporting
          /\ queries > 0 => Authorized

IInv == /\ TypeOK /\ Places /\ ResultIsTrue /\ LastReportAgrees
        /\ RaisesOnlyForLogs /\ ProposedIsAuthorizable

\* The results the code can build are Results.
LEMMA ResultFacts ==
  /\ Ok \in Results /\ Raised \in Results /\ Refused("gate") \in Results
  /\ Ok.ok /\ ~Raised.ok
  /\ \A r \in Reasons \ {"none"} : Refused(r) \in Results /\ ~Refused(r).ok
  /\ \A r \in Reasons \ {"none", "raised"} : Refused(r) # Raised
  BY DEF Ok, Raised, Refused, Results, Reasons

\* The types of what the start of a call resets.
LEMMA UntouchedTypes ==
  ASSUME Untouched'
  PROVE  /\ queries' \in 0 .. 1 /\ answered' \in BOOLEAN /\ failures' \in 0 .. 2
         /\ reports' \in Seq(Results) /\ interrupted' \in BOOLEAN
  <1>1. /\ queries' = 0 /\ answered' = FALSE /\ reports' = <<>> /\ failures' = 0
        /\ interrupted' = FALSE
    BY DEF Untouched
  <1>2. reports' \in Seq(Results)  BY <1>1
  <1>3. answered' \in BOOLEAN /\ interrupted' \in BOOLEAN  BY <1>1
  <1> QED BY <1>1, <1>2, <1>3

\* Nothing has been called.
LEMMA InitIInv == Init => IInv
  <1> SUFFICES ASSUME Init PROVE IInv  OBVIOUS
  <1>1. NoCall \in Calls /\ NoCall.fn = "none"
    BY DEF NoCall, Calls, Identifiers, Modes, Decisions
  <1>2. TypeOK
    <2>1. reports \in Seq(Results) /\ queries \in 0 .. 1 /\ failures \in 0 .. 2
      BY DEF Init
    <2>2. answered \in BOOLEAN /\ guarded \in BOOLEAN /\ interrupted \in BOOLEAN
      BY DEF Init
    <2>3. pending \in Results /\ result \in Results  BY ResultFacts DEF Init
    <2>4. /\ proposal \in Actions \cup {NoProposal} /\ call \in Calls
          /\ pc \in {"idle", "ask", "query", "log", "report"}
      BY <1>1 DEF Init
    <2> QED BY <2>1, <2>2, <2>3, <2>4 DEF TypeOK
  <1>3. Places  BY DEF Init, Places
  <1>4. NoProposal.origin # "propose"  BY DEF NoProposal
  <1> QED BY <1>1, <1>2, <1>3, <1>4
        DEF Init, IInv, ResultIsTrue, LastReportAgrees, RaisesOnlyForLogs,
            ProposedIsAuthorizable, Finished

\* Inside a call the properties of finished calls say nothing.
LEMMA InsideIInv ==
  ASSUME TypeOK', Places', ProposedIsAuthorizable', pc' # "idle"
  PROVE  IInv'
  BY DEF IInv, ResultIsTrue, LastReportAgrees, RaisesOnlyForLogs, Finished

\* A proposal the caller builds or changes is no longer propose_execution's.
LEMMA ConstructIInv == IInv /\ Construct => IInv'
  <1> SUFFICES ASSUME IInv, Construct PROVE IInv'  OBVIOUS
  <1>1. /\ proposal' \in Actions /\ proposal'.origin = "caller"
        /\ UNCHANGED <<call, pc, pending, guarded, queries, answered, reports,
                       failures, interrupted, result>>
    BY DEF Construct, Actions
  <1> QED BY <1>1 DEF IInv, TypeOK, Places, Reporting, Authorized, Untouched, ResultIsTrue,
                      LastReportAgrees, RaisesOnlyForLogs, ProposedIsAuthorizable,
                      Finished, Compliant

\* A call of propose_execution waits for the model.
LEMMA CallProposeIInv == IInv /\ CallPropose => IInv'
  <1> SUFFICES ASSUME IInv, CallPropose PROVE IInv'  OBVIOUS
  <1>1. PICK ids \in Identifiers, task_id \in {"good", "blank"} :
           Begin([NoCall EXCEPT !.fn = "propose", !.ids = ids, !.task_id = task_id])
    BY DEF CallPropose
  <1>2. call' \in Calls /\ call'.fn = "propose"
    BY <1>1 DEF Begin, NoCall, Calls, Identifiers, Modes, Decisions
  <1>3. /\ pc' = "ask" /\ proposal' = NoProposal /\ Untouched'
        /\ UNCHANGED <<pending, guarded, result>>
    BY <1>1 DEF CallPropose, Begin, Untouched
  <1>4. NoProposal.origin # "propose"  BY DEF NoProposal
  <1>5. TypeOK'  BY <1>2, <1>3, UntouchedTypes DEF IInv, TypeOK
  <1>6. Places'  BY <1>2, <1>3 DEF Places, Untouched
  <1> QED BY <1>3, <1>4, <1>5, <1>6, InsideIInv DEF ProposedIsAuthorizable

\* What the model answers decides the result; a proposal it makes is complete.
LEMMA AnswerProposalIInv == IInv /\ AnswerProposal => IInv'
  <1> SUFFICES ASSUME IInv, AnswerProposal PROVE IInv'  OBVIOUS
  <1>1. PICK answer \in Answers :
          IF answer \in DOMAIN AnswerRefusal
          THEN ToLog(Refused(AnswerRefusal[answer]), FALSE) /\ UNCHANGED proposal
          ELSE IF call.task_id = "blank"
          THEN ToLog(Refused("construction_failure"), FALSE) /\ UNCHANGED proposal
          ELSE /\ ToLog(Ok, FALSE)
               /\ proposal' = [action_type |-> "llm_query", prompt |-> answer # "no_prompt",
                               provenance |-> TRUE, origin |-> "propose"]
    BY DEF AnswerProposal
  <1>2. answer \in DOMAIN AnswerRefusal
           => AnswerRefusal[answer] \in Reasons \ {"none", "raised"}
    BY DEF AnswerRefusal, Reasons
  <1>3. answer # "no_prompt" \/ answer \in DOMAIN AnswerRefusal  BY DEF AnswerRefusal
  <1>4. /\ pc' = "log" /\ guarded' = FALSE /\ pending' \in Results /\ pending' # Raised
        /\ \/ UNCHANGED proposal
           \/ proposal' = [action_type |-> "llm_query", prompt |-> TRUE,
                           provenance |-> TRUE, origin |-> "propose"]
    BY <1>1, <1>2, <1>3, ResultFacts DEF ToLog, Raised, Ok, Reasons
  <1>5. /\ proposal' \in Actions \cup {NoProposal}
        /\ proposal'.origin = "propose" => KernelRefusal(proposal') = "none"
    <2>1. CASE UNCHANGED proposal
      BY <2>1 DEF IInv, TypeOK, ProposedIsAuthorizable
    <2>2. CASE proposal' = [action_type |-> "llm_query", prompt |-> TRUE,
                            provenance |-> TRUE, origin |-> "propose"]
      BY <2>2 DEF Actions, KernelRefusal
    <2> QED BY <1>4, <2>1, <2>2
  <1>6. /\ call.fn = "propose" /\ Untouched
        /\ UNCHANGED <<call, queries, answered, reports, failures, interrupted, result>>
    BY DEF IInv, Places, AnswerProposal
  <1>7. TypeOK'  BY <1>4, <1>5, <1>6 DEF IInv, TypeOK, Untouched
  <1>8. Places'  BY <1>4, <1>6 DEF Places, Reporting, Untouched
  <1> QED BY <1>4, <1>5, <1>7, <1>8, InsideIInv DEF ProposedIsAuthorizable

\* The other two ways out of the model call of propose_execution.
LEMMA AnswerFailsIInv == IInv /\ (AnswerNonString \/ AnswerEscapes) => IInv'
  <1> SUFFICES ASSUME IInv, AnswerNonString \/ AnswerEscapes PROVE IInv'  OBVIOUS
  <1>1. /\ call.fn = "propose" /\ Untouched
        /\ UNCHANGED <<proposal, call, queries, answered, reports, failures>>
    BY DEF IInv, Places, AnswerNonString, AnswerEscapes
  <1>2. CASE AnswerNonString
    <2>1. /\ pc' = "log" /\ guarded' = TRUE /\ UNCHANGED <<interrupted, result>>
          /\ pending' \in Results /\ pending' # Raised
      BY <1>2, ResultFacts DEF AnswerNonString, ToLog, Reasons
    <2>2. TypeOK'  BY <1>1, <2>1 DEF IInv, TypeOK, Untouched
    <2>3. Places'  BY <1>1, <2>1 DEF Places, Reporting, Untouched
    <2>4. ProposedIsAuthorizable'  BY <1>1 DEF IInv, ProposedIsAuthorizable
    <2> QED BY <2>1, <2>2, <2>3, <2>4, InsideIInv
  <1>3. CASE AnswerEscapes
    <2>1. /\ pc' = "idle" /\ result' = Raised /\ interrupted' \in BOOLEAN
          /\ UNCHANGED <<pending, guarded>>
      BY <1>3 DEF AnswerEscapes, Leave
    <2>2. TypeOK'  BY <1>1, <2>1, ResultFacts DEF IInv, TypeOK, Untouched
    <2> QED BY <1>1, <2>1, <2>2, ResultFacts
          DEF IInv, Places, Untouched, ResultIsTrue, LastReportAgrees,
              RaisesOnlyForLogs, ProposedIsAuthorizable, Finished
  <1> QED BY <1>2, <1>3

\* authorize_and_perform asserts, checks, and goes on to the effect only then.
LEMMA EnterIInv ==
  ASSUME IInv, NEW c \in Calls, c.fn = "authorize", c.gate \in {"direct", "EXECUTE"}, Enter(c)
  PROVE  IInv'
  <1>1. call' = c /\ Untouched' /\ UNCHANGED proposal  BY DEF Enter, Begin, Untouched
  <1>2. proposal' \in Actions \cup {NoProposal} /\ ProposedIsAuthorizable'
    BY <1>1 DEF IInv, TypeOK, ProposedIsAuthorizable, KernelRefusal
  <1>3. CASE ~Compliant(c)
    <2>1. pc' = "idle" /\ result' = Raised /\ UNCHANGED <<pending, guarded>>
      BY <1>3 DEF Enter, Leave
    <2>2. TypeOK'  BY <1>1, <1>2, <2>1, ResultFacts, UntouchedTypes DEF IInv, TypeOK
    <2>3. /\ ResultIsTrue' /\ LastReportAgrees' /\ Places'
      BY <1>1, <2>1, ResultFacts DEF ResultIsTrue, LastReportAgrees, Places, Untouched
    <2>4. RaisesOnlyForLogs'
      BY <1>1, <1>3 DEF RaisesOnlyForLogs
    <2> QED BY <1>2, <2>2, <2>3, <2>4 DEF IInv
  <1>4. CASE Compliant(c) /\ KernelRefusal(c.argument) = "none" /\ c.model
    <2>1. pc' = "query" /\ UNCHANGED <<pending, guarded, result>>
      BY <1>4 DEF Enter
    <2>2. TypeOK'  BY <1>1, <1>2, <2>1, UntouchedTypes DEF IInv, TypeOK
    <2>3. Places'  BY <1>1, <1>4, <2>1 DEF Places, Untouched, Authorized
    <2> QED BY <1>2, <2>1, <2>2, <2>3, InsideIInv
  <1>5. CASE Compliant(c) /\ ~(KernelRefusal(c.argument) = "none" /\ c.model)
    <2>1. KernelRefusal(c.argument) \in Reasons \ {"raised"}
      BY DEF KernelRefusal, Reasons
    <2>2. /\ pc' = "log" /\ guarded' \in BOOLEAN /\ UNCHANGED result
          /\ pending' \in Results /\ pending' # Raised /\ ~pending'.ok
      BY <1>5, <2>1, ResultFacts DEF Enter, ToLog, Reasons
    <2>3. TypeOK'  BY <1>1, <1>2, <2>2, UntouchedTypes DEF IInv, TypeOK
    <2>4. Places'  BY <1>1, <1>5, <2>2 DEF Places, Untouched, Reporting
    <2> QED BY <1>2, <2>2, <2>3, <2>4, InsideIInv
  <1> QED BY <1>3, <1>4, <1>5

\* Both ways into authorize_and_perform, and the seam's refusal.
LEMMA CallAuthorizeIInv == IInv /\ (CallAuthorize \/ LoopStep) => IInv'
  <1> SUFFICES ASSUME IInv, CallAuthorize \/ LoopStep PROVE IInv'  OBVIOUS
  <1>1. proposal \in Actions \cup {NoProposal}  BY DEF IInv, TypeOK
  <1>2. CASE CallAuthorize
    <2>1. PICK ids \in Identifiers, m \in Modes, model \in BOOLEAN :
             Enter([NoCall EXCEPT !.fn = "authorize", !.ids = ids, !.mode = m,
                                  !.model = model, !.argument = proposal])
      BY <1>2 DEF CallAuthorize
    <2> DEFINE c == [NoCall EXCEPT !.fn = "authorize", !.ids = ids, !.mode = m,
                                   !.model = model, !.argument = proposal]
    <2>2. c \in Calls /\ c.fn = "authorize" /\ c.gate = "direct"
      BY <1>1 DEF NoCall, Calls, Identifiers, Modes, Decisions
    <2> HIDE DEF c
    <2> QED BY <2>1, <2>2, EnterIInv DEF c
  <1>3. CASE LoopStep
    <2>1. PICK d \in Decisions, ids \in Identifiers, m \in Modes :
             LET c == [NoCall EXCEPT !.fn = "authorize", !.ids = ids, !.mode = m,
                                     !.model = TRUE, !.argument = proposal, !.gate = d]
             IN IF d = "EXECUTE" THEN Enter(c)
                ELSE /\ Begin(c) /\ Leave(Refused("gate"))
                     /\ UNCHANGED <<proposal, pending, guarded>>
      BY <1>3 DEF LoopStep
    <2> DEFINE c == [NoCall EXCEPT !.fn = "authorize", !.ids = ids, !.mode = m,
                                   !.model = TRUE, !.argument = proposal, !.gate = d]
    <2>2. c \in Calls /\ c.fn = "authorize" /\ c.gate = d
      BY <1>1 DEF NoCall, Calls, Identifiers, Modes, Decisions
    <2>3. IF d = "EXECUTE" THEN Enter(c)
          ELSE /\ Begin(c) /\ Leave(Refused("gate"))
               /\ UNCHANGED <<proposal, pending, guarded>>
      BY <2>1
    <2> HIDE DEF c
    <2>4. CASE d = "EXECUTE"  BY <2>2, <2>3, <2>4, EnterIInv
    <2>5. CASE d # "EXECUTE"
      <3>1. /\ call' = c /\ Untouched' /\ pc' = "idle" /\ result' = Refused("gate")
            /\ UNCHANGED <<proposal, pending, guarded>>
        BY <2>3, <2>5 DEF Begin, Leave, Untouched
      <3>2. d # "direct"  BY DEF Decisions
      <3>3. ~Finished("authorize")' /\ ~Finished("propose")'
        BY <2>2, <2>5, <3>1, <3>2 DEF Finished
      <3>4. Refused("gate") \in Results  BY ResultFacts
      <3>5. TypeOK'  BY <2>2, <3>1, <3>4, UntouchedTypes DEF IInv, TypeOK
      <3>6. Places'  BY <3>1 DEF Places, Untouched
      <3> QED BY <3>1, <3>3, <3>5, <3>6
            DEF IInv, ResultIsTrue, LastReportAgrees, RaisesOnlyForLogs,
                ProposedIsAuthorizable
    <2> QED BY <2>4, <2>5
  <1> QED BY <1>2, <1>3

\* The effect: one attempt, and a result that is ok exactly if it answered, unless an
\* interrupt leaves.
LEMMA QueryIInv == IInv /\ Query => IInv'
  <1> SUFFICES ASSUME IInv, Query PROVE IInv'  OBVIOUS
  <1>1. Authorized /\ Untouched  BY DEF IInv, Places, Query
  <1>2. queries' = 1 /\ UNCHANGED <<proposal, call, reports, failures>>
    BY <1>1 DEF Query, Untouched
  <1>3. Authorized'  BY <1>1, <1>2 DEF Authorized, Compliant, KernelRefusal
  <1>4. ProposedIsAuthorizable'
    BY <1>2 DEF IInv, ProposedIsAuthorizable, KernelRefusal
  <1>5. CASE /\ Leave(Raised) /\ interrupted' = TRUE
             /\ UNCHANGED <<answered, pending, guarded>>
    <2>1. pc' = "idle" /\ result' = Raised /\ answered' = FALSE /\ interrupted' = TRUE
      BY <1>1, <1>5 DEF Leave, Untouched
    <2>2. TypeOK'
      BY <1>1, <1>2, <1>5, <2>1, ResultFacts DEF IInv, TypeOK, Untouched
    <2>3. Places'  BY <1>3, <2>1 DEF Places
    <2> QED BY <1>4, <2>1, <2>2, <2>3, ResultFacts
          DEF IInv, ResultIsTrue, LastReportAgrees, RaisesOnlyForLogs, Finished
  <1>6. CASE \/ answered' = TRUE /\ ToLog(Ok, TRUE) /\ UNCHANGED <<interrupted, result>>
             \/ ToLog(NonStringResult, TRUE) /\ UNCHANGED <<answered, interrupted, result>>
             \/ /\ ToLog(Refused("unexpected_error"), FALSE)
                /\ UNCHANGED <<answered, interrupted, result>>
    <2>1. /\ pc' = "log" /\ guarded' \in BOOLEAN /\ answered' \in BOOLEAN
          /\ pending' \in Results /\ pending' # Raised
          /\ pending'.ok => guarded' /\ answered'
          /\ answered' => pending'.ok
          /\ UNCHANGED <<interrupted, result>>
      <3>1. CASE answered' = TRUE /\ ToLog(Ok, TRUE) /\ UNCHANGED <<interrupted, result>>
        <4>1. Ok # Raised  BY DEF Ok, Raised
        <4> QED BY <3>1, <4>1, ResultFacts DEF ToLog
      <3>2. CASE /\ ToLog(NonStringResult, TRUE)
                 /\ UNCHANGED <<answered, interrupted, result>>
        BY <1>1, <3>2, ResultFacts DEF ToLog, NonStringResult, Untouched, Reasons
      <3>3. CASE /\ ToLog(Refused("unexpected_error"), FALSE)
                 /\ UNCHANGED <<answered, interrupted, result>>
        BY <1>1, <3>3, ResultFacts DEF ToLog, Untouched, Reasons
      <3> QED BY <1>6, <3>1, <3>2, <3>3
    <2>2. TypeOK'  BY <1>1, <1>2, <2>1 DEF IInv, TypeOK, Untouched
    <2>3. Reporting'  BY <1>1, <1>2, <2>1 DEF Reporting, Untouched, Authorized
    <2>4. Places'  BY <1>3, <2>1, <2>3 DEF Places
    <2> QED BY <1>4, <2>1, <2>2, <2>4, InsideIInv
  <1> QED BY <1>5, <1>6 DEF Query

\* A log line that succeeds changes nothing.
LEMMA LogIInv == IInv /\ Log => IInv'
  <1> SUFFICES ASSUME IInv, Log PROVE IInv'  OBVIOUS
  <1>1. /\ pc = "log" /\ Reporting /\ pc' = "report"
        /\ UNCHANGED <<proposal, call, pending, guarded, queries, answered,
                       reports, failures, interrupted, result>>
    BY DEF IInv, Places, Log
  <1>2. TypeOK'  BY <1>1 DEF IInv, TypeOK
  <1>3. Places'
    BY <1>1 DEF IInv, Places, Reporting, Authorized, Compliant, KernelRefusal
  <1>4. ProposedIsAuthorizable'
    BY <1>1 DEF IInv, ProposedIsAuthorizable, KernelRefusal
  <1> QED BY <1>1, <1>2, <1>3, <1>4, InsideIInv

\* A report that succeeds is the last one, and about the result returned.
LEMMA ReportIInv == IInv /\ Report => IInv'
  <1> SUFFICES ASSUME IInv, Report PROVE IInv'  OBVIOUS
  <1>1. /\ pc = "report" /\ Reporting /\ pc' = "idle" /\ result' = pending
        /\ UNCHANGED <<proposal, call, pending, guarded, queries, answered, failures,
                       interrupted>>
    BY DEF IInv, Places, Report, Leave
  <1>2. reports \in Seq(Results) /\ pending \in Results /\ reports' \in Seq(Results)
    BY DEF IInv, TypeOK, Report
  <1>3. call.ids = "valid" => reports' = Append(reports, pending)
    BY DEF Report, Reportable
  <1>4. call.ids = "valid" => /\ reports' # <<>> /\ Last(reports') = pending
                              /\ failures = 0 => Len(reports') = 1
    BY <1>1, <1>2, <1>3 DEF Reporting, Last
  <1>5. LastReportAgrees'  BY <1>1, <1>4 DEF LastReportAgrees
  <1> QED BY <1>1, <1>2, <1>5
        DEF IInv, TypeOK, Places, Reporting, Authorized, ResultIsTrue,
            RaisesOnlyForLogs, ProposedIsAuthorizable, Finished, Compliant

\* What a handler reports for it is a refusal.
LEMMA CaughtFacts ==
  ASSUME NEW kind
  PROVE  /\ Refused(CaughtReason(kind)) \in Results
         /\ ~Refused(CaughtReason(kind)).ok /\ Refused(CaughtReason(kind)) # Raised
  <1>1. CaughtReason(kind) \in Reasons \ {"none", "raised"}
    BY DEF CaughtReason, Reasons
  <1> QED BY <1>1, ResultFacts

\* What is raised at the line or at the event is handled once, in the try, and not a
\* second time.
LEMMA RaisesIInv ==
  ASSUME IInv, pc \in {"log", "report"}, NEW kind \in Kinds, Raises(kind),
         reports' \in Seq(Results)
  PROVE  IInv'
  <1>1. /\ Reporting /\ failures' = failures + 1 /\ interrupted' = (kind = "interrupt")
        /\ UNCHANGED <<call, queries, answered>>
    BY DEF IInv, Places, Raises
  <1>2. /\ proposal' \in Actions \cup {NoProposal} /\ ProposedIsAuthorizable'
        /\ interrupted' \in BOOLEAN
    <2>1. proposal' \in {proposal, NoProposal}  BY DEF Raises
    <2>2. interrupted' \in BOOLEAN  BY <1>1
    <2> QED BY <2>1, <2>2 DEF IInv, TypeOK, ProposedIsAuthorizable, NoProposal, KernelRefusal
  <1>3. /\ call' \in Calls /\ queries' \in 0 .. 1 /\ answered' \in BOOLEAN
        /\ failures \in 0 .. 1 /\ failures' \in 1 .. 2
    BY <1>1 DEF IInv, TypeOK, Reporting
  <1>4. CASE Catches(kind)
    <2>1. pc' = "log" /\ guarded' = FALSE /\ pending' = Refused(CaughtReason(kind))
          /\ UNCHANGED result
      BY <1>4 DEF Raises, Caught, ToLog
    <2>2. pending' \in Results /\ pending' # Raised /\ ~pending'.ok
      BY <2>1, CaughtFacts
    <2>3. failures = 0 /\ kind # "interrupt"
      BY <1>1, <1>4 DEF Catches, Reporting, Kinds
    <2>4. TypeOK'
      <3>1. guarded' \in BOOLEAN /\ pc' \in {"idle", "ask", "query", "log", "report"}
        BY <2>1
      <3>2. failures' \in 0 .. 2  BY <1>3
      <3>3. result' \in Results  BY <2>1 DEF IInv, TypeOK
      <3> QED BY <1>2, <1>3, <2>2, <3>1, <3>2, <3>3 DEF TypeOK
    <2>5. Reporting'
      <3>1. interrupted' = FALSE  BY <1>1, <2>3
      <3>2. failures' = 1  BY <1>1, <2>3
      <3>3. failures' <= 1 /\ failures' # 0  BY <3>2
      <3> QED BY <1>1, <2>1, <2>2, <3>1, <3>2, <3>3 DEF Reporting, Compliant
    <2>6. Places'
      BY <1>1, <2>1, <2>5 DEF IInv, Places, Authorized, Compliant, KernelRefusal
    <2> QED BY <1>2, <2>1, <2>4, <2>6, InsideIInv
  <1>5. CASE ~Catches(kind)
    <2>1. pc' = "idle" /\ result' = Raised /\ UNCHANGED <<pending, guarded>>
      BY <1>5 DEF Raises, Leave
    <2>2. call.fn = "authorize" /\ kind # "interrupt" => ~guarded
      BY <1>5 DEF Catches
    <2>3. call.fn = "authorize" /\ kind # "interrupt" /\ answered => failures = 1
      BY <1>1, <2>2 DEF Reporting
    <2>4. TypeOK'  BY <1>2, <1>3, <2>1, ResultFacts DEF IInv, TypeOK
    <2>5. Places'
      BY <1>1, <2>1 DEF IInv, Places, Authorized, Compliant, KernelRefusal
    <2>6. ResultIsTrue' /\ LastReportAgrees'
      BY <2>1, ResultFacts DEF ResultIsTrue, LastReportAgrees
    <2>7. RaisesOnlyForLogs'
      BY <1>1, <1>3, <2>1, <2>3 DEF RaisesOnlyForLogs, Finished
    <2> QED BY <1>2, <2>4, <2>5, <2>6, <2>7 DEF IInv
  <1> QED BY <1>4, <1>5

\* At either place.
LEMMA LogOrReportRaisesIInv == IInv /\ (LogRaises \/ ReportRaises) => IInv'
  <1> SUFFICES ASSUME IInv, LogRaises \/ ReportRaises PROVE IInv'  OBVIOUS
  <1>1. reports' \in Seq(Results)
    BY DEF IInv, TypeOK, LogRaises, ReportRaises
  <1>2. pc \in {"log", "report"} /\ \E kind \in Kinds : Raises(kind)
    BY DEF LogRaises, ReportRaises, Kinds
  <1> QED BY <1>1, <1>2, RaisesIInv

\* Every step preserves the invariant.
LEMMA NextIInv == IInv /\ [Next]_vars => IInv'
  <1> SUFFICES ASSUME IInv, [Next]_vars PROVE IInv'  OBVIOUS
  <1>1. CASE UNCHANGED vars
    BY <1>1 DEF vars, IInv, TypeOK, Places, Reporting, Authorized, Untouched, ResultIsTrue,
                LastReportAgrees, RaisesOnlyForLogs, ProposedIsAuthorizable,
                Finished, Compliant, KernelRefusal
  <1> QED BY <1>1, ConstructIInv, CallProposeIInv, AnswerProposalIInv, AnswerFailsIInv,
             CallAuthorizeIInv, QueryIInv, LogIInv, ReportIInv, LogOrReportRaisesIInv DEF Next

\* The invariant holds throughout.
LEMMA Invariance == Spec => []IInv
  BY InitIInv, NextIInv, PTL DEF Spec

\* Every result execution.py returns is performed or refused, never both, and no
\* call of authorize_and_perform attempts a second effect.
THEOREM ExecutionTypeCorrect == Spec => []TypeOK
  BY Invariance, PTL DEF IInv

\* No effect without a complete proposal, outside HALT, and behind the seam on
\* EXECUTE, whatever the caller did to the proposal it was given.
THEOREM OnlyAuthorizedEffects == Spec => []EffectIsAuthorized
  <1>1. IInv => EffectIsAuthorized
    <2> SUFFICES ASSUME IInv, queries > 0 PROVE EffectIsAuthorized  BY DEF EffectIsAuthorized
    <2>1. Authorized /\ call.argument \in Actions \cup {NoProposal}
      BY DEF IInv, Places, TypeOK, Calls
    <2>2. call.argument \in Actions  BY <2>1 DEF Authorized, Compliant
    <2>3. /\ call.argument.action_type = "llm_query"
          /\ call.argument.prompt /\ call.argument.provenance
      BY <2>1, <2>2 DEF Authorized, KernelRefusal, Actions
    <2>4. call.argument \in [action_type : {"llm_query"}, prompt : {TRUE},
                             provenance : {TRUE}, origin : {"propose", "caller"}]
      BY <2>2, <2>3 DEF Actions
    <2> QED BY <2>1, <2>4 DEF EffectIsAuthorized, Authorized, Compliant
  <1> QED BY <1>1, Invariance, PTL

\* performed=True is never said of an effect that did not answer, and performed=False
\* of one that did only after its log line or its report raised.
THEOREM ResultsAreTrue == Spec => []ResultIsTrue
  BY Invariance, PTL DEF IInv

\* The last action event a handler received agrees with what the caller received.
THEOREM ReportsAgree == Spec => []LastReportAgrees
  BY Invariance, PTL DEF IInv

\* A compliant caller sees an exception only if an interrupt arrived or a log handler
\* raised, after an effect that answered only if one raised twice.
THEOREM RaisesForLogs == Spec => []RaisesOnlyForLogs
  BY Invariance, PTL DEF IInv

\* What propose_execution lets through, authorize_and_perform does not refuse.
THEOREM ProposalsAreAuthorizable == Spec => []ProposedIsAuthorizable
  BY Invariance, PTL DEF IInv
=============================================================================
