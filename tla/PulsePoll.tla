------------------------------ MODULE PulsePoll ------------------------------
(***************************************************************************)
(* The simulated poll (pulse-test-harness simulation/, pulse-server        *)
(* analytics.rs) and the page made of it (pulse-report).                   *)
(*                                                                         *)
(* The runner samples every answer first, then starts a task per employee. *)
(* At most Concurrency of them hold a permit; each authenticates, fetches  *)
(* its questions, and has a token signed and a response stored for every   *)
(* one.  When every task has sent its result the runner counts them, asks  *)
(* the analytics engine for one aggregation per question, and pulse-report *)
(* writes a page over the KB's transport in three calls.                   *)
(*                                                                         *)
(* A survey file is [parses, questions], a question [segments, weights].   *)
(* What one token goes through is PulseProtocol's; here a step of a flow   *)
(* is one call over HTTP with the local work before it.  Durations are     *)
(* left out.                                                               *)
(***************************************************************************)
EXTENDS Naturals, FiniteSets, SequencesExt, FiniteSetsExt

CONSTANTS Employees, Surveys,
          Threshold,      \* k: respondents below which a segment is suppressed
          Concurrency,    \* permits of the semaphore
          Tokens,         \* tokens per employee and question
          MaxFaults       \* bound: calls that fail

ASSUME PollAssumption == Concurrency > 0 /\ IsFiniteSet(Employees)

VARIABLES survey,
          plan,        \* plan[e][q]: the score e gives to question q
          flow,        \* flow[e]: the call e's task makes next, and for which question
          issued,      \* issued[e][q]
          responses,   \* the Signal zone's store: [who, question, score]
          results,     \* the results received, in order: [who, step]
          poll,        \* the runner and pulse-report: [at, passed, failed, rows]
          kb,          \* the wiki: [schema, written, admitted]
          faults

pollVars == <<survey, plan, flow, issued, responses, results, poll, kb, faults>>

NoPlan == <<>>
NoMean == <<>>
NoSheet == [passed |-> 0, failed |-> 0, rows |-> <<>>]
NoPoll == [at |-> "start", passed |-> 0, failed |-> 0, rows |-> <<>>]

Questions == DOMAIN survey.questions
Calls == {"Authenticate", "FetchQuestions", "RequestSignature", "SubmitResponse"}
Flowing == {e \in Employees : flow[e].at \in Calls}

InitPoll ==
  /\ survey \in Surveys
  /\ plan = NoPlan
  /\ flow = [e \in Employees |-> [at |-> "waiting", question |-> 0]]
  /\ issued = [e \in Employees |-> [q \in Questions |-> 0]]
  /\ responses = {} /\ results = <<>>
  /\ poll = NoPoll
  /\ kb = [schema |-> FALSE, written |-> NoSheet, admitted |-> NoSheet]
  /\ faults = 0

----------------------------------------------------------------------------
(* The survey, and the answers sampled before any task is started.         *)

\* SurveyFile::parse
Refused(file) ==
  \/ ~file.parses
  \/ file.questions = <<>>
  \/ \E q \in DOMAIN file.questions :
       LET w == file.questions[q].weights IN Len(w) # 5 \/ \A i \in DOMAIN w : w[i] = 0

\* ResponseDistribution::sample: any score that has a weight
Scores(question) == {i \in 1..5 : question.weights[i] > 0}
PlansOf(file) ==
  {p \in [DOMAIN file.questions -> 1..5] : \A q \in DOMAIN p : p[q] \in Scores(file.questions[q])}

LoadSurvey ==
  /\ poll.at = "start"
  /\ IF Refused(survey)
     THEN poll' = [poll EXCEPT !.at = "refused"] /\ UNCHANGED plan
     ELSE /\ poll' = [poll EXCEPT !.at = "running"]
          /\ plan' \in [Employees -> PlansOf(survey)]
  /\ UNCHANGED <<survey, flow, issued, responses, results, kb, faults>>

----------------------------------------------------------------------------
(* The flow of one employee.                                               *)

GoesTo(e, at, q) == flow' = [flow EXCEPT ![e] = [at |-> at, question |-> q]]
\* the task sends its result and gives its permit back
Ends(e, step) ==
  /\ GoesTo(e, "over", 0)
  /\ results' = Append(results, [who |-> e, step |-> step])
Runs(e, at) == poll.at = "running" /\ flow[e].at = at

AcquirePermit(e) ==
  /\ Runs(e, "waiting")
  /\ Cardinality(Flowing) < Concurrency
  /\ GoesTo(e, "Authenticate", 0)
  /\ UNCHANGED <<survey, plan, issued, responses, results, poll, kb, faults>>

Authenticates(e) ==
  /\ Runs(e, "Authenticate")
  /\ GoesTo(e, "FetchQuestions", 0)
  /\ UNCHANGED <<survey, plan, issued, responses, results, poll, kb, faults>>

\* every batch is assigned to everybody (SimSamplingEngine)
FetchesQuestions(e) ==
  /\ Runs(e, "FetchQuestions")
  /\ GoesTo(e, "RequestSignature", 1)
  /\ UNCHANGED <<survey, plan, issued, responses, results, poll, kb, faults>>

AuthorizeAndRecord(e, q) ==
  /\ issued[e][q] < Tokens
  /\ issued' = [issued EXCEPT ![e][q] = @ + 1]

RequestsSignature(e) ==
  /\ Runs(e, "RequestSignature")
  /\ AuthorizeAndRecord(e, flow[e].question)
  /\ GoesTo(e, "SubmitResponse", flow[e].question)
  /\ UNCHANGED <<survey, plan, responses, results, poll, kb, faults>>

Stores(e, q) == responses' = responses \cup {[who |-> e, question |-> q, score |-> plan[e][q]]}

SubmitsResponse(e) ==
  /\ Runs(e, "SubmitResponse")
  /\ Stores(e, flow[e].question)
  /\ IF flow[e].question < Len(survey.questions)
     THEN GoesTo(e, "RequestSignature", flow[e].question + 1) /\ UNCHANGED results
     ELSE Ends(e, "Success")
  /\ UNCHANGED <<survey, plan, issued, poll, kb, faults>>

\* a call fails, and with it the flow: the other side may have done its part
FlowFails(e) ==
  /\ poll.at = "running" /\ e \in Flowing
  /\ faults < MaxFaults /\ faults' = faults + 1
  /\ Ends(e, flow[e].at)
  /\ \/ UNCHANGED <<issued, responses>>
     \/ flow[e].at = "RequestSignature" /\ AuthorizeAndRecord(e, flow[e].question) /\ UNCHANGED responses
     \/ flow[e].at = "SubmitResponse" /\ Stores(e, flow[e].question) /\ UNCHANGED issued
  /\ UNCHANGED <<survey, plan, poll, kb>>

----------------------------------------------------------------------------
(* AnalyticsEngine::aggregate_batch: the responses to one question, one    *)
(* row per segment.  A response is entered once per label of its segments. *)

Entries(q, label) ==
  {<<r, i>> \in responses \X (1..Len(survey.questions[q].segments)) :
     r.question = q /\ survey.questions[q].segments[i] = label}

CountsEntries(entries) == Cardinality(entries) < Threshold    \* Mutant: answers for respondents
Suppressed(entries) == Cardinality({entry[1].who : entry \in entries}) < Threshold

\* the sum of the scores and their number
Mean(entries) == <<MapThenSumSet(LAMBDA entry : entry[1].score, entries), Cardinality(entries)>>

Row(q, label) ==
  LET entries == Entries(q, label) IN
  [question |-> q, segment |-> label, responses |-> Cardinality(entries),
   suppressed |-> Suppressed(entries),
   average |-> IF Suppressed(entries) THEN NoMean ELSE Mean(entries)]

RowsOf(q) ==
  LET labels == {l \in ToSet(survey.questions[q].segments) : Entries(q, l) # {}} IN
  [i \in 1..Cardinality(labels) |-> Row(q, SetToSortSeq(labels, <)[i])]

----------------------------------------------------------------------------
(* The runner's report: every result counted, then question by question.   *)

Passes(result) == result.step = "Success"

CountResults ==
  /\ poll.at = "running" /\ Len(results) = Cardinality(Employees)
  /\ LET passed == Len(SelectSeq(results, Passes)) IN
     poll' = [at |-> "fetching", passed |-> passed, failed |-> Len(results) - passed, rows |-> <<>>]
  /\ UNCHANGED <<survey, plan, flow, issued, responses, results, kb, faults>>

\* rows holds one sequence per question until all are there
FetchAggregation ==
  /\ poll.at = "fetching" /\ Len(poll.rows) < Len(survey.questions)
  /\ poll' = [poll EXCEPT !.rows = Append(@, RowsOf(Len(@) + 1))]
  /\ UNCHANGED <<survey, plan, flow, issued, responses, results, kb, faults>>

\* summarize
Summarize ==
  /\ poll.at = "fetching" /\ Len(poll.rows) = Len(survey.questions)
  /\ poll' = [poll EXCEPT !.at = "schema", !.rows = FlattenSeq(@)]
  /\ UNCHANGED <<survey, plan, flow, issued, responses, results, kb, faults>>

----------------------------------------------------------------------------
(* pulse-report: connect and ensure the schema, write the page, ingest.    *)

PollPage == [passed |-> poll.passed, failed |-> poll.failed, rows |-> poll.rows]

CallsKb(at, next) ==
  /\ poll.at = at /\ poll' = [poll EXCEPT !.at = next]
  /\ UNCHANGED <<survey, plan, flow, issued, responses, results, faults>>

EnsureSchema == CallsKb("schema", "write") /\ kb' = [kb EXCEPT !.schema = TRUE]
WritePage == CallsKb("write", "ingest") /\ kb' = [kb EXCEPT !.written = PollPage]
IngestPage == CallsKb("ingest", "done") /\ kb' = [kb EXCEPT !.admitted = kb.written]

\* an aggregation that cannot be had panics; a call to the KB ends the run
PollFails ==
  /\ poll.at \in {"fetching", "schema", "write", "ingest"}
  /\ faults < MaxFaults /\ faults' = faults + 1
  /\ poll' = [poll EXCEPT !.at = "failed"]
  /\ UNCHANGED <<survey, plan, flow, issued, responses, results, kb>>

----------------------------------------------------------------------------
NextPoll ==
  \/ LoadSurvey \/ CountResults \/ FetchAggregation \/ Summarize
  \/ EnsureSchema \/ WritePage \/ IngestPage \/ PollFails
  \/ \E e \in Employees :
       \/ AcquirePermit(e) \/ Authenticates(e) \/ FetchesQuestions(e)
       \/ RequestsSignature(e) \/ SubmitsResponse(e) \/ FlowFails(e)

----------------------------------------------------------------------------
Respondents(q) == {r.who : r \in {x \in responses : x.question = q}}
Succeeded == {results[i].who : i \in {j \in DOMAIN results : Passes(results[j])}}

\* An answer is the planned one, at most once, and by somebody with a token.
AnswersAreThePlans ==
  /\ Cardinality(Flowing) <= Concurrency
  /\ \A r, s \in responses : r.who = s.who /\ r.question = s.question => r = s
  /\ \A r \in responses : r.score = plan[r.who][r.question] /\ issued[r.who][r.question] > 0
  /\ \A e \in Employees, q \in Questions : issued[e][q] <= Tokens

\* Whatever happened to the flows, a row says of its segment only what its
\* respondents make of it: below k of them it shows no score, from k on the
\* mean of what they planned.
RowIsHonest(row) ==
  LET who == Respondents(row.question)
      sum == MapThenSumSet(LAMBDA e : plan[e][row.question], who)
  IN /\ row.suppressed <=> Cardinality(who) < Threshold
     /\ row.suppressed => row.average = NoMean
     /\ ~row.suppressed => row.average[1] * Cardinality(who) = row.average[2] * sum
     /\ IsInjective(survey.questions[row.question].segments) =>
          row.responses = Cardinality(who) /\ row.responses >= poll.passed

\* The report counts every employee once, one whose flow succeeded has answered
\* every question, and one whose flow failed may still have.  Every row is
\* honest, and every segment somebody answered for has one.  When no flow
\* failed the page depends on the survey and the plan only, in whatever order
\* the flows ran; and what the wiki admits is that page, under its schema.
PollIsHonest ==
  /\ AnswersAreThePlans
  /\ \A q \in Questions : Succeeded \subseteq Respondents(q)
  /\ poll.at \in {"fetching", "schema", "write", "ingest", "done"} =>
       /\ {results[i].who : i \in DOMAIN results} = Employees
       /\ poll.passed = Cardinality(Succeeded) /\ poll.passed + poll.failed = Cardinality(Employees)
  /\ poll.at \in {"schema", "write", "ingest", "done"} =>
       /\ \A i \in DOMAIN poll.rows : RowIsHonest(poll.rows[i])
       /\ \A q \in Questions : Respondents(q) # {} =>
            {poll.rows[i].segment : i \in {j \in DOMAIN poll.rows : poll.rows[j].question = q}}
              = ToSet(survey.questions[q].segments)
       /\ poll.failed = 0 => \A q \in Questions : Respondents(q) = Employees
  /\ kb.admitted # NoSheet => kb.schema /\ kb.admitted = PollPage

=============================================================================
