---------------------------- MODULE AssessAuthor ----------------------------
(***************************************************************************)
(* amaker author: a whole assessment from a brief, without tools (author.rs *)
(* and generation.rs of amaker-core, the gates of quality.rs, author_cmd   *)
(* and validate_cmd of amaker-cli).                                        *)
(*                                                                         *)
(* A language model is asked for a summary, for a structure, and for the   *)
(* questions of each practice; an answer that does not pass the gates is   *)
(* asked for again, a bounded number of times.  Practices are served by    *)
(* lanes: so many futures are in flight, they end in any order, and their  *)
(* results are taken in the order of the structure, an error included.     *)
(*                                                                         *)
(* An answer of the model is whatever it likes, so what the prompts and    *)
(* the feedback say is left out.  Wordings are what the gates tell apart:  *)
(* "fine", "placeholder" (an echo of the prompt, an empty slot) or "leak"  *)
(* (cites the supporting documents).  Names are normalized: case and blanks *)
(* are no difference.                                                      *)
(***************************************************************************)
EXTENDS Naturals, FiniteSets, SequencesExt

CONSTANTS Structures,     \* what may be answered for a structure: [parses, domains]
          QuestionLists,  \* what may be answered for a practice: [parses, questions]
          JobCounts,      \* --jobs
          MAX_GENERATION_ATTEMPTS,
          MAX_JOBS

ASSUME AttemptsAssumption == MAX_GENERATION_ATTEMPTS \in Nat \ {0} /\ MAX_JOBS \in Nat \ {0}

VARIABLES author,   \* the pipeline
          out       \* the output file

authorVars == <<author, out>>

----------------------------------------------------------------------------
(* Gates.  A structure is a sequence of domains, a domain a sequence of    *)
(* practices [name, wording].                                              *)

NoFile == <<>>                      \* the file is not there
TornFile == << <<>> >>              \* or ends in the middle

Degenerate(wording) == wording = "placeholder"
Leaky(wording, context) == context /\ wording = "leak"

Practices(domains) == FlattenSeq(domains)

DegenerateFields(domains) ==
  {n \in DOMAIN Practices(domains) : Degenerate(Practices(domains)[n].wording)}
LeakyAssessmentFields(domains, context) ==
  {n \in DOMAIN Practices(domains) : Leaky(Practices(domains)[n].wording, context)}

Repeats(domains, d, k) ==
  \E e \in 1..d : \E j \in DOMAIN domains[e] :
    (e < d \/ j < k) /\ domains[e][j].name = domains[d][k].name
DuplicatePracticeNames(domains) ==
  {domains[d][k].name : <<d, k>> \in
     {x \in (DOMAIN domains) \X (1..Len(Practices(domains))) :
        x[2] \in DOMAIN domains[x[1]] /\ Repeats(domains, x[1], x[2])}}

\* The first occurrence stays; a domain left without practices goes, once
\* anything was dropped.
DropDuplicatePractices(domains) ==
  LET numbered(d) == [k \in DOMAIN domains[d] |-> [at |-> k, it |-> domains[d][k]]]
      first(d) == SelectSeq(numbered(d), LAMBDA e : ~Repeats(domains, d, e.at))
      kept == [d \in DOMAIN domains |-> [k \in DOMAIN first(d) |-> first(d)[k].it]]
  IN SelectSeq(kept, LAMBDA d : d # <<>>)

\* parse_structure_response
ParseStructure(s) ==
  /\ s.parses /\ s.domains # <<>>
  /\ \A d \in DOMAIN s.domains : s.domains[d] # <<>>
  /\ DegenerateFields(s.domains) = {}

DegenerateQuestionFields(list) == {k \in DOMAIN list : Degenerate(list[k].wording)}
LeakyQuestionFields(list, context) == {k \in DOMAIN list : Leaky(list[k].wording, context)}

\* practice_questions, one answer
UsableQuestions(l, context) ==
  /\ l.parses /\ l.questions # <<>>
  /\ DegenerateQuestionFields(l.questions) = {}
  /\ LeakyQuestionFields(l.questions, context) = {}

----------------------------------------------------------------------------
(* The pipeline.                                                           *)

NoAuthor ==
  [phase |-> "idle", context |-> FALSE, jobs |-> 1, attempt |-> 1, aside |-> <<>>,
   domains |-> <<>>, lanes |-> <<>>, calls |-> 0]

Clamp(n, low, high) == IF n < low THEN low ELSE IF n > high THEN high ELSE n

\* author_cmd has read the brief and the documents: without them it stops
\* before anything is asked.
BeginAuthoring(context, jobs) ==
  /\ author.phase = "idle"
  /\ author' = [NoAuthor EXCEPT !.phase = "scoping", !.context = context,
                                !.jobs = Clamp(jobs, 1, MAX_JOBS)]
  /\ UNCHANGED out

ScopingSummary ==
  /\ author.phase = "scoping"
  /\ author' = [author EXCEPT !.phase = "structure", !.calls = @ + 1]
  /\ UNCHANGED out

Lane == [state |-> "asking", attempt |-> 1, questions |-> <<>>]
\* The structure stands: a lane for each practice, in its order.
Structured(a, domains) ==
  [a EXCEPT !.domains = domains, !.lanes = [n \in DOMAIN Practices(domains) |-> Lane],
            !.phase = "questions"]

\* Mutant: a structure that leaks is kept aside as well.
KeepsAnything(s, context) == ParseStructure(s)
\* A structure sound but for duplicates, which may be dropped in the end.
KeepsAside(s, context) == ParseStructure(s) /\ LeakyAssessmentFields(s.domains, context) = {}

AnswerStructure(s) ==
  /\ author.phase = "structure"
  /\ LET a == [author EXCEPT !.calls = @ + 1,
                             !.aside = IF KeepsAside(s, author.context) THEN s.domains ELSE @]
         accepted == KeepsAside(s, author.context) /\ DuplicatePracticeNames(s.domains) = {}
     IN author' =
          IF accepted THEN Structured(a, s.domains)
          ELSE IF author.attempt < MAX_GENERATION_ATTEMPTS THEN [a EXCEPT !.attempt = @ + 1]
          ELSE IF a.aside # <<>> THEN Structured(a, DropDuplicatePractices(a.aside))
          ELSE [a EXCEPT !.phase = "failed"]
  /\ UNCHANGED out

\* The provider fails: nothing is asked again.
ProviderFails ==
  /\ author.phase \in {"scoping", "structure"}
  /\ author' = [author EXCEPT !.phase = "failed", !.calls = @ + 1]
  /\ UNCHANGED out

\* buffered: results that wait for their turn count as in flight.
Taken(lanes) ==
  Cardinality({n \in DOMAIN lanes : \A k \in 1..n : lanes[k].state = "done"})
InFlight(a) ==
  {n \in DOMAIN a.lanes : Taken(a.lanes) < n /\ n <= Taken(a.lanes) + a.jobs}

\* try_collect: the first result that is an error ends it, once it is taken.
Collected(a) ==
  LET next == Taken(a.lanes) + 1
  IN IF next > Len(a.lanes) THEN [a EXCEPT !.phase = "writing"]
     ELSE IF a.lanes[next].state = "failed" THEN [a EXCEPT !.phase = "failed"] ELSE a

AnswerQuestions(n, l) ==
  /\ author.phase = "questions" /\ n \in InFlight(author) /\ author.lanes[n].state = "asking"
  /\ LET lane == author.lanes[n]
         next == IF UsableQuestions(l, author.context)
                 THEN [lane EXCEPT !.state = "done",
                                   !.questions = [k \in DOMAIN l.questions |->
                                     [about |-> Practices(author.domains)[n].name,
                                      wording |-> l.questions[k].wording]]]
                 ELSE IF lane.attempt < MAX_GENERATION_ATTEMPTS THEN [lane EXCEPT !.attempt = @ + 1]
                 ELSE [lane EXCEPT !.state = "failed"]
     IN author' = Collected([author EXCEPT !.lanes[n] = next, !.calls = @ + 1])
  /\ UNCHANGED out

LaneFails(n) ==
  /\ author.phase = "questions" /\ n \in InFlight(author) /\ author.lanes[n].state = "asking"
  /\ author' = Collected([author EXCEPT !.lanes[n].state = "failed", !.calls = @ + 1])
  /\ UNCHANGED out

\* The lists go to the practices in order.  What is serialized here was
\* parsed before, so the last gate cannot refuse it.
Assembled(a) ==
  LET before(d) == Len(FlattenSeq(SubSeq(a.domains, 1, d - 1)))
  IN [d \in DOMAIN a.domains |->
        [k \in DOMAIN a.domains[d] |->
           [name |-> a.domains[d][k].name, wording |-> a.domains[d][k].wording,
            questions |-> a.lanes[before(d) + k].questions]]]

WriteOut ==
  /\ author.phase = "writing"
  /\ \/ out' = Assembled(author) /\ author' = [author EXCEPT !.phase = "done"]
     \/ out' = TornFile /\ author' = [author EXCEPT !.phase = "failed"]

----------------------------------------------------------------------------
InitAuthor == author = NoAuthor /\ out = NoFile

NextAuthor ==
  \/ \E context \in BOOLEAN, jobs \in JobCounts : BeginAuthoring(context, jobs)
  \/ ScopingSummary
  \/ \E s \in Structures : AnswerStructure(s)
  \/ ProviderFails
  \/ \E n \in DOMAIN author.lanes :
       (\E l \in QuestionLists : AnswerQuestions(n, l)) \/ LaneFails(n)
  \/ WriteOut

SpecAuthor == InitAuthor /\ [][NextAuthor]_authorVars

----------------------------------------------------------------------------
\* validate_cmd, on an assessment file: it parses, and no field that
\* matters is degenerate, questions included.
ValidateCmd(file) ==
  /\ file \notin {NoFile, TornFile}
  /\ DegenerateFields(file) = {}
  /\ \A n \in DOMAIN Practices(file) : DegenerateQuestionFields(Practices(file)[n].questions) = {}

\* What is written passes validate, names no practice twice, cites no
\* supporting document, and asks each practice its own questions, whichever
\* lane was first and whatever was dropped.
WrittenIsSound ==
  author.phase = "done" =>
    LET all == Practices(out)
    IN /\ ValidateCmd(out)
       /\ DuplicatePracticeNames(out) = {}
       /\ LeakyAssessmentFields(out, author.context) = {}
       /\ \A n \in DOMAIN all :
            /\ all[n].questions # <<>>
            /\ LeakyQuestionFields(all[n].questions, author.context) = {}
            /\ \A k \in DOMAIN all[n].questions : all[n].questions[k].about = all[n].name

\* The model is asked a bounded number of times, never for more practices
\* at once than was allowed, and a run that fails leaves no good file
\* behind.
RunIsBounded ==
  /\ author.calls <= 1 + MAX_GENERATION_ATTEMPTS * (1 + Len(author.lanes))
  /\ author.phase = "questions" =>
       Cardinality({n \in InFlight(author) : author.lanes[n].state = "asking"}) <= author.jobs
  /\ author.phase # "done" => ~ValidateCmd(out)
  \* no lane fails on another one's account
  /\ author.phase = "failed" /\ author.lanes # <<>> =>
       out = TornFile \/ \E n \in DOMAIN author.lanes : author.lanes[n].state = "failed"

\* amaker author as a whole (author.rs author_assessment).
AuthoredIsSound == WrittenIsSound /\ RunIsBounded
=============================================================================
