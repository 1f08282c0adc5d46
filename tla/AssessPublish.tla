---------------------------- MODULE AssessPublish ----------------------------
(***************************************************************************)
(* From a project of the assessments to two pages of the knowledge base    *)
(* (amaker-cli surface.rs and publish.rs, the analysis of amaker-core).    *)
(*                                                                         *)
(* import makes a project of a file in three writes; the respondent answers *)
(* the version the response is bound to; publish loads that version and    *)
(* the response, counts, and writes an assessment page and a report page,  *)
(* each by a call of its own, before a third call has both admitted.  The  *)
(* pages of a project are found by a slug of its name, which two projects  *)
(* may share.                                                              *)
(*                                                                         *)
(* A version is a sequence of domains, a domain a sequence of practices, a *)
(* practice a sequence of questions [id, positive, hours, roles]; wordings *)
(* are left out.  Requests of respondents that overlap are AssessResponses. *)
(***************************************************************************)
EXTENDS Naturals, FiniteSets, SequencesExt, FiniteSetsExt

CONSTANTS Projects,
          SlugOf,        \* SlugOf[p]: slugify of the project's name
          Editions,      \* Editions[p][n]: the content of version v<n>
          Shelves,       \* the stores a behaviour begins with
          Publishers,    \* invocations of amaker publish
          TopGaps,       \* how many gaps a report page lists
          Replies,        \* the answers given in a behaviour, of yes, no and unknown
          MaxActs        \* bound: answers and other acts besides publishing

DEFAULT_EFFORT_HOURS == 40
UNOWNED_ROLE == "(unowned)"
Slugs == {SlugOf[p] : p \in Projects}
Types == <<"assessment", "assessment-report">>

VARIABLES shelf,     \* shelf[p]: [imported, published, response]
          schemas,   \* schemas[t]: "none", "ours", or "theirs"
          pages,     \* pages[s]: the two pages in the wiki's tree
          admitted,  \* admitted[s]: the same as the index has them
          pub,       \* what each publisher is doing
          acts

publishVars == <<shelf, schemas, pages, admitted, pub, acts>>

NoResponse == [version |-> 0, answers |-> <<>>, submitted |-> FALSE]
NoPage == [project |-> "none", version |-> 0]
NoPages == [assessment |-> NoPage, report |-> NoPage]

----------------------------------------------------------------------------
(* The analysis.  answers is a function of the questions that have one.    *)

Flat(content) == FlattenSeq(FlattenSeq(content))
AnswerFor(answers, q) == IF q.id \in DOMAIN answers THEN answers[q.id] ELSE "none"

Classify(q, answer) ==
  CASE answer = "none"                              -> "unanswered"
    [] answer = "unknown"                           -> "unknown"
    [] answer = (IF q.positive THEN "yes" ELSE "no") -> "passed"
    [] OTHER                                        -> "failed"

ResolvesToPass(q, answer) == answer = IF q.positive THEN "yes" ELSE "no"
IsDefinite(q, answer) == answer = IF q.positive THEN "no" ELSE "yes"

\* Rounded half up; no definite answer is 0 percent.
Percent(passed, failed) ==
  IF passed + failed = 0 THEN 0
  ELSE (200 * passed + passed + failed) \div (2 * (passed + failed))

PercentOf(level) == Percent(level["passed"], level["failed"])

Outcomes == {"passed", "failed", "unknown", "unanswered"}
Practice(answers, qs) ==
  [o \in Outcomes |-> Cardinality({k \in DOMAIN qs : Classify(qs[k], AnswerFor(answers, qs[k])) = o})]
SumOf(counts) == [o \in Outcomes |-> SumSet({0}) + MapThenSumSet(LAMBDA k : counts[k][o], DOMAIN counts)]
Domain(answers, d) == SumOf([k \in DOMAIN d |-> Practice(answers, d[k])])

ComputeScorecard(content, answers) ==
  LET domains == [d \in DOMAIN content |-> Domain(answers, content[d])]
  IN [overall |-> SumOf(domains), domains |-> domains]

ComputeGaps(content, answers) ==
  SelectSeq(Flat(content), LAMBDA q : ~ResolvesToPass(q, AnswerFor(answers, q)))

EffortHours(q) == IF q.hours = 0 THEN DEFAULT_EFFORT_HOURS ELSE q.hours

\* Least effort first; gaps of the same effort stay in their order.
PriorityOrdered(gaps) ==
  LET efforts == SetToSortSeq({EffortHours(gaps[k]) : k \in DOMAIN gaps}, <)
  IN FlattenSeq([e \in DOMAIN efforts |-> SelectSeq(gaps, LAMBDA q : EffortHours(q) = efforts[e])])

Keys(q) == IF q.roles = {} THEN {UNOWNED_ROLE} ELSE q.roles
ByRole(ordered) ==
  [r \in UNION {Keys(ordered[k]) : k \in DOMAIN ordered} |-> SelectSeq(ordered, LAMBDA q : r \in Keys(q))]

AssessmentPage(p, n) ==
  [project |-> p, version |-> n, questions |-> Len(Flat(Editions[p][n])), report |-> SlugOf[p]]
ReportPage(p, n, answers) ==
  LET content == Editions[p][n]
      ordered == PriorityOrdered(ComputeGaps(content, answers))
      definite == SelectSeq(ordered, LAMBDA q : IsDefinite(q, AnswerFor(answers, q)))
      card == ComputeScorecard(content, answers)
  IN [project |-> p, version |-> n, card |-> card, answers |-> answers,
      percent |-> PercentOf(card.overall),
      percents |-> [d \in DOMAIN content |-> PercentOf(card.domains[d])],
      gaps |-> Len(definite), top |-> SubSeq(definite, 1, Min({TopGaps, Len(definite)})),
      roadmap |-> ByRole(ordered)]

----------------------------------------------------------------------------
(* The store: import, the web's publish, the respondent.                   *)

Act == acts < MaxActs /\ acts' = acts + 1 /\ UNCHANGED <<schemas, pages, admitted, pub>>

\* import_core: the project, its draft, v1; it may die after any of them.
Import(p) ==
  /\ shelf[p].imported < 3
  /\ shelf' = [shelf EXCEPT ![p].imported = @ + 1, ![p].published = IF shelf[p].imported = 2 THEN 1 ELSE 0]
  /\ Act

PublishVersion(p) ==
  /\ shelf[p].published \in 1..Len(Editions[p]) - 1
  /\ shelf' = [shelf EXCEPT ![p].published = @ + 1]
  /\ Act

Ids(content) == {Flat(content)[k].id : k \in DOMAIN Flat(content)}
With(answers, q, value) == [x \in DOMAIN answers \cup {q} |-> IF x = q THEN value ELSE answers[x]]

UpsertAnswer(p, q, value) ==
  LET r == shelf[p].response
  IN /\ r.version # 0 /\ q \in Ids(Editions[p][r.version])
     /\ shelf' = [shelf EXCEPT ![p].response.answers = With(r.answers, q, value)]
     /\ Act

SubmitResponse(p) ==
  /\ shelf[p].response.version # 0 /\ ~shelf[p].response.submitted
  /\ shelf' = [shelf EXCEPT ![p].response.submitted = TRUE]
  /\ Act

\* The respondent's page opens: a response for the latest version.
Fresh(p) == [NoResponse EXCEPT !.version = shelf[p].published]
EnsurePrimary(p) ==
  /\ shelf[p].response = NoResponse /\ shelf[p].published > 0
  /\ shelf' = [shelf EXCEPT ![p].response = Fresh(p)]
  /\ Act

\* status_core
Answered(p) == Cardinality(DOMAIN shelf[p].response.answers)
IsComplete(p) ==
  LET r == shelf[p].response
  IN r.version # 0 /\ (r.submitted \/ Answered(p) >= Len(Flat(Editions[p][r.version])))

\* list_core: a project that was not imported to the end has no version.
Listed == {<<p, shelf[p].published>> : p \in {x \in Projects : shelf[x].imported > 0}}

----------------------------------------------------------------------------
(* publish_cmd.                                                            *)

NoPublish ==
  [step |-> "none", project |-> "none", response |-> NoResponse, type |-> 1, alone |-> TRUE]

Goto(w, next) == pub' = [pub EXCEPT ![w] = next]

\* Nothing is touched without a project and a published version.  A response
\* that is not there yet is made and saved, by publish as by the web.
LoadPrimary(w, p) ==
  /\ pub[w].step = "none" /\ shelf[p].imported > 0
  /\ LET r == shelf[p].response IN
       \/ r # NoResponse /\ Goto(w, [NoPublish EXCEPT !.step = "schemas", !.project = p, !.response = r])
       \/ /\ r = NoResponse /\ shelf[p].published > 0
          /\ Goto(w, [NoPublish EXCEPT !.step = "create", !.project = p, !.response = Fresh(p)])
       \/ r = NoResponse /\ shelf[p].published = 0 /\ Goto(w, [NoPublish EXCEPT !.step = "failed"])
  /\ UNCHANGED <<shelf, schemas, pages, admitted, acts>>

SavePrimary(w) ==
  /\ pub[w].step = "create"
  /\ shelf' = [shelf EXCEPT ![pub[w].project].response = pub[w].response]
  /\ Goto(w, [pub[w] EXCEPT !.step = "schemas"])
  /\ UNCHANGED <<schemas, pages, admitted, acts>>

\* wiki_admin_schema_register, without force: a type under the name that is
\* not the same is a conflict.
RegisterSchema(w) ==
  LET t == Types[pub[w].type] IN
  /\ pub[w].step = "schemas"
  /\ \/ /\ schemas[t] # "theirs"
        /\ schemas' = [schemas EXCEPT ![t] = "ours"]
        /\ Goto(w, IF pub[w].type = Len(Types) THEN [pub[w] EXCEPT !.step = "assessment"]
                   ELSE [pub[w] EXCEPT !.type = @ + 1])
     \/ schemas[t] = "theirs" /\ Goto(w, [pub[w] EXCEPT !.step = "failed"]) /\ UNCHANGED schemas
  /\ UNCHANGED <<shelf, pages, admitted, acts>>

\* wiki_content_write; whoever else is publishing under the slug is no
\* longer alone with it.
Alone(w, next) ==
  LET s == SlugOf[pub[w].project]
      with == {x \in Publishers \ {w} : pub[x].project # "none" /\ SlugOf[pub[x].project] = s}
  IN pub' = [x \in Publishers |->
               IF x = w THEN [pub[w] EXCEPT !.step = next,
                                !.alone = @ /\ ~\E o \in with : pub[o].step \in {"report", "ingest"}]
               ELSE IF x \in with /\ pub[x].step \in {"report", "ingest", "done"}
                    THEN [pub[x] EXCEPT !.alone = FALSE] ELSE pub[x]]

WriteAssessmentPage(w) ==
  /\ pub[w].step = "assessment"
  /\ LET p == pub[w].project IN
       pages' = [pages EXCEPT ![SlugOf[p]].assessment = AssessmentPage(p, pub[w].response.version)]
  /\ Alone(w, "report")
  /\ UNCHANGED <<shelf, schemas, admitted, acts>>

\* Mutant: the report is of the latest version, as the doc of publish_cmd has it.
CurrentVersion(w) == shelf[pub[w].project].published
RespondedVersion(w) == pub[w].response.version

WriteReportPage(w) ==
  /\ pub[w].step = "report"
  /\ LET p == pub[w].project IN
       pages' = [pages EXCEPT ![SlugOf[p]].report = ReportPage(p, RespondedVersion(w), pub[w].response.answers)]
  /\ Alone(w, "ingest")
  /\ UNCHANGED <<shelf, schemas, admitted, acts>>

\* wiki_ingest of assessments/: whatever lies there by now is admitted.
Ingest(w) ==
  /\ pub[w].step = "ingest"
  /\ admitted' = pages
  /\ Goto(w, [pub[w] EXCEPT !.step = "done"])
  /\ UNCHANGED <<shelf, schemas, pages, acts>>

\* A call fails, or the process dies: what was written stays.
PublishFails(w) ==
  /\ pub[w].step \notin {"none", "done", "failed"}
  /\ Goto(w, [pub[w] EXCEPT !.step = "failed"])
  /\ UNCHANGED <<shelf, schemas, pages, admitted, acts>>

----------------------------------------------------------------------------
InitPublish ==
  /\ shelf \in Shelves
  /\ \E theirs \in {{}, {Types[2]}} :
       schemas = [t \in ToSet(Types) |-> IF t \in theirs THEN "theirs" ELSE "none"]
  /\ pages = [s \in Slugs |-> NoPages] /\ admitted = pages
  /\ pub = [w \in Publishers |-> NoPublish] /\ acts = 0

NextPublish ==
  \/ \E p \in Projects :
       \/ Import(p) \/ PublishVersion(p) \/ EnsurePrimary(p) \/ SubmitResponse(p)
       \/ \E q \in UNION {Ids(Editions[p][n]) : n \in DOMAIN Editions[p]}, v \in Replies :
            UpsertAnswer(p, q, v)
       \/ \E w \in Publishers : LoadPrimary(w, p)
  \/ \E w \in Publishers :
       \/ SavePrimary(w) \/ RegisterSchema(w) \/ WriteAssessmentPage(w) \/ WriteReportPage(w)
       \/ Ingest(w) \/ PublishFails(w)

SpecPublish == InitPublish /\ [][NextPublish]_publishVars

----------------------------------------------------------------------------
\* What a level's counts come to, to the nearest percent.
Nearest(percent, level) ==
  LET definite == level["passed"] + level["failed"]
  IN IF definite = 0 THEN percent = 0
     ELSE /\ 200 * level["passed"] <= (2 * percent + 1) * definite
          /\ 2 * percent * definite <= 200 * level["passed"] + definite

\* A report counts each question of its version once, in its domain and in
\* all: the scorecard's failures are the roadmap's definite gaps though the
\* two are computed apart, the gaps it lists leave out none that takes less
\* effort, and its percentage is weighted by questions: within half a percent
\* of the counts beside it (100 beside a gap only from two hundred definite
\* answers on), and never outside the percentages of the domains that have a
\* definite answer (publish.rs render_report_page, scorecard.rs, gaps.rs,
\* roadmap.rs).
ReportIsRight(r) ==
  LET content == Editions[r.project][r.version]
      all == Flat(content)
      is(o, qs) == {k \in DOMAIN qs : Classify(qs[k], AnswerFor(r.answers, qs[k])) = o}
      failed == is("failed", all)
      hours(q) == IF q.hours > 0 THEN q.hours ELSE DEFAULT_EFFORT_HOURS
      listed == {r.top[k].id : k \in DOMAIN r.top}
      definite == {d \in DOMAIN content : r.card.domains[d]["passed"] + r.card.domains[d]["failed"] > 0}
      percents == {r.percents[d] : d \in definite}
  IN /\ \A o \in Outcomes :
          /\ r.card.overall[o] = Cardinality(is(o, all))
          /\ \A d \in DOMAIN content :
               r.card.domains[d][o] = Cardinality(is(o, FlattenSeq(content[d])))
     /\ r.gaps = r.card.overall["failed"] /\ Len(r.top) = Min({TopGaps, r.gaps})
     /\ \A k \in failed : all[k].id \notin listed =>
          \A j \in DOMAIN r.top : hours(r.top[j]) <= hours(all[k])
     /\ UNION {{r.roadmap[o][k].id : k \in DOMAIN r.roadmap[o]} : o \in DOMAIN r.roadmap}
          = {all[k].id : k \in DOMAIN all \ is("passed", all)}
     /\ Nearest(r.percent, r.card.overall)
     /\ \A d \in DOMAIN content : Nearest(r.percents[d], r.card.domains[d])
     /\ percents # {} => Min(percents) <= r.percent /\ r.percent <= Max(percents)

\* A publish that went through without another one under its slug has left
\* two admitted pages of one project, of the version its respondent answered.
PairAgrees(w) ==
  pub[w].step = "done" /\ pub[w].alone =>
    LET s == SlugOf[pub[w].project]
        two == admitted[s]
    IN /\ <<two.assessment.project, two.assessment.version>> =
            <<pub[w].project, pub[w].response.version>>
       /\ <<two.report.project, two.report.version>> =
            <<pub[w].project, pub[w].response.version>>
       /\ two.assessment.questions =
            MapThenSumSet(LAMBDA o : two.report.card.overall[o], Outcomes)

\* What status calls complete though it was not submitted has no unanswered
\* question; every project listed with a version can be published.
StatusIsTrue ==
  \A p \in Projects :
    LET r == shelf[p].response IN
    /\ IsComplete(p) /\ ~r.submitted => DOMAIN r.answers = Ids(Editions[p][r.version])
    /\ r # NoResponse => \E l \in Listed : l[1] = p /\ l[2] >= r.version

\* What publish leaves in the knowledge base, and what status says before, agree
\* with the project they are about.
PublishedAgree ==
  /\ \A s \in Slugs : pages[s].report # NoPage => ReportIsRight(pages[s].report)
  /\ \A w \in Publishers : PairAgrees(w)
  /\ StatusIsTrue
=============================================================================
