----------------------------- MODULE MCPipelines -----------------------------
(***************************************************************************)
(* Seven programs for TLC, side by side, each of which reads one store and *)
(* makes something else of it: a behaviour is one of tuesday's forge lane, *)
(* of its KB lane, of what llm-wiki makes of links, of its search, of      *)
(* amaker author, of amaker publish, or of pulse's simulated poll.         *)
(***************************************************************************)
EXTENDS TuesdayForge, TuesdayMeasure, WikiConcepts, AssessAuthor, AssessPublish, PulsePoll, WikiSearch, TLC

VARIABLE tool    \* whose behaviour it is

----------------------------------------------------------------------------
(* Pull requests: month ends, a year's end, and every kind of label.       *)

Dec == [year |-> 1, month |-> 12]
Jan == [year |-> 2, month |-> 1]
L(k, r) == [kind |-> k, ref |-> r]
Pull(n, at, labels, trailer) == [number |-> n, at |-> at, labels |-> labels, trailer |-> trailer]

PlainLabels == <<L("effort", 2), L("feat", 1)>>
LabelLists ==
  {<<>>, <<L("conduit", 0), L("effort", 2), L("adr", 1)>>,
   <<L("effort", 9), L("feat", 1), L("feat", 2)>>, <<L("effort", 3), L("feat", 1), L("feat", 1)>>,
   <<L("effort", 1), L("effort", 3), L("feat", 1), L("adr", 2)>>}
AnyTime(n) == {Pull(n, at, PlainLabels, 0) : at \in {NotMerged, Day(Dec, 1), Day(Jan, 1)}}
AnyLabels(n, trailers) == {Pull(n, Day(Dec, 15), l, t) : l \in LabelLists, t \in trailers}

\* A repository of three pull requests, and one of a single one.
MCHistories ==
  {<< <<a, b, c>>, <<Pull(1, Day(Jan, 1), PlainLabels, 0)>> >> :
     a \in AnyTime(3), b \in AnyTime(2), c \in AnyTime(1)}
    \cup {<< <<Pull(3, NotMerged, PlainLabels, 0), b, Pull(1, Day(Dec, 1), PlainLabels, 0)>>, <<>> >> :
            b \in AnyLabels(2, {0, 1})}
MCArrivals == {Pull(4, Day(Dec, 15), PlainLabels, 0)}
MCRanges == {[from |-> Dec, to |-> Jan], [from |-> Dec, to |-> Dec], [from |-> Jan, to |-> Dec]}
MCScale == <<1, 2, 3, 5, 8>>

----------------------------------------------------------------------------
(* A wiki of two decisions, a project, two stories and three tasks.        *)

MCClasses == <<"project", "story", "task", "decision">>
MCClassOf == <<"decision", "decision", "project", "story", "story", "task", "task", "task">>
WikiPage(status, stamp, claimed, ms, approved, up, implements, reference) ==
  [status |-> status, stamp |-> stamp, claimed |-> claimed, ms |-> ms, approved |-> approved,
   friction |-> 0, up |-> up, implements |-> implements, reference |-> reference]
Absent == WikiPage("absent", 0, 0, 0, 0, 0, <<>>, 0)
Tasks(story) ==
  {WikiPage("in-progress", 0, 4, 0, 4, story, <<>>, 0), WikiPage("done", 0, 3, 1, 3, story, <<>>, 0),
   WikiPage("done", 4, 2, 2, 2, story, <<>>, 0)}
MCWikis ==
  {<<WikiPage("accepted", 0, 0, 0, 0, 0, <<>>, 1), WikiPage("accepted", 0, 0, 0, 0, 0, <<>>, 0),
     WikiPage("ready", 0, 0, 0, 4, 0, i, 0),
     WikiPage("ready", 0, 0, 0, 4, 3, <<>>, 0), WikiPage("done", 0, 0, 0, 4, 3, <<>>, 0),
     Absent, a, b>> :
     i \in {<<1>>, <<1, 1>>, <<1, 2>>}, a \in Tasks(4), b \in {t \in Tasks(5) : t.status = "done"}}
MCNewborn ==
  <<Absent, Absent, Absent, Absent, Absent, WikiPage("done", 5, 4, 1, 4, 4, <<>>, 0), Absent, Absent>>

----------------------------------------------------------------------------
(* Wikis of a few pages and every kind of link among them, and small webs  *)
(* of pages: pairs, paths, a star, a triangle.                             *)

MCEdges == [note |-> <<[field |-> "sources", relation |-> "cites"]>>, section |-> <<>>]
MCRequired == [note |-> {"sources"}, section |-> {}]

NoFields == [x \in {} |-> <<>>]
Doc(slug, type, id, fields, links, tags) ==
  [slug |-> slug, type |-> type, id |-> id, fields |-> fields, links |-> links,
   dated |-> "date", age |-> 8, confidence |-> "none", tags |-> tags]
Uri(name, slug) == [wiki |-> name, ref |-> slug]

DocsA ==
  {Doc("a", "note", "U", [sources |-> f], l, {"t"}) :
     f \in {<<>>, <<Local("b")>>, <<Local("V")>>},
     l \in {<<Local("a")>>, <<Uri("kb", "b"), Uri("other", "a")>>}}
DocsB ==
  {Doc("b", "note", id, f, l, {"t"}) :
     id \in {None, "V", "U"},
     f \in {NoFields, [sources |-> <<>>, superseded_by |-> <<Local("a")>>]},
     l \in {<<Local("U"), Uri("other", "a")>>, <<Local("missing"), Local("a")>>}}
DocU == [Doc("U", "section", None, NoFields, <<Local("b")>>, {}) EXCEPT !.age = 91, !.confidence = "low"]
Other ==
  <<[Doc("a", "odd", "bad", NoFields, <<Uri("kb", "a"), Uri("gone", "x")>>, {}) EXCEPT
       !.dated = "rfc3339", !.confidence = "low"]>>
Linked ==
  {<<[name |-> "kb", docs |-> <<a, b, DocU>>], [name |-> "other", docs |-> Other]>> :
     a \in DocsA, b \in DocsB}

Names == <<"p", "q", "r", "s", "t">>
Web(n, links) ==
  LET targets(k) == SetToSortSeq({j \in 1..n : <<k, j>> \in links}, <)
      page(k) == Doc(Names[k], "section", None, NoFields,
                     [i \in DOMAIN targets(k) |-> Local(Names[targets(k)[i]])], {})
  IN <<[name |-> "kb", docs |-> [k \in 1..n |-> page(k)]]>>
Webs ==
  {Web(4, {}), Web(4, {<<1, 2>>, <<3, 4>>}), Web(4, {<<1, 2>>, <<2, 3>>, <<3, 4>>}),
   Web(4, {<<1, 2>>, <<1, 3>>, <<1, 4>>}), Web(4, {<<1, 3>>, <<1, 4>>, <<3, 4>>}),
   Web(5, {<<1, 2>>, <<2, 3>>, <<3, 4>>, <<4, 5>>})}
MCCorpora == Linked \cup Webs

MCFilters ==
  {NoFilter, [NoFilter EXCEPT !.types = {"note"}], [NoFilter EXCEPT !.relation = "links-to"],
   [NoFilter EXCEPT !.root = "a", !.depth = 1]}

----------------------------------------------------------------------------
(* Structures of one or two domains, and answers for a practice, with      *)
(* every defect the gates look for.                                        *)

P1(n, wording) == [name |-> n, wording |-> wording]
Shape(domains) == [parses |-> TRUE, domains |-> domains]
MCAuthored ==
  {[parses |-> FALSE, domains |-> <<>>], Shape(<<>>),
   Shape(<< <<P1("x", "fine"), P1("y", "placeholder")>> >>),
   Shape(<< <<P1("x", "fine")>>, <<>> >>),
   Shape(<< <<P1("x", "fine"), P1("y", "leak")>>, <<P1("z", "fine")>> >>),
   Shape(<< <<P1("x", "fine")>>, <<P1("y", "fine"), P1("x", "fine")>> >>),
   Shape(<< <<P1("x", "fine"), P1("y", "fine")>>, <<P1("y", "fine")>> >>),
   Shape(<< <<P1("y", "leak"), P1("x", "fine")>>, <<P1("x", "fine")>> >>)}

Asked(wordings) == [parses |-> TRUE, questions |-> [k \in DOMAIN wordings |-> [wording |-> wordings[k]]]]
MCQuestionLists ==
  {[parses |-> FALSE, questions |-> <<>>], Asked(<<>>), Asked(<<"fine">>), Asked(<<"fine", "leak">>),
   Asked(<<"placeholder">>)}

----------------------------------------------------------------------------
(* Two projects of the same name: one with two versions, the second of     *)
(* which asks two questions more, the other with one.                      *)

Question(id, positive, effort, roles) == [id |-> id, positive |-> positive, hours |-> effort, roles |-> roles]
Q1 == Question("q1", TRUE, 0, {"ops"})
Q2 == Question("q2", FALSE, 8, {})
Q3 == Question("q3", TRUE, 8, {"ops", "dev"})
Q4 == Question("q4", TRUE, 60, {})
MCEditions ==
  [one |-> << << << <<Q1>> >>, << <<Q2>> >> >>, << << <<Q1>>, <<Q4>> >>, << <<Q2, Q3>> >> >> >>,
   two |-> << << << <<Q3>> >> >> >>]
Shelf(imported, published, response) == [imported |-> imported, published |-> published, response |-> response]
MCSlugOf == [p \in {"one", "two"} |-> "name"]
MCShelves ==
  {[one |-> Shelf(3, 2, [NoResponse EXCEPT !.version = 2, !.answers = [q1 |-> "no"]]),
    two |-> Shelf(3, 1, NoResponse)],
   [one |-> Shelf(3, 1, [NoResponse EXCEPT !.version = 1, !.answers = [q2 |-> "yes"]]),
    two |-> Shelf(3, 1, [NoResponse EXCEPT !.version = 1])],
   [one |-> Shelf(1, 0, NoResponse), two |-> Shelf(0, 0, NoResponse)]}

----------------------------------------------------------------------------
(* Surveys: two questions of which one is put to two segments, one whose   *)
(* segments name a label twice, and every file that is refused.            *)

Put(segments, weights) == [segments |-> segments, weights |-> weights]
Survey(questions) == [parses |-> TRUE, questions |-> questions]
Rising == <<1, 0, 0, 0, 2>>
MCSurveys ==
  {Survey(<<Put(<<2, 1>>, Rising), Put(<<1>>, <<0, 0, 7, 0, 0>>)>>),
   Survey(<<Put(<<1, 1>>, Rising)>>), Survey(<<Put(<<>>, Rising)>>),
   [parses |-> FALSE, questions |-> <<>>], Survey(<<>>),
   Survey(<<Put(<<1>>, <<1, 1>>)>>), Survey(<<Put(<<1>>, <<0, 0, 0, 0, 0>>)>>)}

----------------------------------------------------------------------------
(* Two wikis: one whose skills have aliases and name a field an edge that  *)
(* the base schema read before them declares as text, one with the base    *)
(* schema alone.                                                           *)

Base(declares) == [type |-> "page", declares |-> declares, aliases |-> NoFields, edges |-> {}]
Common == [title |-> "string", summary |-> "string", tags |-> "array", type |-> "string", superseded_by |-> "string"]
Skills ==
  [type |-> "skill", aliases |-> [name |-> "title", description |-> "summary"],
   declares |-> [name |-> "string", description |-> "string", owner |-> "enum", superseded_by |-> "string"],
   edges |-> {"superseded_by"}]
Entry(slug, conf, fields) == [slug |-> slug, fields |-> fields, body |-> <<"fog">>, confidence |-> conf]
Rain == <<"rain">>
HomePages(first) ==
  <<first,
    Entry(2, 5, [type |-> <<"skill">>, name |-> Rain, description |-> <<"sun", "rain">>, status |-> <<"draft">>]),
    Entry(1, 0, [type |-> <<"section">>, title |-> Rain, tags |-> Rain]),
    Entry(4, 9, [type |-> <<"skill">>, name |-> Rain, title |-> <<"sun">>, owner |-> Rain, superseded_by |-> Rain])>>
FirstPages ==
  {Entry(3, 0, [title |-> Rain, tags |-> <<"x", "y">>, status |-> <<"active">>]),
   Entry(3, 2, [type |-> <<"note">>, title |-> <<"sun">>, mood |-> Rain, tags |-> <<"x">>])}
AwayPages ==
  <<Entry(6, 1, [type |-> <<"note">>, title |-> Rain, owner |-> <<"sun">>, tags |-> <<"y">>, status |-> <<"odd">>]),
    Entry(5, 0, [title |-> <<"sun">>, summary |-> Rain, tags |-> <<"x">>, status |-> <<"active">>])>>
MCLibraries ==
  {<<[name |-> "home", files |-> <<Base([confidence |-> "number"] @@ Common), Skills>>, pages |-> HomePages(first)],
     [name |-> "away", files |-> <<Base(Common)>>, pages |-> AwayPages]>> : first \in FirstPages}
MCInquiries ==
  [word : {"rain", "sun"}, type : {"", "skill"}, status : {"", "active"}, sections : BOOLEAN,
   top : {1, 3}, cap : {0, 1}, cross : BOOLEAN]
MCMultipliers == [active |-> 10, draft |-> 6, unknown |-> 9]

----------------------------------------------------------------------------
RestForge == closed = <<>> /\ reading = NoReport /\ changes = 0
RestMeasure == wiki = <<>> /\ run = NoRun /\ measure = NoMeasure /\ events = 0 /\ reports = 0
RestConcepts ==
  corpus = <<>> /\ cached = <<>> /\ louvain = Idle
    /\ got = [kind |-> "nothing", wiki |-> 0, filter |-> NoFilter, answer |-> {}]
RestAuthor == author = NoAuthor /\ out = NoFile
RestPublish ==
  /\ shelf = [one |-> Shelf(0, 0, NoResponse), two |-> Shelf(0, 0, NoResponse)]
  /\ schemas = [t \in ToSet(Types) |-> "none"] /\ pages = [s \in Slugs |-> NoPages]
  /\ admitted = pages /\ pub = [w \in Publishers |-> NoPublish] /\ acts = 0
RestSearch == library = <<>> /\ index = <<>> /\ reply = NoReply
RestPoll == InitPoll /\ survey = Survey(<<>>)

Init ==
  \/ tool = "forge" /\ InitForge /\ RestMeasure /\ RestConcepts /\ RestAuthor /\ RestPublish /\ RestPoll /\ RestSearch
  \/ tool = "measure" /\ InitMeasure /\ RestForge /\ RestConcepts /\ RestAuthor /\ RestPublish /\ RestPoll /\ RestSearch
  \/ tool = "concepts" /\ InitConcepts /\ RestForge /\ RestMeasure /\ RestAuthor /\ RestPublish /\ RestPoll /\ RestSearch
  \/ tool = "author" /\ InitAuthor /\ RestForge /\ RestMeasure /\ RestConcepts /\ RestPublish /\ RestPoll /\ RestSearch
  \/ tool = "publish" /\ InitPublish /\ RestForge /\ RestMeasure /\ RestConcepts /\ RestAuthor /\ RestPoll /\ RestSearch
  \/ tool = "poll" /\ InitPoll /\ RestForge /\ RestMeasure /\ RestConcepts /\ RestAuthor /\ RestPublish /\ RestSearch
  \/ tool = "search" /\ InitSearch /\ RestForge /\ RestMeasure /\ RestConcepts /\ RestAuthor /\ RestPublish /\ RestPoll

Next ==
  /\ UNCHANGED tool
  /\ \/ tool = "forge" /\ NextForge /\ UNCHANGED <<measureVars, conceptVars, authorVars, publishVars, pollVars, searchVars>>
     \/ tool = "measure" /\ NextMeasure /\ UNCHANGED <<forgeVars, conceptVars, authorVars, publishVars, pollVars, searchVars>>
     \/ tool = "concepts" /\ NextConcepts /\ UNCHANGED <<forgeVars, measureVars, authorVars, publishVars, pollVars, searchVars>>
     \/ tool = "author" /\ NextAuthor /\ UNCHANGED <<forgeVars, measureVars, conceptVars, publishVars, pollVars, searchVars>>
     \/ tool = "publish" /\ NextPublish /\ UNCHANGED <<forgeVars, measureVars, conceptVars, authorVars, pollVars, searchVars>>
     \/ tool = "search" /\ NextSearch
          /\ UNCHANGED <<forgeVars, measureVars, conceptVars, authorVars, publishVars, pollVars>>
     \/ tool = "poll" /\ NextPoll /\ UNCHANGED <<forgeVars, measureVars, conceptVars, authorVars, publishVars, searchVars>>

Symmetry == Permutations(Publishers) \cup Permutations(Employees)

Spec == Init /\ [][Next]_<<tool, forgeVars, measureVars, conceptVars, authorVars, publishVars, pollVars, searchVars>>
=============================================================================
