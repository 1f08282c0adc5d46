-------------------------- MODULE TuesdayMeasure --------------------------
(***************************************************************************)
(* tuesday's KB lane (tuesday-cli, measure.rs): read every project, story, *)
(* task and decision page of a wiki, one call at a time, price the         *)
(* decisions of a month from what conduit's doors stamped on the pages,    *)
(* and write the measure-report page back.                                 *)
(*                                                                         *)
(* The wiki goes on living between the calls: doors sign and claim items,  *)
(* land and close them, refuse, bounce and cancel them, and new pages      *)
(* appear, a page at a time and one door at a time: what doors that        *)
(* overlap do to each other is the matter of ConduitSessions, and edits by *)
(* hand are left out.  A page is a number, in the order of slugs by which  *)
(* wiki_list pages its answers (search.rs).                                *)
(* Titles, merge commits and the rendering are left out; two instants make *)
(* a month.                                                                *)
(***************************************************************************)
EXTENDS Naturals, FiniteSets, SequencesExt

CONSTANTS Classes,     \* project, story, task, decision, in the order they are read
          ClassOf,     \* the class of each page there may ever be
          Wikis,       \* what the wiki may hold to begin with
          Newborn,     \* what a page holds when it is created
          Period,      \* the month asked for
          Now,         \* the instant at which doors stamp
          PageSize,    \* pages a call of wiki_list answers with
          MaxEvents,   \* bound: events in the wiki
          MaxReports   \* bound: reports made

VARIABLES wiki,      \* the pages: [status, stamp, claimed, ms, approved, friction, up, implements, reference]
          run,       \* the report being made
          measure,   \* the measure-report page: the report it holds, and whether it is committed
          events, reports   \* bounds

measureVars == <<wiki, run, measure, events, reports>>

AllPages == DOMAIN ClassOf
Present(w) == {n \in AllPages : w[n].status # "absent"}
Nobody == 0     \* no page, no instant, no reference

Pages(w, class) == SetToSortSeq({n \in Present(w) : ClassOf[n] = class}, <)

----------------------------------------------------------------------------
(* A page's stamps.                                                        *)

InPeriod(t) == t # Nobody /\ t \div 2 = Period

\* landed_at: merged_at, or what the claim and the time worked make of it
LandedAt(p) == IF p.stamp # Nobody THEN p.stamp
               ELSE IF p.claimed # Nobody THEN p.claimed + p.ms ELSE Nobody

\* closed_at, or the approval of an item that is done
ClosedAt(p) == IF p.stamp # Nobody THEN p.stamp
               ELSE IF p.status = "done" THEN p.approved ELSE Nobody

HasLanded(p) == p.status = "done" /\ InPeriod(LandedAt(p))

Signoffs(p) == IF InPeriod(p.approved) THEN 1 ELSE 0
Closes(p) == IF InPeriod(ClosedAt(p)) THEN 1 ELSE 0

----------------------------------------------------------------------------
(* assemble, over a corpus: the [slug, page] read of each class.           *)

Found(entries, n) == \E i \in DOMAIN entries : entries[i].slug = n
Find(entries, n) == entries[SelectInSeq(entries, LAMBDA e : e.slug = n)].page

\* Corpus::attribution: task -> story -> project -> the references of the
\* decisions it implements, all or none of them.
Attributed(c, t) ==
  /\ Found(c.story, t.up)
  /\ LET story == Find(c.story, t.up)
     IN /\ Found(c.project, story.up)
        /\ LET implements == Find(c.project, story.up).implements
           IN /\ implements # <<>>
              /\ \A i \in DOMAIN implements :
                   /\ Found(c.decision, implements[i])
                   /\ Find(c.decision, implements[i]).reference # Nobody
Attribution(c, t) ==
  IF ~Attributed(c, t) THEN <<>>
  ELSE LET implements == Find(c.project, Find(c.story, t.up).up).implements
       IN [i \in DOMAIN implements |-> Find(c.decision, implements[i]).reference]

\* Once for every entry of implements that names the decision.
Charges(c, t, ref) == Len(SelectSeq(Attribution(c, t), LAMBDA d : d = ref))

SumOver(f(_), s) == FoldLeft(LAMBDA sum, x : sum + f(x), 0, s)

\* A row adds up its tasks as often as they were read and charged, and each
\* parent once.
DecisionRow(c, ref) ==
  LET tasks == SelectSeq(c.task, LAMBDA e : HasLanded(e.page) /\ Charges(c, e.page, ref) > 0)
      stories == {tasks[i].page.up : i \in DOMAIN tasks}
      projects == {Find(c.story, s).up : s \in stories}
      OfTasks(f(_)) == SumOver(LAMBDA e : Charges(c, e.page, ref) * f(e.page), tasks)
      OfParents(f(_)) == MapThenSumSet(LAMBDA s : f(Find(c.story, s)), stories)
                           + MapThenSumSet(LAMBDA p : f(Find(c.project, p)), projects)
  IN [tasks |-> OfTasks(LAMBDA p : 1), stories |-> Cardinality(stories), projects |-> Cardinality(projects),
      machine_ms |-> OfTasks(LAMBDA p : p.ms),
      friction |-> OfTasks(LAMBDA p : p.friction) + OfParents(LAMBDA p : p.friction),
      signoffs |-> OfTasks(Signoffs) + OfParents(Signoffs),
      closes |-> OfParents(Closes)]

Assemble(c) ==
  LET landed == SelectSeq(c.task, LAMBDA e : HasLanded(e.page))
      lost == SelectSeq(landed, LAMBDA e : ~Attributed(c, e.page))
      items == c.project \o c.story \o c.task
      cancelled == SelectSeq(items, LAMBDA e : e.page.status = "cancelled")
      refs == UNION {ToSet(Attribution(c, landed[i].page)) : i \in DOMAIN landed}
  IN [decisions |-> [ref \in refs |-> DecisionRow(c, ref)],
      unattributed |-> [tasks |-> Len(lost), ms |-> SumOver(LAMBDA e : e.page.ms, lost)],
      discarded |-> [items |-> Len(cancelled), ms |-> SumOver(LAMBDA e : e.page.ms, cancelled)]]

----------------------------------------------------------------------------
(* The transport: read_type for each class, then the two writes.           *)

EmptyCorpus == [c \in ToSet(Classes) |-> <<>>]

NoRun == [phase |-> "idle", class |-> 1, page |-> 1, batch |-> <<>>, total |-> 0,
          corpus |-> EmptyCorpus, asked |-> wiki, written |-> wiki, born |-> {}, stripped |-> {}]

Begin ==
  /\ run.phase \in {"idle", "done", "failed"} /\ reports < MaxReports
  /\ run' = [NoRun EXCEPT !.phase = "listing"]
  /\ reports' = reports + 1
  /\ UNCHANGED <<wiki, measure, events>>

NextType(r) ==
  IF r.class = Len(Classes) THEN [r EXCEPT !.phase = "writing"]
  ELSE [r EXCEPT !.phase = "listing", !.class = @ + 1, !.page = 1]

\* wiki_list: the page_no-th window of the slugs in order, and how many
\* there are.
ListPages ==
  /\ run.phase = "listing"
  /\ LET all == Pages(wiki, Classes[run.class])
         first == (run.page - 1) * PageSize
         batch == SubSeq(all, first + 1, IF first + PageSize < Len(all) THEN first + PageSize ELSE Len(all))
     IN run' = IF batch = <<>> THEN NextType(run)
               ELSE [run EXCEPT !.phase = "reading", !.batch = batch, !.total = Len(all)]
  /\ UNCHANGED <<wiki, measure, events, reports>>

\* Mutant: the last page is thought to be the one before.
NearlyComplete(got, total) == Len(got) + 1 >= total
\* pages.len() >= total
Complete(got, total) == Len(got) >= total

\* wiki_content_read of the next slug of the batch
ReadPage ==
  /\ run.phase = "reading"
  /\ LET class == Classes[run.class]
         slug == Head(run.batch)
         got == Append(run.corpus[class], [slug |-> slug, page |-> wiki[slug]])
         r == [run EXCEPT !.batch = Tail(@), !.corpus[class] = got]
     IN run' = IF r.batch # <<>> THEN r
               ELSE IF Complete(got, run.total) THEN NextType(r)
               ELSE [r EXCEPT !.phase = "listing", !.page = @ + 1]
  /\ UNCHANGED <<wiki, measure, events, reports>>

\* assemble and wiki_content_write; the page is not committed yet
WriteReport ==
  /\ run.phase = "writing"
  /\ run' = [run EXCEPT !.phase = "ingesting", !.written = wiki]
  /\ measure' = [report |-> Assemble(run.corpus), committed |-> FALSE]
  /\ UNCHANGED <<wiki, events, reports>>

\* wiki_ingest
IngestReport ==
  /\ run.phase = "ingesting"
  /\ run' = [run EXCEPT !.phase = "done"]
  /\ measure' = [measure EXCEPT !.committed = TRUE]
  /\ UNCHANGED <<wiki, events, reports>>

\* A call fails, or the process dies: nothing is undone.
RunFails ==
  /\ run.phase \in {"listing", "reading", "writing", "ingesting"}
  /\ run' = [run EXCEPT !.phase = "failed"]
  /\ UNCHANGED <<wiki, measure, events, reports>>

----------------------------------------------------------------------------
(* The wiki, meanwhile: conduit's doors and adroit.                        *)

\* Bound: only while a report is read; before that the wikis to begin with
\* stand for any, and what is written stays as it is.
MayHappen == run.phase \in {"listing", "reading", "writing"} /\ events < MaxEvents
Event(n, page) ==
  /\ events' = events + 1
  /\ wiki' = [wiki EXCEPT ![n] = page]
  /\ UNCHANGED <<measure, reports>>

Item(n) == ClassOf[n] # "decision"
IsSigned(n) == wiki[n].status \in {"ready", "in-progress"}
ChildrenOf(n) == {wiki[k].status : k \in {k \in Present(wiki) : wiki[k].up = n}}

Signs(n) ==
  /\ Item(n) /\ wiki[n].status = "draft"
  /\ \A parent \in {wiki[n].up} \ {Nobody} : IsSigned(parent)
  /\ Event(n, [wiki[n] EXCEPT !.status = "ready", !.approved = Now])
  /\ UNCHANGED run
Claims(n) ==
  /\ ClassOf[n] = "task" /\ wiki[n].status = "ready"
  /\ Event(n, [wiki[n] EXCEPT !.status = "in-progress", !.claimed = Now])
  /\ UNCHANGED run
Lands(n) ==     \* a task is merged
  /\ ClassOf[n] = "task" /\ wiki[n].status = "in-progress"
  /\ Event(n, [wiki[n] EXCEPT !.status = "done", !.stamp = Now, !.ms = Now - wiki[n].claimed])
  /\ UNCHANGED run
ClosesItem(n) ==    \* a story or a project whose children are through
  /\ ClassOf[n] \in {"story", "project"} /\ IsSigned(n)
  /\ "done" \in ChildrenOf(n) /\ ChildrenOf(n) \subseteq {"done", "cancelled"}
  /\ Event(n, [wiki[n] EXCEPT !.status = "done", !.stamp = Now])
  /\ UNCHANGED run
Refuses(n) ==   \* the merge door, of a task whose gate fails
  /\ ClassOf[n] = "task" /\ wiki[n].status = "in-progress"
  /\ Event(n, [wiki[n] EXCEPT !.friction = @ + 1])
  /\ UNCHANGED run
Bounces(n) ==   \* one page of the cascade: the approval is stripped
  /\ Item(n) /\ IsSigned(n)
  /\ Event(n, [wiki[n] EXCEPT !.status = "draft", !.approved = Nobody, !.friction = @ + 1])
  /\ run' = [run EXCEPT !.stripped = @ \cup {n}]
Cancels(n) ==   \* one page of the cascade
  /\ Item(n) /\ wiki[n].status \in {"draft", "ready", "in-progress"}
  /\ Event(n, [wiki[n] EXCEPT !.status = "cancelled"])
  /\ UNCHANGED run
Appears(n) ==   \* a new page, with whatever the doors did to it at once
  /\ wiki[n].status = "absent"
  /\ Event(n, Newborn[n])
  /\ run' = [run EXCEPT !.born = @ \cup {ClassOf[n]}]

----------------------------------------------------------------------------
NoMeasure == [report |-> Assemble(EmptyCorpus), committed |-> FALSE]
InitMeasure ==
  wiki \in Wikis /\ run = NoRun /\ measure = NoMeasure /\ events = 0 /\ reports = 0

NextMeasure ==
  \/ Begin \/ ListPages \/ ReadPage \/ WriteReport \/ IngestReport \/ RunFails
  \/ MayHappen /\ \E n \in AllPages : 
       \/ Signs(n) \/ Claims(n) \/ Lands(n) \/ ClosesItem(n)
       \/ Refuses(n) \/ Bounces(n) \/ Cancels(n) \/ Appears(n)

SpecMeasure == InitMeasure /\ [][NextMeasure]_measureVars

----------------------------------------------------------------------------
(* The price of a decision, read off a wiki at rest.                       *)

\* The references of the decisions a task's project implements, as often
\* as it names them.
LineageOf(w, n) ==
  LET implements == w[w[w[n].up].up].implements
  IN IF /\ w[n].up \in Present(w) /\ w[w[n].up].up \in Present(w)
        /\ \A d \in ToSet(implements) : d \in Present(w) /\ w[d].reference # Nobody
     THEN [i \in DOMAIN implements |-> w[implements[i]].reference] ELSE <<>>
LandedTasks(w) == {n \in Present(w) : ClassOf[n] = "task" /\ HasLanded(w[n])}

PriceOf(w, ref) ==
  LET charged(n) == Cardinality({i \in DOMAIN LineageOf(w, n) : LineageOf(w, n)[i] = ref})
      tasks == {n \in LandedTasks(w) : charged(n) > 0}
      stories == {w[n].up : n \in tasks}
      projects == {w[n].up : n \in stories}
      parents == stories \cup projects
      Over(f(_)) == MapThenSumSet(LAMBDA n : charged(n) * f(w[n]), tasks)
      Once(f(_)) == MapThenSumSet(LAMBDA n : f(w[n]), parents)
  IN [tasks |-> Over(LAMBDA p : 1), stories |-> Cardinality(stories), projects |-> Cardinality(projects),
      machine_ms |-> Over(LAMBDA p : p.ms),
      friction |-> Over(LAMBDA p : p.friction) + Once(LAMBDA p : p.friction),
      signoffs |-> Over(Signoffs) + Once(Signoffs),
      closes |-> Once(Closes)]

References(w) == {w[n].reference : n \in Present(w)} \ {Nobody}
Unpriced(w) == {n \in LandedTasks(w) : LineageOf(w, n) = <<>>}
AtMost(a, b) == \A f \in DOMAIN a : a[f] <= b[f]
NoPrice == PriceOf([n \in AllPages |-> [status |-> "absent"]], Nobody)

\* A wiki in which the pages a bounce stripped during the report have the
\* approval t.
Resigned(w, t) ==
  [n \in AllPages |-> IF n \in run.stripped THEN [w[n] EXCEPT !.approved = t] ELSE w[n]]

\* Every report prices each decision at what its work came to some time
\* between the moment it was asked for and the moment it was written, in
\* every currency, whichever doors opened meanwhile, one at a time: nothing
\* is left out, and nothing is counted twice unless a task appeared in the
\* middle of the list (measure.rs read_type) or the project names the
\* decision twice (each entry charges, measure.rs:224).  Only a sign-off
\* that was bounced while the report was made may count or not.  Work that
\* reaches no decision is counted as such, not dropped.
PricesAreBracketed ==
  run.phase = "ingesting" =>
    LET rows == measure.report.decisions
        Row(ref) == IF ref \in DOMAIN rows THEN rows[ref] ELSE NoPrice
    IN /\ \A ref \in References(run.asked) : AtMost(PriceOf(Resigned(run.asked, Nobody), ref), Row(ref))
       /\ "task" \notin run.born =>
            \A ref \in DOMAIN rows : AtMost(rows[ref], PriceOf(Resigned(run.written, Now), ref))
       /\ run.born = {} =>
            /\ Cardinality(Unpriced(run.asked)) <= measure.report.unattributed.tasks
            /\ measure.report.unattributed.tasks <= Cardinality(Unpriced(run.written))
=============================================================================
