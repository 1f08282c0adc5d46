--------------------------- MODULE TuesdayForge ---------------------------
(***************************************************************************)
(* tuesday's forge lane: the pull requests merged in a month, or in each   *)
(* month of a range, read page by page from Gitea or GitHub and turned     *)
(* into one effort report a month (calculator.rs, gitea.rs, github.rs and  *)
(* report.rs of tuesday-core; run.rs, strict.rs and window.rs of           *)
(* tuesday-cli).                                                           *)
(*                                                                         *)
(* The forge goes on working while it is read: a pull request that closes  *)
(* comes first in the list and pushes the others towards later pages, one  *)
(* that is reopened leaves it and pulls them towards earlier ones.         *)
(*                                                                         *)
(* Hours are exact: a share of the monthly hours is a number of points of  *)
(* the scaling series, Split-fold so that categories divide it evenly.     *)
(* Titles, links, percentages, the order of rows and output formats are    *)
(* left out.                                                               *)
(***************************************************************************)
EXTENDS Naturals, FiniteSets, SequencesExt

CONSTANTS Histories,   \* what the closed pull requests of each repository may be, newest first
          Arrivals,    \* pull requests that may close meanwhile
          Ranges,      \* the months asked for: [from, to]
          PageLimit,   \* pull requests a page holds
          LabelLimit,  \* labels of a pull request that GitHub is asked for
          Scale,       \* get_values of the scaling series
          Split,       \* a multiple of the number of categories of a pull request
          MaxChanges   \* bound: changes of the forge during a behaviour

VARIABLES closed,   \* the closed pull requests of each repository, newest first
          reading,  \* the report being made
          changes   \* bound: changes so far

forgeVars == <<closed, reading, changes>>

Repositories == DOMAIN closed
NotMerged == 0
Nothing == 0      \* no effort, no reference

----------------------------------------------------------------------------
(* Months and days: a year has twelve months, a month at most 31 days.     *)

\* months_inclusive: the month after a month
NextMonth(m) == IF m.month = 12 THEN [year |-> m.year + 1, month |-> 1]
                ELSE [m EXCEPT !.month = @ + 1]
Day(m, d) == (m.year * 12 + m.month - 1) * 31 + d - 1
Before(m, n) == Day(m, 1) < Day(n, 1)

InMonth(at, m) == Day(m, 1) <= at /\ at < Day(NextMonth(m), 1)

----------------------------------------------------------------------------
(* calculator.rs: what a pull request's labels say.                        *)

IsEffort(l) == l.kind = "effort"
IsAdr(l) == l.kind = "adr"
IsCategory(l) == l.kind \notin {"effort", "adr", "conduit"}

\* The first effort label, when it is one of the five.
ExtractEffort(p) ==
  LET efforts == SelectSeq(p.labels, IsEffort)
  IN IF efforts # <<>> /\ efforts[1].ref \in DOMAIN Scale THEN efforts[1].ref ELSE Nothing

\* The first adr label, or else the trailer of the body.
ExtractAdr(p) ==
  LET adrs == SelectSeq(p.labels, IsAdr)
  IN IF adrs # <<>> THEN adrs[1].ref ELSE p.trailer

Uncategorized == [kind |-> "uncategorized", ref |-> Nothing]
ExtractCategories(p) ==
  LET cats == SelectSeq(p.labels, IsCategory)
  IN IF cats # <<>> THEN cats ELSE <<Uncategorized>>

\* calculate_report, over [repo, pull] in the order they were fetched.
HasEffort(x) == ExtractEffort(x.pull) # Nothing
HasNoEffort(x) == ~HasEffort(x)
HoursOf(x) == Scale[ExtractEffort(x.pull)] * Split

\* A label that comes twice divides the hours twice: a pull request keeps
\* one share under it, the totals of the month get both.
Share(x) == HoursOf(x) \div Len(ExtractCategories(x.pull))
Times(x, c) == Len(SelectSeq(ExtractCategories(x.pull), LAMBDA d : d = c))

Allocation(x) ==
  [repo |-> x.repo, number |-> x.pull.number, hours |-> HoursOf(x), adr |-> ExtractAdr(x.pull),
   categories |-> [c \in ToSet(ExtractCategories(x.pull)) |-> Share(x)]]
Unallocated(x) == [repo |-> x.repo, number |-> x.pull.number]

Each(f(_), s) == [i \in DOMAIN s |-> f(s[i])]
Total(f(_), s) == FoldLeft(LAMBDA sum, x : sum + f(x), 0, s)

CategoriesIn(allocs) == UNION {DOMAIN allocs[i].categories : i \in DOMAIN allocs}
AdrsIn(allocs) == {allocs[i].adr : i \in DOMAIN allocs} \ {Nothing}

CalculateReport(fetched) ==
  LET scored == SelectSeq(fetched, HasEffort)
      allocs == Each(Allocation, scored)
  IN [points |-> Total(LAMBDA a : a.hours, allocs) \div Split,
      allocations |-> allocs,
      category_totals |->
        [c \in CategoriesIn(allocs) |-> Total(LAMBDA x : Times(x, c) * Share(x), scored)],
      adr_totals |->
        [r \in AdrsIn(allocs) |-> Total(LAMBDA a : IF a.adr = r THEN a.hours ELSE 0, allocs)],
      unallocated_prs |-> Each(Unallocated, SelectSeq(fetched, HasNoEffort))]

\* strict.rs check_pr: exactly one effort label, of the five, and a
\* category or an adr label; the trailer does not count.
Violates(x) ==
  LET efforts == SelectSeq(x.pull.labels, IsEffort)
  IN \/ Len(efforts) # 1
     \/ efforts[1].ref \notin DOMAIN Scale
     \/ \A i \in DOMAIN x.pull.labels : ~IsAdr(x.pull.labels[i]) /\ ~IsCategory(x.pull.labels[i])
CheckStrict(fetched) == SelectSeq(fetched, Violates)

----------------------------------------------------------------------------
(* The providers.                                                          *)

\* Mutant: the window is closed at its end.
ClosedWindow(p, m) ==
  p.at # NotMerged /\ Day(m, 1) <= p.at /\ p.at <= Day(NextMonth(m), 1)

\* gitea.rs: into_merged drops what was closed unmerged, month_window is
\* half open.
MergedInWindow(p, m) == p.at # NotMerged /\ InMonth(p.at, m)

\* github.rs: the search merged:start..end names both days.
Searched(p, m) == p.at # NotMerged /\ Day(m, 1) <= p.at /\ p.at <= Day(NextMonth(m), 1)

\* What the forge serves, before paging.
Served(kind, i, m) ==
  IF kind = "github" THEN SelectSeq(closed[i], LAMBDA p : Searched(p, m)) ELSE closed[i]

Page(kind, i, m, n) ==
  LET all == Served(kind, i, m)
  IN SubSeq(all, (n - 1) * PageLimit + 1, IF n * PageLimit < Len(all) THEN n * PageLimit ELSE Len(all))

\* Gitea's last page is the first short one, GitHub says so.
IsLastPage(kind, i, m, n) ==
  IF kind = "github" THEN Len(Served(kind, i, m)) <= n * PageLimit
  ELSE Len(Page(kind, i, m, n)) < PageLimit

\* into_merged: the first labels of the GraphQL answer.
IntoMerged(kind, p) ==
  IF kind = "github" /\ Len(p.labels) > LabelLimit
  THEN [p EXCEPT !.labels = SubSeq(@, 1, LabelLimit)] ELSE p

Kept(kind, pulls, m) ==
  Each(LAMBDA p : IntoMerged(kind, p),
       IF kind = "github" THEN pulls ELSE SelectSeq(pulls, LAMBDA p : MergedInWindow(p, m)))

----------------------------------------------------------------------------
(* The pipeline: run.rs for the command line, which reads one repository   *)
(* after the other and gives up on an error, and generate_report of the    *)
(* web head, which reads them side by side and takes a failed one as empty.*)

NotAsked == [i \in Repositories |-> [page |-> 1, got |-> <<>>, done |-> FALSE]]

NoReport ==
  [phase |-> "idle", kind |-> "gitea", lane |-> "cli", strict |-> FALSE,
   month |-> [year |-> 0, month |-> 1], to |-> [year |-> 0, month |-> 1],
   fetch |-> NotAsked, months |-> <<>>, reports |-> <<>>, violations |-> <<>>,
   asked |-> closed, lost |-> {}, cut |-> {}, grew |-> FALSE, shrank |-> FALSE]

\* from_config refuses a base URL or no token for GitHub, months_inclusive a
\* range that runs backwards.
TurnsDown(kind, range, base, token) ==
  \/ kind = "github" /\ (base \/ ~token)
  \/ Before(range.to, range.from)

Ask(kind, lane, strict, range, base, token) ==
  /\ lane = "web" => range.from = range.to /\ ~strict
  /\ reading' =
       [NoReport EXCEPT
          !.phase = IF TurnsDown(kind, range, base, token) THEN "refused" ELSE "reading",
          !.kind = kind, !.lane = lane, !.strict = strict,
          !.month = range.from, !.to = range.to]
  /\ UNCHANGED <<closed, changes>>

MayFetch(i) ==
  /\ reading.phase = "reading" /\ ~reading.fetch[i].done
  /\ reading.lane = "cli" => \A j \in Repositories : j < i => reading.fetch[j].done

\* get_paginated, or one turn of GitHub's cursor loop
FetchPage(i) ==
  /\ MayFetch(i)
  /\ LET f == reading.fetch[i]
         got == f.got \o Page(reading.kind, i, reading.month, f.page)
         last == IsLastPage(reading.kind, i, reading.month, f.page)
     IN reading' = [reading EXCEPT !.fetch[i] =
                      [page |-> f.page + 1, done |-> last,
                       got |-> IF last THEN Kept(reading.kind, got, reading.month) ELSE got]]
  /\ UNCHANGED <<closed, changes>>

\* An answer of GitHub that holds neither errors nor data ends the loop: the
\* pages read so far are taken for the month.
FetchBreaksOff(i) ==
  /\ MayFetch(i) /\ reading.kind = "github"
  /\ reading' = [reading EXCEPT !.fetch[i].got = Kept("github", @, reading.month),
                               !.fetch[i].done = TRUE,
                               !.cut = @ \cup {<<i, reading.month>>}]
  /\ UNCHANGED <<closed, changes>>

FetchFails(i) ==
  /\ MayFetch(i)
  /\ reading' = IF reading.lane = "cli" THEN [reading EXCEPT !.phase = "failed"]
                ELSE [reading EXCEPT !.fetch[i].got = <<>>, !.fetch[i].done = TRUE,
                                     !.lost = @ \cup {i}]
  /\ UNCHANGED <<closed, changes>>

Fetched ==
  FlattenSeq([i \in Repositories |->
                Each(LAMBDA p : [repo |-> i, pull |-> p], reading.fetch[i].got)])

\* check_strict and calculate_report for the month, then the next month.
Calculate ==
  /\ reading.phase = "reading"
  /\ \A i \in Repositories : reading.fetch[i].done
  /\ reading' =
       [reading EXCEPT
          !.reports = Append(@, CalculateReport(Fetched)),
          !.months = Append(@, reading.month),
          !.violations = IF reading.strict THEN @ \o CheckStrict(Fetched) ELSE @,
          !.phase = IF reading.month = reading.to THEN "reported" ELSE @,
          !.month = IF @ = reading.to THEN @ ELSE NextMonth(@),
          !.fetch = NotAsked]
  /\ UNCHANGED <<closed, changes>>

----------------------------------------------------------------------------
(* The forge, meanwhile.                                                   *)

\* Bound: only while a report is read; before that the histories to begin
\* with stand for any, and after it nothing is read.
InUse == reading.phase = "reading" /\ changes < MaxChanges

Close(i, p) ==
  /\ \A k \in DOMAIN closed[i] : closed[i][k].number # p.number
  /\ closed' = [closed EXCEPT ![i] = <<p>> \o @]
  /\ reading' = [reading EXCEPT !.grew = TRUE]
  /\ changes' = changes + 1

Reopen(i, k) ==
  /\ k \in DOMAIN closed[i] /\ closed[i][k].at = NotMerged
  /\ closed' = [closed EXCEPT ![i] = RemoveAt(@, k)]
  /\ reading' = [reading EXCEPT !.shrank = TRUE]
  /\ changes' = changes + 1

----------------------------------------------------------------------------
InitForge == closed \in Histories /\ reading = NoReport /\ changes = 0

NextForge ==
  \/ /\ reading.phase = "idle"
     /\ \E kind \in {"gitea", "github"}, lane \in {"cli", "web"}, strict, base, token \in BOOLEAN, r \in Ranges :
          Ask(kind, lane, strict, r, base, token)
  \/ \E i \in Repositories : FetchPage(i) \/ FetchBreaksOff(i) \/ FetchFails(i)
  \/ Calculate
  \/ /\ InUse
     /\ \E i \in Repositories :
          (\E p \in Arrivals : Close(i, p)) \/ (\E k \in DOMAIN closed[i] : Reopen(i, k))

SpecForge == InitForge /\ [][NextForge]_forgeVars

----------------------------------------------------------------------------
Rows(report) ==
  Each(LAMBDA a : [repo |-> a.repo, number |-> a.number], report.allocations)
    \o report.unallocated_prs
TimesReported(report, i, p) ==
  Cardinality({k \in DOMAIN Rows(report) : Rows(report)[k] = [repo |-> i, number |-> p.number]})

\* GitHub's search ends with the first day of the next month.
BelongsTo(p, m) ==
  \/ p.at # NotMerged /\ InMonth(p.at, m)
  \/ reading.kind = "github" /\ p.at # NotMerged /\ p.at = Day(NextMonth(m), 1)

\* A pull request that was closed when the report was asked for is listed
\* once, in the report of the month it was merged in: never twice while
\* none closes during the reading, never missing while none is reopened and
\* GitHub answers with data (github.rs takes what it has got for the whole
\* when an answer has none).
\* On GitHub the first day of a month belongs to the month before as well.
CountedOnce ==
  reading.phase = "reported" =>
  \A n \in DOMAIN reading.reports :
    \A i \in Repositories \ reading.lost : \A k \in DOMAIN reading.asked[i] :
      LET p == reading.asked[i][k]
          times == TimesReported(reading.reports[n], i, p)
      IN /\ ~reading.grew => times <= (IF BelongsTo(p, reading.months[n]) THEN 1 ELSE 0)
         /\ ~reading.shrank /\ <<i, reading.months[n]>> \notin reading.cut
              /\ BelongsTo(p, reading.months[n]) => times >= 1

\* The hours of a month are handed out exactly, by pull request and by
\* category, also where a label comes twice; the shares that a pull request
\* shows are never more than its hours, those of a category never more than
\* its total, and the hours of a decision are hours of pull requests.
BudgetIsSpent ==
  reading.phase = "reported" =>
  \A n \in DOMAIN reading.reports :
    LET r == reading.reports[n]
        Sum(f) == MapThenSumSet(LAMBDA c : f[c], DOMAIN f)
    IN /\ Total(LAMBDA a : a.hours, r.allocations) = r.points * Split
       /\ Sum(r.category_totals) = r.points * Split
       /\ \A a \in ToSet(r.allocations) : Sum(a.categories) <= a.hours
       /\ \A c \in DOMAIN r.category_totals :
            Total(LAMBDA a : IF c \in DOMAIN a.categories THEN a.categories[c] ELSE 0, r.allocations)
              <= r.category_totals[c]
       /\ Sum(r.adr_totals) <= r.points * Split

\* A range that passes --strict leaves no pull request without hours and no
\* hours without a category or a decision.
StrictMeansAllocated ==
  reading.phase = "reported" /\ reading.strict /\ reading.violations = <<>> =>
    \A n \in DOMAIN reading.reports :
      LET r == reading.reports[n]
      IN /\ r.unallocated_prs = <<>>
         /\ \A a \in ToSet(r.allocations) : a.adr # Nothing \/ Uncategorized \notin DOMAIN a.categories

\* The forge lane as a whole: the months of a range partition the work that
\* landed in it (window.rs, gitea.rs), the hours add up (calculator.rs) and
\* strict mode means what it says (strict.rs).
WorkIsCountedOnce == CountedOnce /\ BudgetIsSpent /\ StrictMeansAllocated
=============================================================================
