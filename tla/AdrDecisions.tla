---------------------------- MODULE AdrDecisions ----------------------------
(***************************************************************************)
(* The decision records of adroit (surface.rs, store.rs, lifecycle.rs,     *)
(* naming.rs): each call opens a session with the knowledge base, lists    *)
(* the decisions, reads every page, decides on that copy of the corpus,    *)
(* writes whole pages back and has decisions/ ingested.                    *)
(*                                                                         *)
(* The knowledge base serves several sessions; nothing ties a write to the *)
(* copy it was decided on.  Listing, each read, each write and the         *)
(* ingestion are steps of their own, and a call may fail or its process    *)
(* may die between any two of them.  A page that has been written is read  *)
(* by its slug at once, and listed once decisions/ has been ingested.      *)
(***************************************************************************)
EXTENDS PlanSection, FiniteSets, FiniteSetsExt, Functions

CONSTANTS Sessions,     \* calls of the verbs, from a terminal or over MCP
          Titles,       \* titles of decisions
          Lines,        \* lines that texts are made of
          Bodies,       \* what new and edit write as the body
          Plans,        \* what plan --save stores
          Schemes,      \* naming schemes the knowledge base may be used with
          Starts,       \* the pages, all listed, that a behaviour begins with
          MaxCalls,     \* bound: calls in a behaviour
          None          \* no decision

Statuses == {"proposed", "accepted", "rejected", "deprecated", "superseded"}

VARIABLES scheme,      \* ADROIT_NAMING
          page,        \* slug -> decision, the files under decisions/
          listed,      \* slugs the engine's index lists
          call,        \* what each session is doing
          ids,         \* how many page ids have been drawn
          calls,       \* how many calls have begun
          reported,    \* history: errors reported by checks nothing was written under
          overlapped,  \* history: a page was written on an old or a halfway corpus
          died         \* history: a call ended between a write and its ingestion

vars == <<scheme, page, listed, call, ids, calls, reported, overlapped, died>>

NoPages == [s \in {} |-> None]
Idle == [step |-> "none", todo |-> {}, corpus |-> NoPages, writes |-> <<>>,
         replaces |-> FALSE, fresh |-> TRUE]

Init ==
  /\ scheme \in Schemes
  /\ page \in Starts
  /\ listed = DOMAIN page
  /\ call = [s \in Sessions |-> Idle]
  /\ ids = Cardinality(DOMAIN page)
  /\ calls = 0 /\ reported = {} /\ overlapped = FALSE /\ died = FALSE

----------------------------------------------------------------------------
(* Names.  A slug is <<number, title>>: the sequential number, the number  *)
(* that tells date slugs apart, or the page id.                            *)

Reference(slug) == IF scheme = "date" THEN slug ELSE <<slug[1], None>>

\* NamingScheme::assign, from the references in the corpus.
Assign(corpus, title, id) ==
  CASE scheme = "sequential" -> Max({s[1] : s \in DOMAIN corpus} \cup {0}) + 1
    [] scheme = "date" -> Min({n \in 1..(Cardinality(DOMAIN corpus) + 1) : <<n, title>> \notin DOMAIN corpus})
    [] scheme = "uuid" -> id

Reopens(from, to) ==
  \/ from = to
  \/ from \in {"proposed", "rejected"} /\ to \in {"accepted", "rejected"}
  \/ from = "accepted" /\ to = "deprecated"
\* set-status; superseded has a verb of its own, and what is over stays over.
CheckTransition(from, to) ==
  \/ from = to
  \/ from = "proposed" /\ to \in {"accepted", "rejected"}
  \/ from = "accepted" /\ to = "deprecated"

----------------------------------------------------------------------------
(* check: errors in a corpus; warnings are left out.                       *)

Repeated(corpus, Key(_)) ==
  \E s, t \in DOMAIN corpus : s # t /\ Key(s) = Key(t)

Resolves(corpus, id) == \E s \in DOMAIN corpus : corpus[s].id = id

BrokenLink(corpus, d) ==
  \/ d.supersededBy # 0 /\ ~Resolves(corpus, d.supersededBy)
  \/ (d.supersededBy # 0) # (d.status = "superseded")
  \/ d.supersedes # 0 /\ ~Resolves(corpus, d.supersedes)

CheckErrors(corpus) ==
  (IF Repeated(corpus, Reference) \/ Repeated(corpus, LAMBDA s : corpus[s].id)
   THEN {"identity"} ELSE {})
    \cup
  (IF \E s \in DOMAIN corpus : BrokenLink(corpus, corpus[s]) THEN {"links"} ELSE {})

----------------------------------------------------------------------------
\* What is given: naming schemes, texts as lines, and the pages of a behaviour's
\* beginning, a corpus that check finds nothing wrong with in any scheme.
ASSUME SchemesAreKnown == Schemes \subseteq {"sequential", "date", "uuid"}
ASSUME TextsAreLines ==
  /\ Headings \cup Markers \cup {Prompt} \subseteq Lines
  /\ Bodies \subseteq Seq(Lines) /\ Plans \subseteq Seq(Lines)
ASSUME StartsAreClean ==
  \A P \in Starts :
    /\ IsFiniteSet(DOMAIN P) /\ P = [s \in DOMAIN P |-> P[s]] /\ DOMAIN P \subseteq Nat \X Titles
    /\ \A s \in DOMAIN P :
         /\ P[s] \in [id : 1..Cardinality(DOMAIN P), status : Statuses, supersedes : 0..Cardinality(DOMAIN P),
                      supersededBy : 0..Cardinality(DOMAIN P), review : BOOLEAN, body : Seq(Lines)]
         /\ ~BrokenLink(P, P[s]) /\ ("uuid" \in Schemes => s[1] = P[s].id)
    /\ ~Repeated(P, LAMBDA s : s[1]) /\ ~Repeated(P, LAMBDA s : P[s].id)

----------------------------------------------------------------------------
Goto(s, rec) == call' = [call EXCEPT ![s] = rec]

\* Corpus::load, the listing.
Begin(s) ==
  /\ call[s].step = "none" /\ calls < MaxCalls
  /\ calls' = calls + 1
  /\ Goto(s, [Idle EXCEPT !.step = "loading", !.todo = listed])
  /\ UNCHANGED <<scheme, page, listed, ids, reported, overlapped, died>>

\* Corpus::load, one page.
ReadPage(s) ==
  /\ call[s].step = "loading"
  /\ \E slug \in call[s].todo :
       Goto(s, [call[s] EXCEPT !.todo = @ \ {slug},
                               !.corpus = [x \in DOMAIN @ \cup {slug} |->
                                             IF x = slug THEN page[slug] ELSE @[x]]])
  /\ UNCHANGED <<scheme, page, listed, ids, calls, reported, overlapped, died>>

Loaded(s) == call[s].step = "loading" /\ call[s].todo = {}

Plan(s, writes, replaces) ==
  Goto(s, [call[s] EXCEPT !.step = "writing", !.writes = writes, !.replaces = replaces])

\* list, show, lint, plan without --save, a call that is refused, and a
\* set-status to the status the decision has: nothing is written.
Answer(s) ==
  /\ Loaded(s)
  /\ Goto(s, Idle)
  /\ UNCHANGED <<scheme, page, listed, ids, calls, reported, overlapped, died>>

Check(s) ==
  /\ Loaded(s)
  /\ reported' = reported \cup (IF call[s].fresh THEN CheckErrors(call[s].corpus) ELSE {})
  /\ Goto(s, Idle)
  /\ UNCHANGED <<scheme, page, listed, ids, calls, overlapped, died>>

\* Decision::new: a proposal, under a page id of its own.
Untracked(id, body) ==
  [id |-> 0, status |-> "proposed", supersedes |-> 0, supersededBy |-> 0, review |-> FALSE, body |-> body]
Proposed(id, body) ==
  [id |-> id, status |-> "proposed", supersedes |-> 0, supersededBy |-> 0, review |-> FALSE, body |-> body]

New(s) ==
  /\ Loaded(s)
  /\ \E title \in Titles, body \in Bodies :
       LET corpus == call[s].corpus
           slug == <<Assign(corpus, title, ids + 1), title>>
       IN /\ slug \notin DOMAIN corpus
          /\ Plan(s, <<[slug |-> slug, decision |-> Proposed(ids + 1, body)]>>, FALSE)
  /\ ids' = ids + 1
  /\ UNCHANGED <<scheme, page, listed, calls, reported, overlapped, died>>

\* A call that rewrites one decision of its corpus: what it may do, and to what.
Rewrite(s, Allowed(_), As(_), replaces) ==
  /\ Loaded(s)
  /\ \E slug \in DOMAIN call[s].corpus :
       LET d == call[s].corpus[slug] IN
       Allowed(d) /\ Plan(s, <<[slug |-> slug, decision |-> As(d)]>>, replaces)
  /\ UNCHANGED <<scheme, page, listed, ids, calls, reported, overlapped, died>>

Edit(s) ==
  \E body \in Bodies :
     Rewrite(s, LAMBDA d : d.status = "proposed", LAMBDA d : [d EXCEPT !.body = body], TRUE)

SetStatus(s) ==
  \E to \in Statuses :
     Rewrite(s, LAMBDA d : d.status # to /\ CheckTransition(d.status, to),
                LAMBDA d : [d EXCEPT !.status = to], FALSE)

SetReview(s) ==
  \E on \in BOOLEAN : Rewrite(s, LAMBDA d : TRUE, LAMBDA d : [d EXCEPT !.review = on], FALSE)

GuardsProseOnly(d, force) == force \/ ~HasHandWrittenSection(d.body)
\* The two guards of plan --save, which --force lifts.
MaySave(d, force) == force \/ (~HasHandWrittenSection(d.body) /\ Extract(d.body) = <<>>)

SavePlan(s) ==
  \E plan \in Plans, force \in BOOLEAN :
     Rewrite(s, LAMBDA d : MaySave(d, force),
                LAMBDA d : [d EXCEPT !.body = Splice(@, plan)], force)

StatusOnly(corpus, new, old) ==
  << [slug |-> old, decision |-> [corpus[old] EXCEPT !.status = "superseded"]],
     [slug |-> new, decision |-> [corpus[new] EXCEPT !.supersedes = corpus[old].id]] >>
\* Both sides by page id; neither side's status is asked for.
SupersededPages(corpus, new, old) ==
  << [slug |-> old, decision |-> [corpus[old] EXCEPT !.status = "superseded",
                                                     !.supersededBy = corpus[new].id]],
     [slug |-> new, decision |-> [corpus[new] EXCEPT !.supersedes = corpus[old].id]] >>

Supersede(s) ==
  /\ Loaded(s)
  /\ \E new, old \in DOMAIN call[s].corpus :
       new # old /\ Plan(s, SupersededPages(call[s].corpus, new, old), FALSE)
  /\ UNCHANGED <<scheme, page, listed, ids, calls, reported, overlapped, died>>

----------------------------------------------------------------------------
\* What a write or an ingestion leaves of the other calls' copies.
Others(s, rec) ==
  call' = [t \in Sessions |-> IF t = s THEN rec ELSE
             IF call[t].step = "none" THEN call[t] ELSE [call[t] EXCEPT !.fresh = FALSE]]

\* wiki_content_write
WritePage(s) ==
  /\ call[s].step = "writing"
  /\ LET w == Head(call[s].writes) IN
       page' = [x \in DOMAIN page \cup {w.slug} |-> IF x = w.slug THEN w.decision ELSE page[x]]
  /\ overlapped' = (overlapped \/ ~call[s].fresh \/ \E t \in Sessions \ {s} : call[t].step = "written")
  /\ Others(s, [call[s] EXCEPT !.writes = Tail(@),
                               !.step = IF Len(call[s].writes) = 1 THEN "written" ELSE @])
  /\ UNCHANGED <<scheme, listed, ids, calls, reported, died>>

\* wiki_ingest of decisions/: whatever is in the directory by then.
Ingest(s) ==
  /\ call[s].step = "written"
  /\ listed' = DOMAIN page
  /\ Others(s, Idle)
  /\ UNCHANGED <<scheme, page, ids, calls, reported, overlapped, died>>

\* The session breaks, the store refuses a step, or the process dies.
Die(s) ==
  /\ call[s].step # "none"
  /\ died' = (died \/ call[s].step \in {"writing", "written"})
  /\ Goto(s, Idle)
  /\ UNCHANGED <<scheme, page, listed, ids, calls, reported, overlapped>>

Next ==
  \E s \in Sessions :
     \/ Begin(s) \/ ReadPage(s) \/ Answer(s) \/ Check(s)
     \/ New(s) \/ Edit(s) \/ SetStatus(s) \/ SetReview(s) \/ SavePlan(s) \/ Supersede(s)
     \/ WritePage(s) \/ Ingest(s) \/ Die(s)

Spec == Init /\ [][Next]_vars

----------------------------------------------------------------------------
IsDecision(d) ==
  /\ DOMAIN d = {"id", "status", "supersedes", "supersededBy", "review", "body"}
  /\ d.id \in 1..ids /\ d.status \in Statuses
  /\ d.supersedes \in 0..ids /\ d.supersededBy \in 0..ids
  /\ d.review \in BOOLEAN /\ \A i \in 1..Len(d.body) : d.body[i] \in Lines

\* The pages hold decisions, every listed page exists, and a call that is
\* loading reads pages that exist.
TypeOK ==
  /\ scheme \in Schemes
  /\ \A s \in DOMAIN page : s[1] \in Nat /\ s[2] \in Titles /\ IsDecision(page[s])
  /\ listed \subseteq DOMAIN page
  /\ \A s \in Sessions :
       /\ call[s].step \in {"none", "loading", "writing", "written"}
       /\ call[s].todo \subseteq DOMAIN page
       /\ \A x \in DOMAIN call[s].corpus : IsDecision(call[s].corpus[x])

\* A check that nothing is written under reports no broken supersession, whatever
\* the verbs did and wherever they died, unless a page was written on an old
\* corpus; and no repeated reference or id unless, besides, a call died between
\* a write and its ingestion, which leaves a page that no listing shows.
ChecksAreClean ==
  /\ "links" \in reported => overlapped
  /\ "identity" \in reported => overlapped \/ died

\* The corpus is one that check finds nothing wrong with.
CorpusIsClean == TypeOK /\ ChecksAreClean

\* A decided record stays what it is: its status ages from accepted to
\* deprecated or becomes superseded, only a plan is spliced into its body, and a
\* listed page keeps its id.  So it is until a page is written on an old corpus.
DecidedStays ==
  [][~overlapped' =>
       \A s \in listed :
          LET d == page[s]  e == page'[s] IN
          /\ e.id = d.id
          /\ d.status # "proposed" =>
               /\ e.status \in {d.status, "superseded"}
                    \cup (IF d.status = "accepted" THEN {"deprecated"} ELSE {})
               /\ e.body # d.body => \E p \in Plans : e.body = Splice(d.body, p)]_vars

\* adroit never overwrites or shadows: a body that holds a stored plan or a
\* hand-written Implementation section changes only with the edit of a proposal
\* or a forced save, until a page is written on an old corpus.
PlansAreKept ==
  [][~overlapped' =>
       \A s \in listed :
          \/ page'[s].body = page[s].body
          \/ Extract(page[s].body) = <<>> /\ ~HasHandWrittenSection(page[s].body)
          \/ \E c \in Sessions : call[c].step = "writing" /\ call[c].replaces]_vars
=============================================================================
