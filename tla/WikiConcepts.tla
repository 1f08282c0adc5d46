---------------------------- MODULE WikiConcepts ----------------------------
(***************************************************************************)
(* What llm-wiki makes of the links between its pages: the concept graph   *)
(* of one wiki and of all of them, the lint rules over the same links, the *)
(* communities found in the graph and the pages suggested for a page       *)
(* (graph.rs, ops/graph.rs, ops/lint.rs, ops/suggest.rs).                  *)
(*                                                                         *)
(* The index of a wiki is a sequence of documents.  A document has a slug, *)
(* a type, perhaps an id, targets in frontmatter fields and in its body.   *)
(* A target is spelled plainly, a slug or an id, or is the URI of a page   *)
(* of some wiki.  Slugs and ids are spellings; some spellings are ULIDs.   *)
(* Titles, messages, paths, scores and the rendering of graphs are left    *)
(* out, as are the distances petgraph-live computes.                       *)
(***************************************************************************)
EXTENDS Integers, FiniteSets, SequencesExt

CONSTANTS Corpora,      \* the wikis that may be mounted: [name, docs] in the order of mounting
          Ulids,        \* spellings that parse as a ULID
          Structural,   \* slugs of root and section index pages
          EdgesOf,      \* x-graph-edges of each known type: [field, relation] in order
          Required,     \* required fields of each known type
          Filters,      \* what a graph may be asked for: [types, relation, root, depth]
          MinNodes,     \* graph.min_nodes_for_communities
          Limit,        \* suggest.default_limit
          StaleDays     \* lint.stale_days

VARIABLES corpus,   \* the indexes of the mounted wikis
          cached,   \* the graph each mounted wiki keeps of its index
          louvain,  \* the communities of one wiki, being found
          got       \* the answer to the last request

conceptVars == <<corpus, cached, louvain, got>>

None == "none"
Local(spelling) == [wiki |-> None, ref |-> spelling]     \* a target
IsUri(t) == t.wiki # None

TypesKnown == DOMAIN EdgesOf
FieldsOf(type) == IF type \in TypesKnown THEN EdgesOf[type] ELSE <<>>
AllEdgeFields == {e.field : e \in UNION {ToSet(EdgesOf[t]) : t \in TypesKnown}}

DocsOf(w) == corpus[w].docs
Mounted == {corpus[w].name : w \in DOMAIN corpus}

----------------------------------------------------------------------------
(* build_graph: a node for each document of the wanted types, then the     *)
(* targets of its declared fields and of its body, each under its relation.*)

Parsed(d) == IF d.id \in Ulids THEN d.id ELSE None

Values(d, field) == IF field \in DOMAIN d.fields THEN d.fields[field] ELSE <<>>

\* The links of a document, as far as the filter lets them through.  A
\* field takes the relation of its first declaration.
LinksOf(d, f) ==
  LET decls == FieldsOf(d.type)
      RelationOf(field) == decls[SelectInSeq(decls, LAMBDA e : e.field = field)].relation
      Of(field) == [k \in DOMAIN Values(d, field) |->
                      [relation |-> RelationOf(field), target |-> Values(d, field)[k]]]
      body == [k \in DOMAIN d.links |-> [relation |-> "links-to", target |-> d.links[k]]]
  IN SelectSeq(FlattenSeq([k \in DOMAIN decls |-> Of(decls[k].field)]) \o body,
               LAMBDA l : f.relation \in {None, l.relation})

Wanted(docs, f) == SelectSeq(docs, LAMBDA d : f.types = {} \/ d.type \in f.types)

\* resolve_or_external, for a plain target: a slug wins over an id of the
\* same spelling; of two pages with one id the first is meant, of two with
\* one slug the last.
Resolve(docs, spelling) ==
  LET slugs == {k \in DOMAIN docs : docs[k].slug = spelling}
      ids == {k \in DOMAIN docs : spelling \in Ulids /\ docs[k].id = spelling}
  IN IF slugs # {} THEN CHOOSE k \in slugs : \A j \in slugs : j <= k
     ELSE IF ids # {} THEN CHOOSE k \in ids : \A j \in ids : k <= j ELSE 0

Distinct(s) == SelectSeq([k \in DOMAIN s |-> [at |-> k, it |-> s[k]]],
                         LAMBDA e : \A j \in 1..(e.at - 1) : s[j] # e.it)

FullGraph(all, f) ==
  LET docs == Wanted(all, f)
      links == FlattenSeq([k \in DOMAIN docs |->
                 [j \in DOMAIN LinksOf(docs[k], f) |->
                    [from |-> Resolve(docs, docs[k].slug)] @@ LinksOf(docs[k], f)[j]]])
      uris == LET u == Distinct(SelectSeq([k \in DOMAIN links |-> links[k].target], IsUri))
              IN [k \in DOMAIN u |-> u[k].it]
      To(t) == IF IsUri(t) THEN Len(docs) + SelectInSeq(uris, LAMBDA u : u = t)
               ELSE Resolve(docs, t.ref)
      edges == [k \in DOMAIN links |->
                  [from |-> links[k].from, to |-> To(links[k].target), relation |-> links[k].relation]]
  IN [nodes |-> [k \in DOMAIN docs |->
                   [slug |-> docs[k].slug, type |-> docs[k].type, uri |-> Local(docs[k].slug),
                    external |-> FALSE]]
                \o [k \in DOMAIN uris |->
                      [slug |-> uris[k].ref, type |-> "external", uri |-> uris[k], external |-> TRUE]],
      edges |-> SelectSeq(edges, LAMBDA e : e.to # 0 /\ e.to # e.from)]

Around(g, n) == {g.edges[k].to : k \in {j \in DOMAIN g.edges : g.edges[j].from = n}}
                  \cup {g.edges[k].from : k \in {j \in DOMAIN g.edges : g.edges[j].to = n}}

\* subgraph: so many hops from the first node with the slug, either way
Subgraph(g, root, depth) ==
  LET roots == {n \in DOMAIN g.nodes : g.nodes[n].slug = root}
      start == CHOOSE n \in roots : \A m \in roots : n <= m
      within[d \in 0..depth] ==
        IF d = 0 THEN {start} ELSE within[d - 1] \cup UNION {Around(g, n) : n \in within[d - 1]}
      kept == SetToSortSeq(within[depth], <)
      At(n) == SelectInSeq(kept, LAMBDA k : k = n)
      edges == SelectSeq(g.edges, LAMBDA e : {e.from, e.to} \subseteq within[depth])
  IN IF roots = {} THEN [nodes |-> <<>>, edges |-> <<>>]
     ELSE [nodes |-> [k \in DOMAIN kept |-> g.nodes[kept[k]]],
           edges |-> [k \in DOMAIN edges |-> [edges[k] EXCEPT !.from = At(@), !.to = At(@)]]]

BuildGraph(docs, f) ==
  IF f.root = None THEN FullGraph(docs, f) ELSE Subgraph(FullGraph(docs, f), f.root, f.depth)

NoFilter == [types |-> {}, relation |-> None, root |-> None, depth |-> 0]

\* get_or_build_graph: what is asked for without a filter is kept.
GetOrBuildGraph(w, f) == IF f = NoFilter THEN cached[w] ELSE BuildGraph(DocsOf(w), f)

----------------------------------------------------------------------------
(* Several wikis in one graph: every page under its own wiki, and the URIs *)
(* that name one of them resolved.                                         *)

\* Mutant: the wiki a URI names is not looked at.
OwnKey(w, node) == [wiki |-> corpus[w].name, ref |-> node.slug]
Key(w, node) == IF node.external THEN node.uri ELSE [wiki |-> corpus[w].name, ref |-> node.slug]

\* merge_cached_graphs, which applies types and relation once more.
MergeCachedGraphs(graphs, f) ==
  LET locals == UNION {{Key(w, graphs[w].nodes[n]) : n \in
                          {m \in DOMAIN graphs[w].nodes :
                             /\ ~graphs[w].nodes[m].external
                             /\ f.types = {} \/ graphs[w].nodes[m].type \in f.types}}
                         : w \in DOMAIN graphs}
      Lifted(w) == [k \in DOMAIN graphs[w].edges |->
                      LET e == graphs[w].edges[k]
                      IN [from |-> Key(w, graphs[w].nodes[e.from]),
                          to |-> Key(w, graphs[w].nodes[e.to]), relation |-> e.relation]]
      edges == SelectSeq(FlattenSeq([w \in DOMAIN graphs |-> Lifted(w)]),
                         LAMBDA e : e.from \in locals /\ f.relation \in {None, e.relation})
  IN [nodes |-> {[at |-> k, external |-> k \notin locals] :
                   k \in locals \cup {edges[j].to : j \in DOMAIN edges}},
      edges |-> SelectSeq(edges, LAMBDA e : e.from # e.to)]

\* graph_build with cross_wiki: the filter goes to each wiki, then again to
\* the merge.
BuildAcross(f) == MergeCachedGraphs([w \in DOMAIN corpus |-> GetOrBuildGraph(w, f)], f)

----------------------------------------------------------------------------
(* compute_metrics and the lint rules.                                     *)

Exempt(slug, type) == type = "section" \/ slug \in Structural

MetricOrphans(g) ==
  {g.nodes[n].slug : n \in {m \in DOMAIN g.nodes :
     /\ ~g.nodes[m].external /\ ~Exempt(g.nodes[m].slug, g.nodes[m].type)
     /\ \A k \in DOMAIN g.edges : g.edges[k].to # m}}

BuiltInFields == {"sources", "concepts", "document_refs", "superseded_by"}
TargetsIn(d, fields) ==
  ToSet(d.links) \cup UNION {ToSet(Values(d, x)) : x \in fields}
LintTargets(d) == TargetsIn(d, BuiltInFields \cup AllEdgeFields)

\* rule_orphan: a plain target credits the page of that slug, and a page of
\* that id as well: which one, when there are several, is up to the order
\* of a hash set.
Owners(docs) ==
  LET ids == {docs[k].id : k \in DOMAIN docs} \cap Ulids
      Declares(id, slug) == \E k \in DOMAIN docs : docs[k].id = id /\ docs[k].slug = slug
  IN {o \in [ids -> {docs[k].slug : k \in DOMAIN docs}] : \A id \in ids : Declares(id, o[id])}
Credits(owner, t) ==
  IF IsUri(t) THEN {}
  ELSE {t.ref} \cup (IF t.ref \in DOMAIN owner THEN {owner[t.ref]} ELSE {})
RuleOrphan(docs, owner) ==
  LET linked == UNION {UNION {Credits(owner, t) : t \in LintTargets(docs[k])} : k \in DOMAIN docs}
  IN {docs[k].slug : k \in {j \in DOMAIN docs :
        ~Exempt(docs[j].slug, docs[j].type) /\ docs[j].slug \notin linked}}

\* target_exists
TargetExists(docs, t) ==
  \E k \in DOMAIN docs : t.ref = docs[k].slug \/ (t.ref \in Ulids /\ t.ref = docs[k].id)
RuleBrokenLink(docs) ==
  UNION {{[slug |-> docs[k].slug, target |-> t] :
            t \in {u \in LintTargets(docs[k]) : ~IsUri(u) /\ ~TargetExists(docs, u)}} : k \in DOMAIN docs}
RuleBrokenCrossWikiLink(docs) ==
  UNION {{[slug |-> docs[k].slug, target |-> t] :
            t \in {u \in LintTargets(docs[k]) : IsUri(u) /\ u.wiki \notin Mounted}} : k \in DOMAIN docs}

RuleDuplicateId(docs) ==
  {docs[k].slug : k \in {j \in DOMAIN docs :
     docs[j].id # None /\ \E i \in DOMAIN docs \ {j} : docs[i].id = docs[j].id}}
RuleIdFormat(docs) ==
  {docs[k].slug : k \in {j \in DOMAIN docs : docs[j].id \notin Ulids \cup {None}}}
RuleUnknownType(docs) ==
  {docs[k].slug : k \in {j \in DOMAIN docs : docs[j].type \notin TypesKnown}}
RuleMissingFields(docs) ==
  {docs[k].slug : k \in {j \in DOMAIN docs :
     docs[j].type \in TypesKnown /\ ~(Required[docs[j].type] \subseteq DOMAIN docs[j].fields)}}
RuleStale(docs) ==
  {docs[k].slug : k \in {j \in DOMAIN docs :
     (docs[j].dated = "none" \/ docs[j].age > StaleDays) /\ docs[j].confidence = "low"}}

\* build_undirected: local pages only, and what articulation_points and
\* find_bridges say of it.
LocalNodes(g) == {n \in DOMAIN g.nodes : ~g.nodes[n].external}
BuildUndirected(g) == [n \in LocalNodes(g) |-> Around(g, n) \cap LocalNodes(g)]
ReachableIn(adj, n) ==
  LET within[d \in 0..Cardinality(DOMAIN adj)] ==
        IF d = 0 THEN {n} ELSE within[d - 1] \cup UNION {adj[k] : k \in within[d - 1]}
  IN within[Cardinality(DOMAIN adj)]
RuleArticulationPoint(g) ==
  LET adj == BuildUndirected(g)
      Without(n) == [k \in DOMAIN adj \ {n} |-> adj[k] \ {n}]
  IN {g.nodes[n].slug : n \in {m \in DOMAIN adj :
        \E a, b \in adj[m] : a # b /\ b \notin ReachableIn(Without(m), a)}}
RuleBridge(g) ==
  LET adj == BuildUndirected(g)
      Cut(a, b) == [adj EXCEPT ![a] = @ \ {b}, ![b] = @ \ {a}]
  IN {{g.nodes[n].slug, g.nodes[k].slug} : <<n, k>> \in {e \in (DOMAIN adj) \X (DOMAIN adj) :
        e[2] \in adj[e[1]] /\ e[2] \notin ReachableIn(Cut(e[1], e[2]), e[1])}}

\* run_lint, every rule asked for
RunLint(docs, owner, g) ==
  [orphan |-> RuleOrphan(docs, owner), broken |-> RuleBrokenLink(docs), cross |-> RuleBrokenCrossWikiLink(docs),
   duplicate |-> RuleDuplicateId(docs), format |-> RuleIdFormat(docs), unknown |-> RuleUnknownType(docs),
   missing |-> RuleMissingFields(docs), stale |-> RuleStale(docs),
   articulation |-> RuleArticulationPoint(g), bridge |-> RuleBridge(g)]

\* compute_staleness, which reads only bare dates
ComputeStaleness(docs) ==
  LET Aged(lo, hi) == {k \in DOMAIN docs : docs[k].dated = "date" /\ lo <= docs[k].age /\ docs[k].age <= hi}
      fresh == Cardinality(Aged(0, 7))
      week == Cardinality(Aged(8, 30))
  IN [fresh |-> fresh, stale_7d |-> week, stale_30d |-> Len(docs) - fresh - week]

----------------------------------------------------------------------------
(* build_community_data: Louvain, one node after the other.                *)

BuildAdjacency(g) == [n \in LocalNodes(g) |-> Around(g, n) \cap LocalNodes(g)]
Degree(adj, n) == Cardinality(adj[n])
TwiceM(adj) == MapThenSumSet(LAMBDA n : Degree(adj, n), DOMAIN adj)
MaxPasses(adj) == (IF Cardinality(DOMAIN adj) < 10 THEN 10 ELSE Cardinality(DOMAIN adj)) * 10

\* The gain of moving n to community c, times twice the square of m; staying
\* is taken to gain nothing.
Gain(adj, community, n, c) ==
  LET others == {k \in DOMAIN adj \ {n} : community[k] = c}
  IN TwiceM(adj) * Cardinality(others \cap adj[n])
       - MapThenSumSet(LAMBDA k : Degree(adj, k), others) * Degree(adj, n)

\* The best communities next door, if any gains; a hash map breaks ties.
BestMoves(adj, community, n) ==
  LET near == {community[k] : k \in adj[n]} \ {community[n]}
      gain == [c \in near |-> Gain(adj, community, n, c)]
  IN {c \in near : gain[c] > 0 /\ \A d \in near : gain[d] <= gain[c]}

Idle == [wiki |-> 0, adj |-> <<>>, community |-> <<>>,
         next |-> 1, pass |-> 1, moved |-> FALSE, phase |-> "idle"]

Unasked == got.kind = "nothing"

Detect(w) ==
  /\ Unasked /\ louvain.phase = "idle"
  /\ LET adj == BuildAdjacency(cached[w])
         alone == [n \in 1..Len(DocsOf(w)) |-> n]
     IN louvain' = [Idle EXCEPT !.wiki = w, !.adj = adj, !.community = alone,
                                !.phase = IF TwiceM(adj) = 0 THEN "settled" ELSE "running"]
  /\ UNCHANGED <<corpus, cached, got>>

\* One node of a pass; the last one ends it.
Visit ==
  /\ Unasked /\ louvain.phase = "running"
  /\ LET best == BestMoves(louvain.adj, louvain.community, louvain.next)
         last == louvain.next = Len(louvain.community)
         moved == louvain.moved \/ best # {}
     IN \E c \in IF best = {} THEN {louvain.community[louvain.next]} ELSE best :
          louvain' = [louvain EXCEPT
            !.community[louvain.next] = c,
            !.next = IF last THEN 1 ELSE @ + 1,
            !.pass = IF last THEN @ + 1 ELSE @,
            !.moved = IF last THEN FALSE ELSE moved,
            !.phase = IF ~last THEN @ ELSE IF ~moved THEN "settled"
                      ELSE IF louvain.pass = MaxPasses(louvain.adj) THEN "stopped" ELSE @]
  /\ UNCHANGED <<corpus, cached, got>>

SizeOf(community, c) == Cardinality({n \in DOMAIN community : community[n] = c})
CommunityStats(community) ==
  LET sizes == {SizeOf(community, c) : c \in ToSet(community)}
  IN [count |-> Cardinality(ToSet(community)),
      largest |-> IF sizes = {} THEN 0 ELSE CHOOSE z \in sizes : \A y \in sizes : y <= z,
      smallest |-> IF sizes = {} THEN 0 ELSE CHOOSE z \in sizes : \A y \in sizes : z <= y,
      isolated |-> {n \in DOMAIN community : SizeOf(community, community[n]) <= 2}]

----------------------------------------------------------------------------
(* suggest: pages that share a tag, two hops away, that read alike, or in  *)
(* the same community.                                                     *)

FindDoc(docs, slug) == docs[SelectInSeq(docs, LAMBDA d : d.slug = slug)]
ExistingLinks(d) == {t.ref : t \in {u \in TargetsIn(d, {"sources", "concepts", "document_refs"}) : ~IsUri(u)}}

\* Two hops from the last node with the slug: placeholders come last.
TwoHops(g, slug, existing) ==
  LET named == {n \in DOMAIN g.nodes : g.nodes[n].slug = slug}
      root == CHOOSE n \in named : \A k \in named : k <= n
      hop1 == Around(g, root)
  IN IF named = {} THEN {}
     ELSE {g.nodes[n].slug : n \in UNION {Around(g, k) : k \in hop1} \ (hop1 \cup {root})} \ existing

\* Strategies 1 and 3 take what the search finds, any of the pages that may
\* be; which candidates stay, when there are too many, is up to the scores.
Candidates(w, slug, alike) ==
  LET docs == DocsOf(w)
      page == FindDoc(docs, slug)
      existing == ExistingLinks(page)
      others == {docs[k].slug : k \in DOMAIN docs} \ (existing \cup {slug})
      tagged == {s \in others : FindDoc(docs, s).tags \cap page.tags # {}}
      hops == TwoHops(cached[w], slug, existing)
      community == louvain.community
      peers == IF Len(docs) < MinNodes THEN {}
               ELSE {docs[k].slug : k \in {j \in DOMAIN docs :
                       \E i \in DOMAIN docs : docs[i].slug = slug /\ community[i] = community[j]}}
                    \ (existing \cup {slug})
  IN (tagged \cap alike) \cup hops \cup (others \cap alike) \cup peers

----------------------------------------------------------------------------
(* Requests change nothing, so a behaviour is bounded to one answer, and   *)
(* to one run of Louvain before it.                                        *)

AskGraph(w, f) ==
  /\ Unasked
  /\ got' = [kind |-> "graph", wiki |-> w, filter |-> f, answer |-> GetOrBuildGraph(w, f)]
  /\ UNCHANGED <<corpus, cached, louvain>>

AskAcross(f) ==
  /\ Unasked
  /\ got' = [kind |-> "across", wiki |-> 0, filter |-> f, answer |-> BuildAcross(f)]
  /\ UNCHANGED <<corpus, cached, louvain>>

AskLint(w) ==
  /\ Unasked
  /\ \E owner \in Owners(DocsOf(w)) :
       got' = [kind |-> "lint", wiki |-> w, filter |-> NoFilter, answer |-> RunLint(DocsOf(w), owner, cached[w])]
  /\ UNCHANGED <<corpus, cached, louvain>>

AskStats(w) ==
  /\ Unasked
  /\ Len(DocsOf(w)) < MinNodes \/ (louvain.wiki = w /\ louvain.phase \in {"settled", "stopped"})
  /\ got' = [kind |-> "stats", wiki |-> w, filter |-> NoFilter,
             answer |-> [pages |-> Len(DocsOf(w)), orphans |-> MetricOrphans(cached[w]),
                         sections |-> Len(SelectSeq(DocsOf(w), LAMBDA d : d.type = "section")),
                         staleness |-> ComputeStaleness(DocsOf(w)),
                         communities |-> IF Len(DocsOf(w)) < MinNodes THEN CommunityStats(<<>>)
                                         ELSE CommunityStats(louvain.community)]]
  /\ UNCHANGED <<corpus, cached, louvain>>

AskSuggestions(w, slug, alike) ==
  /\ Unasked
  /\ \E k \in DOMAIN DocsOf(w) : DocsOf(w)[k].slug = slug
  /\ Len(DocsOf(w)) < MinNodes \/ (louvain.wiki = w /\ louvain.phase \in {"settled", "stopped"})
  /\ LET all == Candidates(w, slug, alike)
     IN \E some \in SUBSET all :
          /\ Cardinality(some) <= Limit
          /\ got' = [kind |-> "suggest", wiki |-> w, filter |-> [NoFilter EXCEPT !.root = slug],
                     answer |-> some]
  /\ UNCHANGED <<corpus, cached, louvain>>

SlugsIn(w) == {DocsOf(w)[k].slug : k \in DOMAIN DocsOf(w)}

InitConcepts ==
  /\ corpus \in Corpora
  /\ cached = [w \in DOMAIN corpus |-> BuildGraph(DocsOf(w), NoFilter)]
  /\ louvain = Idle
  /\ got = [kind |-> "nothing", wiki |-> 0, filter |-> NoFilter, answer |-> {}]

NextConcepts ==
  \/ \E w \in DOMAIN corpus :
       \/ \E f \in Filters : AskGraph(w, f)
       \/ AskLint(w) \/ Detect(w) \/ AskStats(w)
       \/ \E slug \in SlugsIn(w), alike \in SUBSET SlugsIn(w) : AskSuggestions(w, slug, alike)
  \/ \E f \in Filters : AskAcross(f)
  \/ Visit

SpecConcepts == InitConcepts /\ [][NextConcepts]_conceptVars

----------------------------------------------------------------------------
(* What the answers have to do with each other.                            *)

UniqueIn(docs) ==
  \A i, j \in DOMAIN docs : i # j => docs[i].slug # docs[j].slug /\ (docs[i].id = None \/ docs[i].id # docs[j].id)

\* A target lint credits and the graph does not: the page itself, a field
\* its type does not declare, or an id that is spelled like another slug.
CreditedOnlyByLint(docs, slug) ==
  \E k \in DOMAIN docs : \E t \in LintTargets(docs[k]) :
    /\ ~IsUri(t) /\ (t.ref = slug \/ \E j \in DOMAIN docs : docs[j].slug = slug /\ docs[j].id = t.ref)
    /\ \/ docs[k].slug = slug
       \/ t \notin TargetsIn(docs[k], {e.field : e \in ToSet(FieldsOf(docs[k].type))})
       \/ t.ref # slug /\ \E j \in DOMAIN docs : docs[j].slug = t.ref

\* The orphans lint reports are orphans of the graph, where ids and slugs
\* are unique, and the graph has no others but those lint excuses.
OrphansAgree ==
  got.kind = "lint" =>
    LET docs == DocsOf(got.wiki)
        graph == MetricOrphans(cached[got.wiki])
    IN UniqueIn(docs) =>
         /\ got.answer.orphan \subseteq graph
         /\ \A slug \in graph \ got.answer.orphan : CreditedOnlyByLint(docs, slug)

\* A link of a declared field or of the body is missing from the graph only
\* when lint reports it broken, or when it leads to its own page.
BrokenLinksAgree ==
  got.kind = "lint" =>
    LET docs == DocsOf(got.wiki)
    IN \A k \in DOMAIN docs : \A t \in TargetsIn(docs[k], {e.field : e \in ToSet(FieldsOf(docs[k].type))}) :
         ~IsUri(t) =>
           (Resolve(docs, t.ref) = 0 <=> [slug |-> docs[k].slug, target |-> t] \in got.answer.broken)

\* Across wikis a link arrives at the page it names, in whichever mounted
\* wiki that is, and what no mounted wiki has stays outside.
LinksArrive ==
  got.kind = "across" /\ got.filter.types = {} /\ got.filter.root = None =>
    LET has(wiki, slug) == \E w \in DOMAIN corpus : corpus[w].name = wiki /\ slug \in SlugsIn(w)
        arrivals(w, d) ==
          {[from |-> [wiki |-> corpus[w].name, ref |-> d.slug], relation |-> l.relation,
            to |-> IF IsUri(l.target) THEN l.target
                   ELSE [wiki |-> corpus[w].name, ref |-> DocsOf(w)[Resolve(DocsOf(w), l.target.ref)].slug]]
             : l \in {x \in ToSet(LinksOf(d, got.filter)) :
                        IsUri(x.target) \/ Resolve(DocsOf(w), x.target.ref) # 0}}
        all == UNION {UNION {arrivals(w, DocsOf(w)[k]) : k \in DOMAIN DocsOf(w)} : w \in DOMAIN corpus}
    IN /\ ToSet(got.answer.edges) = {e \in all : e.from # e.to}
       /\ \A n \in got.answer.nodes : n.external <=> ~has(n.at.wiki, n.at.ref)

\* A page whose age lint complains of is counted among the oldest.
StaleIsOld ==
  got.kind = "stats" => Cardinality(RuleStale(DocsOf(got.wiki))) <= got.answer.staleness.stale_30d

\* An end of a bridge that links to yet another page is an articulation
\* point.
BridgesAreJoints ==
  got.kind = "lint" =>
    LET g == cached[got.wiki]
        adj == BuildUndirected(g)
    IN UniqueIn(DocsOf(got.wiki)) =>
         \A pair \in got.answer.bridge : \A n \in DOMAIN adj :
           g.nodes[n].slug \in pair /\ Cardinality(adj[n]) > 1 => g.nodes[n].slug \in got.answer.articulation

\* Communities never join pages that no path of links joins, Louvain ends
\* by itself or at its cap, and where it ended by itself a page that is
\* linked to another one is not alone (graph.rs louvain_phase1).
CommunitiesHoldTogether ==
  LET adj == louvain.adj
      c == louvain.community
  IN louvain.phase # "idle" =>
       /\ \A n, k \in DOMAIN c : c[n] = c[k] => k \in ReachableIn(adj, n)
       /\ louvain.pass <= MaxPasses(adj) + 1
       /\ louvain.phase = "settled" =>
            \A n \in DOMAIN c : adj[n] # {} => SizeOf(c, c[n]) > 1

\* A suggestion is never the page it is made for, nor one that its sources,
\* concepts, documents or body link already, unless a placeholder of
\* another wiki's page has taken the page's name in the graph (suggest.rs).
Shadowed(w, slug) == \E n \in DOMAIN cached[w].nodes : cached[w].nodes[n].external /\ cached[w].nodes[n].slug = slug
SuggestionsAreNews ==
  got.kind = "suggest" =>
    /\ got.answer \cap ExistingLinks(FindDoc(DocsOf(got.wiki), got.filter.root)) = {}
    /\ got.filter.root \in got.answer => Shadowed(got.wiki, got.filter.root)

\* The graph, the merged graph, lint, stats, the communities and suggest tell
\* one story about the links of a wiki (graph.rs build_graph,
\* merge_cached_graphs, compute_metrics, louvain_phase1; lint.rs rule_orphan,
\* rule_broken_link, rule_bridge; suggest.rs).
LinksTellOneStory ==
  /\ OrphansAgree /\ BrokenLinksAgree /\ LinksArrive /\ StaleIsOld /\ BridgesAreJoints
  /\ CommunitiesHoldTogether /\ SuggestionsAreNews
=============================================================================
