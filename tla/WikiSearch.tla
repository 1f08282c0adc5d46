----------------------------- MODULE WikiSearch -----------------------------
(***************************************************************************)
(* llm-wiki's full-text side: which fields an index has (wiki_builder.rs,  *)
(* from the schema files in the order they are read in), what of a page    *)
(* goes into which of them (index_manager.rs: index_page), and what search *)
(* and list answer from it, in one wiki and across all that are mounted    *)
(* (search.rs, ops/search.rs).                                             *)
(*                                                                         *)
(* A text is a sequence of words.  BM25 is the number of queried fields    *)
(* the word occurs in; multipliers and confidences are tenths.  A facet is *)
(* a function from values to counts, and a value is what is stored: one    *)
(* word in a keyword field, the whole text in a text field.  A confidence  *)
(* is a number and the only one: text for a numeric field is an error of   *)
(* the index.                                                              *)
(***************************************************************************)
EXTENDS Integers, FiniteSets, SequencesExt

CONSTANTS
  Libraries,   \* the installations: sequences of wikis [name, files, pages]
  Inquiries,   \* what is asked: [word, type, status, sections, top, cap, cross]
  Multipliers, \* [search.status]: status -> tenths, "unknown" among them
  Windows      \* page sizes of list

VARIABLES
  library,     \* the wikis mounted
  index,       \* wiki -> its name and documents, one per page; <<>> before
  reply        \* the answer to the one inquiry

searchVars == <<library, index, reply>>

-----------------------------------------------------------------------------
(* The fields of an index *)

ClassifyField(shape, isEdge) ==
  CASE isEdge \/ shape \in {"enum", "boolean"} -> "keyword"
    [] ~isEdge /\ shape = "number" -> "numeric"
    [] OTHER -> "text"

FixedFields ==
  [f \in {"slug", "uri", "id", "body", "body_links", "type", "status"} |->
     IF f = "body" THEN "text" ELSE "keyword"]

\* what one schema file adds: its aliased fields index under another name
Added(file) ==
  [f \in DOMAIN file.declares \ DOMAIN file.aliases |-> ClassifyField(file.declares[f], f \in file.edges)]

Overlay(f, g) == [x \in DOMAIN f \cup DOMAIN g |-> IF x \in DOMAIN f THEN f[x] ELSE g[x]]

\* the first file that declares a field decides its class
IndexFields(w) == FoldLeft(LAMBDA fields, file : Overlay(fields, Added(file)), FixedFields, w.files)

AliasesOf(w, type) ==
  LET declaring == SelectSeq(w.files, LAMBDA file : file.type = type) IN
  IF declaring = << >> THEN [f \in {} |-> ""] ELSE Last(declaring).aliases

-----------------------------------------------------------------------------
(* A page in the index *)

TypeOf(p) == IF "type" \in DOMAIN p.fields THEN p.fields["type"][1] ELSE "page"

OwnFields(w, p) == [f \in DOMAIN p.fields \ DOMAIN AliasesOf(w, TypeOf(p)) |-> p.fields[f]]

\* a field under its own name, an alias under the name it stands for, unless
\* that is there already
ResolveFields(w, p) ==
  LET aliases == AliasesOf(w, TypeOf(p))
      sources == DOMAIN p.fields \cap DOMAIN aliases
      source(c) == CHOOSE s \in sources : aliases[s] = c IN
  Overlay(OwnFields(w, p), [c \in {aliases[s] : s \in sources} |-> p.fields[source(c)]])

\* the values a field holds, and what goes to the body instead
Stored(w, p) ==
  LET resolved == ResolveFields(w, p)
      class == IndexFields(w) IN
  [f \in DOMAIN resolved \cap DOMAIN class |->
     IF class[f] = "keyword" THEN [k \in DOMAIN resolved[f] |-> <<resolved[f][k]>>]
     ELSE IF resolved[f] = << >> THEN << >> ELSE <<resolved[f]>>]

BodyWords(w, p) ==
  LET resolved == ResolveFields(w, p) IN
  ToSet(p.body) \cup UNION {ToSet(resolved[f]) : f \in DOMAIN resolved \ DOMAIN IndexFields(w)}

\* the document of a page: a confidence only where a schema has the field
Document(w, p) ==
  [slug |-> p.slug, values |-> Stored(w, p), body |-> BodyWords(w, p),
   confidence |-> IF "confidence" \in DOMAIN IndexFields(w) THEN p.confidence ELSE 0]

IndexAll ==
  /\ index = << >>
  /\ index' = [k \in DOMAIN library |->
                [name |-> library[k].name,
                 docs |-> [i \in DOMAIN library[k].pages |-> Document(library[k], library[k].pages[i])]]]
  /\ UNCHANGED <<library, reply>>

ValuesOf(d, f) == IF f \in DOMAIN d.values THEN ToSet(d.values[f]) ELSE {}
WordsIn(d, f)  == UNION {ToSet(v) : v \in ValuesOf(d, f)}

-----------------------------------------------------------------------------
(* search *)

Occurrences(d, word) ==
  Cardinality({f \in {"title", "summary"} : word \in WordsIn(d, f)}) + (IF word \in d.body THEN 1 ELSE 0)

Mentions(d, o) ==
  Occurrences(d, o.word) > 0 /\ (o.sections \/ <<"section">> \notin ValuesOf(d, "type"))

PassesFilters(d, o) ==
  /\ o.type   # "" => <<o.type>> \in ValuesOf(d, "type")
  /\ o.status # "" => <<o.status>> \in ValuesOf(d, "status")

StatusOf(d) == IF ValuesOf(d, "status") = {} THEN "unknown" ELSE d.values["status"][1][1]

Multiplier(status) == Multipliers[IF status \in DOMAIN Multipliers THEN status ELSE "unknown"]

\* a document without a confidence is not ranked down
Weight(d) == IF d.confidence = 0 THEN 10 ELSE d.confidence

Score(d, o) == Occurrences(d, o.word) * Multiplier(StatusOf(d)) * Weight(d)

Mentioning(x, o) == {i \in DOMAIN x.docs : Mentions(x.docs[i], o)}
Matching(x, o)   == {i \in Mentioning(x, o) : PassesFilters(x.docs[i], o)}

Take(s, n) == SubSeq(s, 1, IF n < Len(s) THEN n ELSE Len(s))

\* TopDocs with the tweaked score; ties in document order
Search(x, o) ==
  LET score == [i \in Matching(x, o) |-> Score(x.docs[i], o)]
      ranked == SetToSortSeq(DOMAIN score, LAMBDA i, j : score[i] > score[j] \/ (score[i] = score[j] /\ i < j)) IN
  [k \in DOMAIN Take(ranked, o.top) |->
     [wiki |-> x.name, slug |-> x.docs[ranked[k]].slug, score |-> score[ranked[k]]]]

-----------------------------------------------------------------------------
(* Facets *)

Facet(x, hits, f) ==
  [v \in UNION {ValuesOf(x.docs[i], f) : i \in hits} |->
     Cardinality({i \in hits : v \in ValuesOf(x.docs[i], f)})]

\* the counts a cap can leave: no value dropped counts more than one kept
Capped(facet, cap) ==
  IF cap = 0 \/ Cardinality(DOMAIN facet) <= cap THEN {facet}
  ELSE {[v \in kept |-> facet[v]] :
          kept \in {s \in SUBSET DOMAIN facet :
                      /\ Cardinality(s) = cap
                      /\ \A v \in s, x \in DOMAIN facet \ s : facet[v] >= facet[x]}}

Sum(f, g) ==
  [v \in DOMAIN f \cup DOMAIN g |->
     (IF v \in DOMAIN f THEN f[v] ELSE 0) + (IF v \in DOMAIN g THEN g[v] ELSE 0)]

Empty == [v \in {} |-> 0]

-----------------------------------------------------------------------------
(* search_all: each wiki on its own, in any order, then merged *)

Ranked(results) ==
  LET order == SetToSortSeq(DOMAIN results,
                 LAMBDA i, j : results[i].score > results[j].score \/ (results[i].score = results[j].score /\ i < j)) IN
  [k \in DOMAIN order |-> results[order[k]]]

\* the results cut before they are sorted
MergeUnsorted(lists, top) == Ranked(Take(FlattenSeq(lists), top))

Merge(lists, top) == Take(Ranked(FlattenSeq(lists)), top)

NoReply == [answered |-> FALSE]

SearchWikis(o, scope) ==
  \E order \in SetToSeqs(scope) :
    LET hits  == [k \in DOMAIN order |-> Matching(order[k], o)]
        facet(f) == [k \in DOMAIN order |-> Facet(order[k], hits[k], f)]
        types == [k \in DOMAIN order |-> Facet(order[k], Mentioning(order[k], o), "type")]
        cut   == [k \in DOMAIN order |-> Capped(facet("tags")[k], o.cap)] IN
    \E tags \in {t \in [DOMAIN order -> UNION ToSet(cut)] : \A k \in DOMAIN order : t[k] \in cut[k]} :
    \E merged \in Capped(FoldLeft(Sum, Empty, tags), o.cap) :
      reply' = [answered |-> TRUE, ask |-> o, scope |-> scope,
                results |-> Merge([k \in DOMAIN order |-> Search(order[k], o)], o.top),
                type |-> FoldLeft(Sum, Empty, types), status |-> FoldLeft(Sum, Empty, facet("status")),
                tags |-> merged]

\* ops::search: the wiki named, or all that are mounted
AskSearch(o) ==
  /\ index # << >> /\ reply = NoReply
  /\ SearchWikis(o, IF o.cross THEN ToSet(index) ELSE {index[1]})
  /\ UNCHANGED <<library, index>>

-----------------------------------------------------------------------------
(* list: the pages that pass, by slug, a window at a time *)

InOrder(x, o) ==
  SetToSortSeq({x.docs[i].slug : i \in {k \in DOMAIN x.docs : PassesFilters(x.docs[k], o)}}, <)

Window(x, o, page, size) ==
  LET offset == (page - 1) * size
      sorted == Take(InOrder(x, o), offset + size) IN
  IF offset < Len(sorted) THEN SubSeq(sorted, offset + 1, Len(sorted)) ELSE << >>

InitSearch == library \in Libraries /\ index = << >> /\ reply = NoReply
NextSearch == IndexAll \/ \E o \in Inquiries : AskSearch(o)

-----------------------------------------------------------------------------
\* the documents that match, whichever of the wikis asked they are in
Hits(r, o) == UNION {{[wiki |-> x.name, doc |-> x.docs[i]] : i \in Matching(x, o)} : x \in r.scope}

\* the best of all that match, best first
ResultsAreTheBest(r) ==
  LET hits == Hits(r, r.ask)
      shown == {h \in hits : \E k \in DOMAIN r.results :
                               r.results[k].wiki = h.wiki /\ r.results[k].slug = h.doc.slug} IN
  /\ Len(r.results) = Cardinality(shown)
  /\ Cardinality(shown) = IF Cardinality(hits) < r.ask.top THEN Cardinality(hits) ELSE r.ask.top
  /\ \A h \in shown, x \in hits \ shown : Score(h.doc, r.ask) >= Score(x.doc, r.ask)
  /\ \A k \in 2..Len(r.results) : r.results[k - 1].score >= r.results[k].score

Counts(facet, f, hits) == \A v \in DOMAIN facet : facet[v] = Cardinality({h \in hits : v \in ValuesOf(h.doc, f)})

FacetsCount(r) ==
  LET hits == Hits(r, r.ask)
      tags == UNION {ValuesOf(h.doc, "tags") : h \in hits} IN
  /\ Counts(r.type, "type", Hits(r, [r.ask EXCEPT !.type = "", !.status = ""]))
  /\ Counts(r.status, "status", hits)
  /\ r.ask.status # "" => DOMAIN r.status \subseteq {<<r.ask.status>>}
  /\ \A v \in DOMAIN r.tags : r.tags[v] <= Cardinality({h \in hits : v \in ValuesOf(h.doc, "tags")})
  /\ r.ask.cap # 0 => Cardinality(DOMAIN r.tags) <= r.ask.cap
  /\ r.ask.cap = 0 \/ Cardinality(tags) <= r.ask.cap => DOMAIN r.tags = tags /\ Counts(r.tags, "tags", hits)
  /\ Cardinality(r.scope) = 1 => Counts(r.tags, "tags", hits)

\* what a page says, a plain query finds, short of fields some schema keeps for
\* itself and of an alias beside the field it stands for
EverythingIsFound(w, p, d) ==
  LET aliases == AliasesOf(w, TypeOf(p))
      fields == IndexFields(w)
      name(f) == IF f \in DOMAIN aliases THEN aliases[f] ELSE f IN
  \A f \in DOMAIN p.fields :
    (name(f) \in {"title", "summary"} \/ name(f) \notin DOMAIN fields) /\ (name(f) = f \/ name(f) \notin DOMAIN p.fields)
      => \A word \in ToSet(p.fields[f]) : Occurrences(d, word) > 0

\* the windows of a list are a partition of the pages that pass, in order
WindowsAreAPartition(x, o) ==
  \A size \in Windows :
    FlattenSeq([page \in 1..Len(x.docs) + 1 |-> Window(x, o, page, size)]) = InOrder(x, o)

\* A search answers with the best of everything that matches, also when it is
\* merged from several wikis that each cut theirs (search.rs: search_all); its
\* facets count what they say, the types without the filters and the rest
\* with them, exactly so where no wiki dropped a tag before the merge; a
\* page is found by what its frontmatter says whatever field its type keeps it
\* in (index_manager.rs: resolve_fields, index_value); and paging through a
\* list shows each page once.
SearchTellsAll ==
  reply.answered =>
    /\ ResultsAreTheBest(reply) /\ FacetsCount(reply)
    /\ \A k \in DOMAIN library :
         /\ \A i \in DOMAIN library[k].pages : EverythingIsFound(library[k], library[k].pages[i], index[k].docs[i])
         /\ WindowsAreAPartition(index[k], reply.ask)
=============================================================================
