------------------------- MODULE AdrDecisionsProofs -------------------------
(***************************************************************************)
(* Proofs about adroit's decision records (AdrDecisions), for any sessions,*)
(* titles, texts, plans, naming schemes, first corpora and number of calls.*)
(***************************************************************************)
EXTENDS AdrDecisions, FiniteSetTheorems, SequenceTheorems, TLAPS

Slugs == Nat \X Titles
Decisions == [id : Nat, status : Statuses, supersedes : Nat, supersededBy : Nat, review : BOOLEAN, body : Seq(Lines)]
Corpora == {c \in UNION {[D -> Decisions] : D \in SUBSET Slugs} : IsFiniteSet(DOMAIN c)}
Writes == [slug : Slugs, decision : Decisions]
CallStates == [step : {"none", "loading", "writing", "written"}, todo : SUBSET Slugs, corpus : Corpora,
               writes : Seq(Writes), replaces : BOOLEAN, fresh : BOOLEAN]

Types ==
  /\ scheme \in Schemes /\ page \in Corpora /\ listed \subseteq DOMAIN page /\ ids \in Nat
  /\ call \in [Sessions -> CallStates] /\ overlapped \in BOOLEAN /\ died \in BOOLEAN

Bounded(d) == d.id \in 1..ids /\ d.supersedes \in 0..ids /\ d.supersededBy \in 0..ids

(* A supersession is told on both sides, and by ids of listed pages.       *)
Listed(id) == \E t \in listed : page[t].id = id
Linked(d) ==
  /\ (d.supersededBy # 0) = (d.status = "superseded")
  /\ d.supersededBy # 0 => Listed(d.supersededBy)
  /\ d.supersedes # 0 => Listed(d.supersedes)

(* What a write may do to the decision d of a listed page.                 *)
Ages(d, e) ==
  /\ e.id = d.id
  /\ d.status # "proposed" =>
       /\ e.status \in {d.status, "superseded"} \cup (IF d.status = "accepted" THEN {"deprecated"} ELSE {})
       /\ e.body # d.body => \E p \in Plans : e.body = Splice(d.body, p)
KeepsPlan(d, e, replaces) ==
  \/ e.body = d.body
  \/ Extract(d.body) = <<>> /\ ~HasHandWrittenSection(d.body)
  \/ replaces

Rewrites(w, replaces) == Ages(page[w.slug], w.decision) /\ KeepsPlan(page[w.slug], w.decision, replaces)

(* A new page takes a reference that no listed page has, and an id that no *)
(* page has.                                                               *)
Novel(w) ==
  /\ \A t \in listed : Reference(t) # Reference(w.slug)
  /\ \A t \in DOMAIN page : page[t].id # w.decision.id
  /\ scheme = "uuid" => w.slug[1] = w.decision.id

Due(w, replaces) ==
  /\ Linked(w.decision)
  /\ IF w.slug \in listed THEN Rewrites(w, replaces) ELSE Novel(w)

(* What a call knows, for as long as no other has written or ingested: its *)
(* copies are the pages, and its writes are due if none was made too late. *)
Copied(r) ==
  r.fresh /\ r.step = "loading" =>
    r.todo \cup DOMAIN r.corpus = listed /\ \A x \in DOMAIN r.corpus : r.corpus[x] = page[x]
Pending(r) ==
  ~overlapped /\ r.fresh /\ r.step = "writing" =>
    /\ \A i \in 1..Len(r.writes) : Due(r.writes[i], r.replaces)
    /\ \A i, j \in 1..Len(r.writes) : i # j => r.writes[i].slug # r.writes[j].slug
    /\ Len(r.writes) > 1 => \A i \in 1..Len(r.writes) : r.writes[i].slug \in listed

CallOk(r) ==
  /\ r.todo \subseteq listed /\ DOMAIN r.corpus \subseteq listed
  /\ \A x \in DOMAIN r.corpus : Bounded(r.corpus[x])
  /\ \A i \in 1..Len(r.writes) : Bounded(r.writes[i].decision)
  /\ r.step = "writing" => r.writes # <<>>
  /\ Copied(r) /\ Pending(r)

Distinct ==
  \A x, y \in DOMAIN page : x # y => Reference(x) # Reference(y) /\ page[x].id # page[y].id

AdrInv ==
  /\ Types
  /\ \A s \in Sessions : CallOk(call[s])
  /\ \A x \in DOMAIN page : Bounded(page[x])
  /\ ~overlapped =>
       /\ \A x \in DOMAIN page : Linked(page[x])
       /\ scheme = "uuid" => \A x \in DOMAIN page : x[1] = page[x].id
  /\ ~overlapped /\ ~died =>
       Distinct /\ (DOMAIN page = listed \/ \E s \in Sessions : call[s].step = "written")
  /\ ChecksAreClean

-----------------------------------------------------------------------------
(* Finite sets of numbers, and sequences.                                  *)

(* A finite set of numbers has a least and a greatest.                     *)
LEMMA FiniteHaveBounds ==
  ASSUME NEW S \in SUBSET Nat, IsFiniteSet(S), S # {}
  PROVE  (\E m \in S : \A x \in S : x <= m) /\ (\E m \in S : \A x \in S : m <= x)
<1> DEFINE Good(U) == (\E m \in U : \A x \in U : x <= m) /\ (\E m \in U : \A x \in U : m <= x)
           T == {U \in FiniteSubsetsOf(Nat) : U # {} /\ ~Good(U)}
<1>1. SUFFICES ASSUME T # {} PROVE FALSE
  BY DEF FiniteSubsetsOf
<1>2. PICK U \in T : \A V \in T : ~(<<V, U>> \in StrictSubsetOrdering(Nat))
  <2>1. IsWellFoundedOn(StrictSubsetOrdering(Nat), FiniteSubsetsOf(Nat))
    BY FS_StrictSubsetOrderingWellFounded
  <2>2. T \subseteq FiniteSubsetsOf(Nat)
    OBVIOUS
  <2> HIDE DEF T
  <2>3. QED
    BY <1>1, <2>1, <2>2, WFMin
<1>3. U \in SUBSET Nat /\ IsFiniteSet(U) /\ U # {} /\ ~Good(U)
  BY DEF FiniteSubsetsOf
<1>4. PICK a \in U : TRUE
  BY <1>3
<1>5. PICK V : V = U \ {a}
  OBVIOUS
<1>6. V \in FiniteSubsetsOf(Nat) /\ <<V, U>> \in StrictSubsetOrdering(Nat)
  BY <1>3, <1>4, <1>5, FS_RemoveElement DEF FiniteSubsetsOf, StrictSubsetOrdering
<1>7. CASE V = {}
  <2>1. U = {a} /\ a \in Nat
    BY <1>3, <1>4, <1>5, <1>7
  <2>2. QED
    BY <1>3, <2>1
<1>8. CASE V # {}
  <2>1. Good(V)
    BY <1>2, <1>6, <1>8
  <2>2. PICK m \in V : \A x \in V : x <= m
    BY <2>1
  <2>3. PICK n \in V : \A x \in V : n <= x
    BY <2>1
  <2>4. U = V \cup {a} /\ V \subseteq Nat /\ a \in Nat
    BY <1>3, <1>4, <1>5
  <2>5. \E k \in U : \A x \in U : x <= k
    <3>1. CASE a <= m
      BY <2>2, <2>4, <3>1
    <3>2. CASE m <= a
      BY <2>2, <2>4, <3>2
    <3>3. QED
      BY <2>2, <2>4, <3>1, <3>2
  <2>6. \E k \in U : \A x \in U : k <= x
    <3>1. CASE n <= a
      BY <2>3, <2>4, <3>1
    <3>2. CASE a <= n
      BY <2>3, <2>4, <3>2
    <3>3. QED
      BY <2>3, <2>4, <3>1, <3>2
  <2>7. QED
    BY <1>3, <2>5, <2>6
<1>9. QED
  BY <1>7, <1>8

LEMMA MaxIs ==
  ASSUME NEW S \in SUBSET Nat, IsFiniteSet(S), S # {}
  PROVE  Max(S) \in S /\ \A x \in S : x <= Max(S)
<1>1. \E m \in S : \A x \in S : m >= x
  BY FiniteHaveBounds
<1>2. QED
  BY <1>1 DEF Max

LEMMA MinIs ==
  ASSUME NEW S \in SUBSET Nat, IsFiniteSet(S), S # {}
  PROVE  Min(S) \in S /\ \A x \in S : Min(S) <= x
<1>1. \E m \in S : \A x \in S : m <= x
  BY FiniteHaveBounds
<1>2. QED
  BY <1>1 DEF Min

LEMMA FirstFromIs ==
  ASSUME NEW body \in Seq(Lines), NEW i \in Nat \ {0}, NEW lines
  PROVE  FirstFrom(body, i, lines) \in i..Len(body) \/ FirstFrom(body, i, lines) = Len(body) + 1
<1> DEFINE found == {j \in i..Len(body) : body[j] \in lines}
<1>1. CASE found = {}
  BY <1>1 DEF FirstFrom
<1>2. CASE found # {}
  <2>1. found \in SUBSET Nat /\ IsFiniteSet(found)
    <3>1. Len(body) \in Nat /\ IsFiniteSet(i..Len(body))
      BY FS_Interval
    <3>2. QED
      BY <3>1, FS_Subset
  <2>2. \E j \in found : \A k \in found : j <= k
    BY <1>2, <2>1, FiniteHaveBounds
  <2>3. FirstFrom(body, i, lines) = CHOOSE j \in found : \A k \in found : j <= k
    BY <1>2 DEF FirstFrom
  <2>4. QED
    BY <2>2, <2>3
<1>3. QED
  BY <1>1, <1>2

LEMMA PartIs ==
  ASSUME NEW body \in Seq(Lines), NEW m \in Nat \ {0}, NEW n \in Int, n <= Len(body)
  PROVE  SubSeq(body, m, n) \in Seq(Lines)
<1>1. \A i \in m..n : body[i] \in Lines
  BY ElementOfSeq
<1>2. QED
  BY <1>1, SubSeqProperties

(* A splice into lines gives lines.                                        *)
LEMMA SpliceIs ==
  ASSUME NEW body \in Seq(Lines), NEW plan \in Seq(Lines)
  PROVE  Splice(body, plan) \in Seq(Lines)
<1> DEFINE Put(start, end) == SubSeq(body, 1, start - 1) \o Section(plan) \o SubSeq(body, end, Len(body))
           first == FirstFrom(body, 1, {Implementation})
<1>1. Section(plan) \in Seq(Lines)
  <2>1. Implementation \in Lines /\ Marker \in Lines /\ EndMarker \in Lines
    BY TextsAreLines DEF Headings, Markers
  <2>2. ASSUME NEW X, NEW a \in X, NEW b \in X, NEW c \in X
        PROVE  <<a, b>> \in Seq(X) /\ <<c>> \in Seq(X)
    OBVIOUS
  <2>3. <<Implementation, Marker>> \in Seq(Lines) /\ <<EndMarker>> \in Seq(Lines)
    BY <2>1, <2>2
  <2>4. QED
    BY <2>3, ConcatProperties DEF Section
<1>2. ASSUME NEW start \in Nat \ {0}, NEW end \in Nat \ {0}, start <= Len(body) + 1
      PROVE  Put(start, end) \in Seq(Lines)
  <2>1. Len(body) \in Nat /\ start - 1 \in Int /\ start - 1 <= Len(body)
    BY <1>2, LenProperties
  <2>2. SubSeq(body, 1, start - 1) \in Seq(Lines) /\ SubSeq(body, end, Len(body)) \in Seq(Lines)
    BY <2>1, PartIs
  <2>3. QED
    BY <1>1, <2>2, ConcatProperties
<1>3. Len(body) \in Nat
  BY LenProperties
<1>4. CASE Marked(body)
  <2>1. BeginOf(body) \in 1..Len(body)
    BY <1>3, <1>4, FirstFromIs DEF BeginOf, Marked
  <2>2. SpanStart(body) \in Nat \ {0} /\ SpanStart(body) <= Len(body) + 1
    BY <1>3, <2>1 DEF SpanStart
  <2>3. ContentEnd(body) \in Nat \ {0}
    <3>1. FirstFrom(body, BeginOf(body) + 1, {EndMarker}) \in Nat \ {0} /\ FirstFrom(body, BeginOf(body) + 1, Headings) \in Nat \ {0}
      BY <1>3, <2>1, FirstFromIs
    <3>2. QED
      BY <3>1 DEF ContentEnd
  <2>4. SpanEnd(body) \in Nat \ {0}
    BY <2>3 DEF SpanEnd
  <2>5. QED
    BY <1>2, <1>4, <2>2, <2>4 DEF Splice
<1>5. CASE ~Marked(body) /\ first <= Len(body) /\ Replaceable(Under(body, first))
  <2>1. first \in Nat \ {0} /\ first <= Len(body) + 1 /\ first \in 1..Len(body)
    BY <1>3, <1>5, FirstFromIs
  <2>2. FirstFrom(body, first + 1, Headings) \in Nat \ {0}
    BY <1>3, <2>1, FirstFromIs
  <2>3. QED
    BY <1>2, <1>5, <2>1, <2>2 DEF Splice
<1>6. CASE ~Marked(body) /\ ~(first <= Len(body) /\ Replaceable(Under(body, first)))
  BY <1>1, <1>6, ConcatProperties DEF Splice
<1>7. QED
  BY <1>4, <1>5, <1>6

-----------------------------------------------------------------------------
(* Corpora, and the names of new pages.                                    *)

LEMMA InCorpora ==
  ASSUME NEW c \in Corpora
  PROVE  /\ DOMAIN c \subseteq Slugs /\ IsFiniteSet(DOMAIN c)
         /\ \A x \in DOMAIN c : c[x] \in Decisions
BY DEF Corpora

LEMMA NoPagesAre == NoPages \in Corpora /\ DOMAIN NoPages = {}
<1>1. DOMAIN NoPages = {} /\ NoPages \in [{} -> Decisions] /\ IsFiniteSet({})
  BY FS_EmptySet DEF NoPages
<1>2. QED
  BY <1>1 DEF Corpora

(* A corpus with one page more, or written anew, is a corpus.              *)
LEMMA UpdatedIs ==
  ASSUME NEW c \in Corpora, NEW x \in Slugs, NEW d \in Decisions
  PROVE  [y \in DOMAIN c \cup {x} |-> IF y = x THEN d ELSE c[y]] \in Corpora
<1> DEFINE D == DOMAIN c \cup {x}
           e == [y \in D |-> IF y = x THEN d ELSE c[y]]
<1>1. D \in SUBSET Slugs /\ IsFiniteSet(D)
  BY InCorpora, FS_AddElement
<1>2. e \in [D -> Decisions] /\ DOMAIN e = D
  BY InCorpora
<1> HIDE DEF D, e
<1>3. e \in Corpora
  BY <1>1, <1>2 DEF Corpora
<1>4. QED
  BY <1>3 DEF D, e

(* NamingScheme::assign gives a number: one that no slug of the corpus has *)
(* under the sequential scheme, and the page's own id under uuid.          *)
LEMMA AssignIs ==
  ASSUME scheme \in {"sequential", "date", "uuid"}, NEW c \in Corpora, NEW title \in Titles, NEW id \in Nat
  PROVE  /\ Assign(c, title, id) \in Nat
         /\ scheme = "sequential" => \A x \in DOMAIN c : x[1] # Assign(c, title, id)
         /\ scheme = "uuid" => Assign(c, title, id) = id
<1> DEFINE D == DOMAIN c
<1>1. D \subseteq Slugs /\ IsFiniteSet(D)
  BY InCorpora
<1>2. CASE scheme = "sequential"
  <2> DEFINE N == {s[1] : s \in D}
             f == [s \in D |-> s[1]]
  <2>1. f \in Surjection(D, N)
    BY DEF Surjection
  <2>2. IsFiniteSet(N)
    BY <1>1, <2>1, FS_Surjection
  <2>3. N \subseteq Nat
    BY <1>1 DEF Slugs
  <2>4. IsFiniteSet(N \cup {0}) /\ N \cup {0} \in SUBSET Nat /\ N \cup {0} # {}
    <3> HIDE DEF N
    <3>1. QED
      BY <2>2, <2>3, FS_AddElement
  <2>5. Max(N \cup {0}) \in Nat /\ \A n \in N : n <= Max(N \cup {0})
    <3> HIDE DEF N
    <3>1. QED
      BY <2>4, MaxIs
  <2>6. Assign(c, title, id) = Max(N \cup {0}) + 1
    BY <1>2 DEF Assign
  <2>7. \A x \in D : x[1] \in N
    OBVIOUS
  <2> HIDE DEF N
  <2>8. \A k \in N : k < Max(N \cup {0}) + 1
    BY <2>3, <2>5
  <2>9. \A x \in D : x[1] # Assign(c, title, id)
    <3>1. SUFFICES ASSUME NEW x \in D PROVE x[1] # Assign(c, title, id)
      OBVIOUS
    <3>2. x[1] \in N /\ x[1] \in Nat /\ Max(N \cup {0}) \in Nat
      BY <2>3, <2>5, <2>7
    <3>3. x[1] < Max(N \cup {0}) + 1
      BY <2>8, <3>2
    <3>4. QED
      BY <2>6, <3>2, <3>3
  <2>10. Assign(c, title, id) \in Nat
    BY <2>5, <2>6
  <2>11. QED
    BY <1>2, <2>9, <2>10
<1>3. CASE scheme = "date"
  <2> DEFINE n == Cardinality(D)
             F == {k \in 1..(n + 1) : <<k, title>> \notin D}
  <2>1. n \in Nat
    BY <1>1, FS_CardinalityType
  <2>2. F # {}
    <3>1. SUFFICES ASSUME F = {} PROVE FALSE
      OBVIOUS
    <3> DEFINE f == [k \in 1..(n + 1) |-> <<k, title>>]
    <3>2. f \in [1..(n + 1) -> D]
      BY <3>1
    <3>3. IsFiniteSet(1..(n + 1)) /\ Cardinality(1..(n + 1)) = n + 1
      BY <2>1, FS_Interval
    <3>4. Cardinality(D) < Cardinality(1..(n + 1))
      BY <2>1, <3>3
    <3>5. \E x, y \in 1..(n + 1) : x # y /\ f[x] = f[y]
      <4> HIDE DEF f, n
      <4>1. QED
        BY <1>1, <3>2, <3>3, <3>4, FS_PigeonHole
    <3>6. QED
      BY <3>5
  <2>3. F \in SUBSET Nat /\ IsFiniteSet(F)
    <3>1. IsFiniteSet(1..(n + 1))
      BY <2>1, FS_Interval
    <3>2. F \in SUBSET (1..(n + 1))
      OBVIOUS
    <3> HIDE DEF F
    <3>3. IsFiniteSet(F)
      BY <3>1, <3>2, FS_Subset
    <3>4. F \in SUBSET Nat
      BY <2>1, <3>2
    <3>5. QED
      BY <3>3, <3>4
  <2>4. Assign(c, title, id) = Min(F)
    BY <1>3 DEF Assign
  <2>5. Min(F) \in F
    <3> HIDE DEF F
    <3>1. QED
      BY <2>2, <2>3, MinIs
  <2> HIDE DEF F
  <2>6. QED
    BY <1>3, <2>3, <2>4, <2>5
<1>4. CASE scheme = "uuid"
  BY <1>4 DEF Assign
<1>5. QED
  BY <1>2, <1>3, <1>4

-----------------------------------------------------------------------------
(* What carries over from one step to the next.                            *)

LEMMA BoundsGrow ==
  ASSUME NEW d \in Decisions, Bounded(d), ids \in Nat, ids' \in Nat, ids <= ids'
  PROVE  Bounded(d)'
BY DEF Bounded, Decisions

LEMMA StatesAre ==
  ASSUME NEW r \in CallStates
  PROVE  /\ r.step \in {"none", "loading", "writing", "written"} /\ r.todo \subseteq Slugs
         /\ r.corpus \in Corpora /\ \A x \in DOMAIN r.corpus : r.corpus[x] \in Decisions
         /\ r.writes \in Seq(Writes) /\ Len(r.writes) \in Nat
         /\ \A i \in 1..Len(r.writes) : r.writes[i] \in Writes /\ r.writes[i].decision \in Decisions
         /\ r.replaces \in BOOLEAN /\ r.fresh \in BOOLEAN
<1>1. r.corpus \in Corpora /\ r.writes \in Seq(Writes)
  BY DEF CallStates
<1>2. \A i \in 1..Len(r.writes) : r.writes[i] \in Writes
  BY <1>1, ElementOfSeq
<1>3. \A i \in 1..Len(r.writes) : r.writes[i].decision \in Decisions
  BY <1>2 DEF Writes
<1>4. QED
  BY <1>1, <1>2, <1>3, InCorpora, LenProperties DEF CallStates

(* The parts of CallOk that other calls can only make easier.              *)
Held(r) ==
  /\ r.todo \subseteq listed /\ DOMAIN r.corpus \subseteq listed
  /\ \A x \in DOMAIN r.corpus : Bounded(r.corpus[x])
  /\ \A i \in 1..Len(r.writes) : Bounded(r.writes[i].decision)
  /\ r.step = "writing" => r.writes # <<>>

LEMMA HeldStays ==
  ASSUME NEW r \in CallStates, Held(r), listed \subseteq listed', ids \in Nat, ids' \in Nat, ids <= ids'
  PROVE  Held(r)'
<1>1. \A x \in DOMAIN r.corpus : Bounded(r.corpus[x])'
  BY StatesAre, BoundsGrow DEF Held
<1>2. \A i \in 1..Len(r.writes) : Bounded(r.writes[i].decision)'
  BY StatesAre, BoundsGrow DEF Held
<1>3. QED
  BY <1>1, <1>2 DEF Held

LEMMA OkIsHeld == \A r : CallOk(r) <=> Held(r) /\ Copied(r) /\ Pending(r)
BY DEF CallOk, Held

LEMMA DueStays ==
  ASSUME NEW w, NEW replaces, UNCHANGED <<scheme, page, listed>>
  PROVE  Due(w, replaces)' <=> Due(w, replaces)
<1>1. Linked(w.decision)' <=> Linked(w.decision)
  BY DEF Linked, Listed
<1>2. Rewrites(w, replaces)' <=> Rewrites(w, replaces)
  BY DEF Rewrites, Ages, KeepsPlan
<1>3. Novel(w)' <=> Novel(w)
  BY DEF Novel, Reference
<1>4. QED
  BY <1>1, <1>2, <1>3 DEF Due

(* While no page changes and nothing new is listed, a call stays as it is. *)
LEMMA OkStays ==
  ASSUME NEW r \in CallStates, CallOk(r), UNCHANGED <<scheme, page, listed, overlapped>>,
         ids \in Nat, ids' \in Nat, ids <= ids'
  PROVE  CallOk(r)'
<1>1. Held(r)'
  BY HeldStays, OkIsHeld
<1>2. Copied(r)'
  BY DEF Copied, CallOk
<1>3. Pending(r)'
  <2>1. Pending(r)
    BY DEF CallOk
  <2>2. \A i \in 1..Len(r.writes) : Due(r.writes[i], r.replaces)' <=> Due(r.writes[i], r.replaces)
    BY DueStays
  <2>3. QED
    BY <2>1, <2>2 DEF Pending
<1>4. CallOk(r)'
  BY <1>1, <1>2, <1>3 DEF CallOk, Held
<1>5. QED
  BY <1>4

(* A call whose copies went stale still asks for listed pages.             *)
LEMMA StaleIsOk ==
  ASSUME NEW r \in CallStates, Held(r), listed \subseteq listed', ids \in Nat, ids' = ids,
         NEW q, q.todo = r.todo, q.corpus = r.corpus, q.writes = r.writes, q.step = r.step,
         ~q.fresh \/ q.step = "none"
  PROVE  CallOk(q)'
<1>1. Held(r)'
  BY HeldStays
<1>2. CallOk(q)'
  BY <1>1 DEF CallOk, Held, Copied, Pending
<1>3. QED
  BY <1>2

(* A step of one call that leaves the pages, the listing and the others.   *)
LEMMA CallMoves ==
  ASSUME AdrInv, NEW s \in Sessions, NEW r \in CallStates, call' = [call EXCEPT ![s] = r],
         UNCHANGED <<scheme, page, listed, overlapped>>, ids' \in Nat, ids <= ids', CallOk(r)',
         died' \in BOOLEAN, died => died', call[s].step = "written" => died', ChecksAreClean'
  PROVE  AdrInv'
<1>1. Types /\ ids \in Nat
  BY DEF AdrInv, Types
<1>2. Types'
  BY <1>1 DEF Types
<1>3. \A t \in Sessions : CallOk(call[t])'
  <2>1. SUFFICES ASSUME NEW t \in Sessions PROVE CallOk(call[t])'
    OBVIOUS
  <2>2. CASE t = s
    <3>1. call'[t] = r
      BY <1>1, <2>2 DEF Types
    <3>2. QED
      BY <3>1 DEF CallOk, Copied, Pending
  <2>3. CASE t # s
    <3>1. PICK q : q = call[t]
      OBVIOUS
    <3>2. q \in CallStates /\ CallOk(q) /\ call'[t] = q
      BY <1>1, <2>3, <3>1 DEF AdrInv, Types
    <3>3. CallOk(q)'
      BY <1>1, <3>2, OkStays
    <3>4. QED
      BY <3>2, <3>3 DEF CallOk, Copied, Pending
  <2>4. QED
    BY <2>2, <2>3
<1>4. \A x \in DOMAIN page : Bounded(page[x])'
  <2>1. SUFFICES ASSUME NEW x \in DOMAIN page PROVE Bounded(page[x])'
    OBVIOUS
  <2>2. page[x] \in Decisions /\ Bounded(page[x])
    BY <1>1, InCorpora DEF AdrInv, Types
  <2>3. QED
    BY <1>1, <2>2 DEF Bounded, Decisions
<1>5. (~overlapped => /\ \A x \in DOMAIN page : Linked(page[x])
                      /\ scheme = "uuid" => \A x \in DOMAIN page : x[1] = page[x].id)'
  BY DEF AdrInv, Linked, Listed
<1>6. (~overlapped /\ ~died =>
         Distinct /\ (DOMAIN page = listed \/ \E t \in Sessions : call[t].step = "written"))'
  <2>1. SUFFICES ASSUME ~overlapped, ~died'
        PROVE  Distinct' /\ (DOMAIN page = listed \/ \E t \in Sessions : call'[t].step = "written")
    OBVIOUS
  <2>2. Distinct /\ (DOMAIN page = listed \/ \E t \in Sessions : call[t].step = "written")
    BY <2>1 DEF AdrInv
  <2>3. Distinct'
    BY <2>2 DEF Distinct, Reference
  <2>4. \A t \in Sessions : call[t].step = "written" => call'[t] = call[t]
    BY <1>1, <2>1 DEF Types
  <2>5. QED
    BY <2>2, <2>3, <2>4
<1>7. QED
  BY <1>2, <1>3, <1>4, <1>5, <1>6 DEF AdrInv

-----------------------------------------------------------------------------
(* The beginning, and the steps that read.                                 *)

LEMMA IdleIsOk == Idle \in CallStates /\ CallOk(Idle)
<1>1. Idle \in CallStates /\ DOMAIN Idle.corpus = {} /\ Idle.todo = {} /\ Idle.writes = <<>> /\ Idle.step = "none"
  BY NoPagesAre DEF Idle, CallStates
<1> HIDE DEF Idle
<1>2. QED
  BY <1>1 DEF CallOk, Copied, Pending

LEMMA IdleIsOkAfter == CallOk(Idle)'
BY IdleIsOk, PTL

LEMMA InitHolds == Init => AdrInv
<1>1. SUFFICES ASSUME Init PROVE AdrInv
  OBVIOUS
<1> DEFINE D == DOMAIN page
           N == Cardinality(D)
<1>2. /\ IsFiniteSet(D) /\ page = [x \in D |-> page[x]] /\ D \subseteq Nat \X Titles
      /\ \A x \in D :
           /\ page[x] \in [id : 1..N, status : Statuses, supersedes : 0..N,
                           supersededBy : 0..N, review : BOOLEAN, body : Seq(Lines)]
           /\ ~BrokenLink(page, page[x]) /\ ("uuid" \in Schemes => x[1] = page[x].id)
      /\ ~Repeated(page, LAMBDA s : s[1]) /\ ~Repeated(page, LAMBDA s : page[s].id)
  BY <1>1, StartsAreClean DEF Init
<1>3. N \in Nat /\ ids = N /\ listed = D /\ ids \in Nat
  BY <1>1, <1>2, FS_CardinalityType DEF Init
<1>4. \A x \in D : page[x] \in Decisions /\ Bounded(page[x])
  BY <1>2, <1>3 DEF Decisions, Bounded
<1>5. page \in Corpora
  <2>1. page \in [D -> Decisions]
    BY <1>2, <1>4
  <2>2. QED
    BY <1>2, <2>1 DEF Corpora, Slugs
<1>6. Types
  BY <1>1, <1>3, <1>5, IdleIsOk DEF Init, Types
<1>7. \A s \in Sessions : CallOk(call[s])
  BY <1>1, IdleIsOk DEF Init
<1>8. \A x \in D : Linked(page[x])
  <2>1. SUFFICES ASSUME NEW x \in D PROVE Linked(page[x])
    OBVIOUS
  <2>2. ~BrokenLink(page, page[x])
    BY <1>2
  <2>3. QED
    BY <1>3, <2>2 DEF BrokenLink, Resolves, Linked, Listed
<1>9. scheme = "uuid" => \A x \in D : x[1] = page[x].id
  BY <1>1, <1>2 DEF Init
<1>10. Distinct
  <2>1. \A x, y \in D : x # y => x[1] # y[1] /\ page[x].id # page[y].id
    BY <1>2 DEF Repeated
  <2>2. QED
    BY <2>1 DEF Distinct, Reference
<1>11. ChecksAreClean
  BY <1>1 DEF Init, ChecksAreClean
<1>12. QED
  BY <1>3, <1>4, <1>6, <1>7, <1>8, <1>9, <1>10, <1>11 DEF AdrInv

LEMMA BeginKeeps == ASSUME AdrInv, NEW s \in Sessions, Begin(s) PROVE AdrInv'
<1>1. PICK r : r = [Idle EXCEPT !.step = "loading", !.todo = listed]
  OBVIOUS
<1>2. call' = [call EXCEPT ![s] = r] /\ UNCHANGED <<scheme, page, listed, ids, reported, overlapped, died>> /\ call[s].step = "none"
  BY <1>1 DEF Begin, Goto
<1>3. Types /\ ids \in Nat /\ died \in BOOLEAN /\ listed \subseteq Slugs /\ ChecksAreClean
  BY InCorpora DEF AdrInv, Types
<1>4. /\ r.step = "loading" /\ r.todo = listed /\ r.corpus = NoPages /\ r.writes = <<>> /\ r.fresh = TRUE
      /\ r \in CallStates
  <2>1. Idle \in CallStates
    BY IdleIsOk
  <2>2. r \in CallStates
    BY <1>1, <1>3, <2>1 DEF CallStates
  <2>3. QED
    BY <1>1, <2>2 DEF Idle
<1>5. CallOk(r)'
  BY <1>2, <1>4, NoPagesAre DEF CallOk, Copied, Pending
<1>6. ChecksAreClean'
  BY <1>2, <1>3 DEF ChecksAreClean
<1>7. ids' \in Nat /\ ids <= ids' /\ died' \in BOOLEAN /\ (died => died') /\ call[s].step # "written"
  BY <1>2, <1>3
<1>8. QED
  BY <1>2, <1>4, <1>5, <1>6, <1>7, CallMoves

LEMMA CallsAre ==
  ASSUME AdrInv, NEW s \in Sessions
  PROVE  /\ call[s] \in CallStates /\ CallOk(call[s]) /\ ids \in Nat /\ died \in BOOLEAN /\ overlapped \in BOOLEAN
         /\ ChecksAreClean /\ listed \subseteq DOMAIN page /\ page \in Corpora
         /\ scheme \in {"sequential", "date", "uuid"}
         /\ \A x \in DOMAIN page : Bounded(page[x]) /\ page[x] \in Decisions /\ x \in Slugs
BY InCorpora, SchemesAreKnown DEF AdrInv, Types

LEMMA ReadPageKeeps == ASSUME AdrInv, NEW s \in Sessions, ReadPage(s) PROVE AdrInv'
<1>1. PICK slug \in call[s].todo :
        call' = [call EXCEPT ![s] = [call[s] EXCEPT !.todo = @ \ {slug},
                   !.corpus = [x \in DOMAIN @ \cup {slug} |-> IF x = slug THEN page[slug] ELSE @[x]]]]
  BY DEF ReadPage, Goto
<1>2. UNCHANGED <<scheme, page, listed, ids, reported, overlapped, died>> /\ call[s].step = "loading"
  BY DEF ReadPage
<1>3. PICK q : q = call[s]
  OBVIOUS
<1>4. q \in CallStates /\ CallOk(q) /\ q.corpus \in Corpora /\ q.step = "loading" /\ slug \in q.todo /\ q.todo \subseteq Slugs
  BY <1>1, <1>2, <1>3, CallsAre, StatesAre
<1>5. PICK d : d = page[slug]
  OBVIOUS
<1>6. slug \in listed /\ slug \in Slugs /\ d \in Decisions /\ Bounded(d)
  BY <1>4, <1>5, CallsAre DEF CallOk
<1>7. PICK c : c = [x \in DOMAIN q.corpus \cup {slug} |-> IF x = slug THEN d ELSE q.corpus[x]]
  OBVIOUS
<1>8. c \in Corpora /\ DOMAIN c = DOMAIN q.corpus \cup {slug} /\ \A x \in DOMAIN c : c[x] = IF x = slug THEN d ELSE q.corpus[x]
  BY <1>4, <1>6, <1>7, UpdatedIs
<1>9. PICK r : r = [q EXCEPT !.todo = @ \ {slug}, !.corpus = c]
  OBVIOUS
<1>10. call' = [call EXCEPT ![s] = r]
  BY <1>1, <1>3, <1>5, <1>7, <1>9
<1>11. /\ r \in CallStates /\ r.step = "loading" /\ r.todo = q.todo \ {slug} /\ r.corpus = c
       /\ r.writes = q.writes /\ r.fresh = q.fresh
  BY <1>4, <1>8, <1>9 DEF CallStates
<1>12. CallOk(r)
  <2>1. Held(r)
    BY <1>4, <1>6, <1>8, <1>11 DEF CallOk, Held
  <2>2. Copied(r)
    <3>1. SUFFICES ASSUME r.fresh
          PROVE  r.todo \cup DOMAIN r.corpus = listed /\ \A x \in DOMAIN r.corpus : r.corpus[x] = page[x]
      BY DEF Copied
    <3>2. q.todo \cup DOMAIN q.corpus = listed /\ \A x \in DOMAIN q.corpus : q.corpus[x] = page[x]
      BY <1>4, <1>11, <3>1 DEF CallOk, Copied
    <3>3. QED
      BY <1>4, <1>5, <1>8, <1>11, <3>2
  <2>3. Pending(r)
    BY <1>11 DEF Pending
  <2>4. QED
    BY <2>1, <2>2, <2>3, OkIsHeld
<1>13. ids \in Nat /\ ids' \in Nat /\ ids <= ids' /\ died \in BOOLEAN /\ ChecksAreClean
  BY <1>2, CallsAre
<1>14. CallOk(r)'
  BY <1>2, <1>11, <1>12, <1>13, OkStays
<1>15. ChecksAreClean'
  BY <1>2, <1>13 DEF ChecksAreClean
<1>16. QED
  BY <1>2, <1>10, <1>11, <1>13, <1>14, <1>15, CallMoves

(* A call that ends leaves nothing, but its death may leave a page         *)
(* unlisted.                                                               *)
LEMMA LeaveKeeps ==
  ASSUME AdrInv, NEW s \in Sessions, Goto(s, Idle), UNCHANGED <<scheme, page, listed, ids, overlapped>>,
         died' \in BOOLEAN, died => died', call[s].step = "written" => died', ChecksAreClean'
  PROVE  AdrInv'
<1>1. ids \in Nat /\ ids' \in Nat /\ ids <= ids'
  BY CallsAre
<1>2. QED
  BY <1>1, IdleIsOk, IdleIsOkAfter, CallMoves DEF Goto

LEMMA AnswerKeeps == ASSUME AdrInv, NEW s \in Sessions, Answer(s) PROVE AdrInv'
BY CallsAre, LeaveKeeps DEF Answer, Loaded, ChecksAreClean

LEMMA DieKeeps == ASSUME AdrInv, NEW s \in Sessions, Die(s) PROVE AdrInv'
<1>1. died' \in BOOLEAN /\ (died => died') /\ (call[s].step = "written" => died')
  BY CallsAre DEF Die
<1>2. ChecksAreClean'
  BY <1>1, CallsAre DEF Die, ChecksAreClean
<1>3. QED
  BY <1>1, <1>2, LeaveKeeps DEF Die

(* What a loaded call has read, when nobody wrote under it.                *)
LEMMA LoadedIs ==
  ASSUME AdrInv, NEW s \in Sessions, Loaded(s), call[s].fresh
  PROVE  DOMAIN call[s].corpus = listed /\ \A x \in listed : call[s].corpus[x] = page[x]
BY CallsAre DEF Loaded, CallOk, Copied

LEMMA CheckKeeps == ASSUME AdrInv, NEW s \in Sessions, Check(s) PROVE AdrInv'
<1>1. Loaded(s) /\ Goto(s, Idle) /\ UNCHANGED <<scheme, page, listed, ids, overlapped, died>>
  BY DEF Check
<1>2. PICK c : c = call[s].corpus
  OBVIOUS
<1>3. reported' = reported \cup (IF call[s].fresh THEN CheckErrors(c) ELSE {})
  BY <1>2 DEF Check
<1>4. ASSUME call[s].fresh, ~overlapped PROVE "links" \notin CheckErrors(c)
  <2>1. DOMAIN c = listed /\ \A x \in listed : c[x] = page[x]
    BY <1>1, <1>2, <1>4, LoadedIs
  <2>2. \A x \in DOMAIN c : ~BrokenLink(c, c[x])
    <3>1. SUFFICES ASSUME NEW x \in DOMAIN c PROVE ~BrokenLink(c, c[x])
      OBVIOUS
    <3>2. Linked(c[x])
      BY <1>4, <2>1, CallsAre DEF AdrInv
    <3>3. \A id : Listed(id) <=> Resolves(c, id)
      BY <2>1 DEF Listed, Resolves
    <3>4. QED
      BY <3>2, <3>3 DEF Linked, BrokenLink
  <2>3. QED
    BY <2>2 DEF CheckErrors
<1>5. ASSUME call[s].fresh, ~overlapped, ~died PROVE "identity" \notin CheckErrors(c)
  <2>1. DOMAIN c = listed /\ \A x \in listed : c[x] = page[x]
    BY <1>1, <1>2, <1>5, LoadedIs
  <2>2. \A x, y \in DOMAIN c : x # y => Reference(x) # Reference(y) /\ c[x].id # c[y].id
    BY <1>5, <2>1, CallsAre DEF AdrInv, Distinct
  <2>3. ~Repeated(c, Reference) /\ ~Repeated(c, LAMBDA t : c[t].id)
    BY <2>2 DEF Repeated
  <2>4. QED
    BY <2>3 DEF CheckErrors
<1>6. ChecksAreClean'
  BY <1>1, <1>3, <1>4, <1>5, CallsAre DEF ChecksAreClean
<1>7. call[s].step # "written" /\ died' \in BOOLEAN
  BY <1>1, CallsAre DEF Loaded
<1>8. QED
  BY <1>1, <1>6, <1>7, LeaveKeeps

-----------------------------------------------------------------------------
(* The steps that plan a write.                                            *)

LEMMA PlanMoves ==
  ASSUME AdrInv, NEW s \in Sessions, Loaded(s), NEW ws \in Seq(Writes), ws # <<>>, NEW b \in BOOLEAN,
         Plan(s, ws, b), UNCHANGED <<scheme, page, listed, reported, overlapped, died>>,
         ids' \in Nat, ids <= ids', \A i \in 1..Len(ws) : Bounded(ws[i].decision)',
         ~overlapped /\ call[s].fresh =>
           /\ \A i \in 1..Len(ws) : Due(ws[i], b)
           /\ \A i, j \in 1..Len(ws) : i # j => ws[i].slug # ws[j].slug
           /\ Len(ws) > 1 => \A i \in 1..Len(ws) : ws[i].slug \in listed
  PROVE  AdrInv'
<1>1. PICK q : q = call[s]
  OBVIOUS
<1>2. PICK r : r = [q EXCEPT !.step = "writing", !.writes = ws, !.replaces = b]
  OBVIOUS
<1>3. q \in CallStates /\ CallOk(q) /\ q.step = "loading" /\ ids \in Nat /\ died \in BOOLEAN /\ ChecksAreClean
  BY <1>1, CallsAre DEF Loaded
<1>4. /\ r \in CallStates /\ r.step = "writing" /\ r.todo = q.todo /\ r.corpus = q.corpus
      /\ r.writes = ws /\ r.fresh = q.fresh /\ r.replaces = b
  BY <1>2, <1>3 DEF CallStates
<1>5. call' = [call EXCEPT ![s] = r]
  BY <1>1, <1>2 DEF Plan, Goto
<1>6. Held(r)'
  <2>1. Held(q)'
    BY <1>3, HeldStays, OkIsHeld
  <2>2. QED
    BY <1>4, <2>1 DEF Held
<1>7. Copied(r)'
  BY <1>4 DEF Copied
<1>8. Pending(r)'
  <2>1. SUFFICES ASSUME ~overlapped, r.fresh
        PROVE  /\ \A i \in 1..Len(ws) : Due(ws[i], b)'
               /\ \A i, j \in 1..Len(ws) : i # j => ws[i].slug # ws[j].slug
               /\ Len(ws) > 1 => \A i \in 1..Len(ws) : ws[i].slug \in listed
    BY <1>4 DEF Pending
  <2>2. \A i \in 1..Len(ws) : Due(ws[i], b)' <=> Due(ws[i], b)
    BY DueStays
  <2>3. QED
    BY <1>1, <1>4, <2>1, <2>2
<1>9. CallOk(r)'
  BY <1>6, <1>7, <1>8 DEF CallOk, Held
<1>10. ChecksAreClean'
  BY <1>3 DEF ChecksAreClean
<1>11. died' \in BOOLEAN /\ (died => died') /\ call[s].step # "written"
  BY <1>1, <1>3
<1>12. QED
  BY <1>4, <1>5, <1>9, <1>10, <1>11, CallMoves

(* One write of a decision.                                                *)
LEMMA OnePlanMoves ==
  ASSUME AdrInv, NEW s \in Sessions, Loaded(s), NEW x \in Slugs, NEW d \in Decisions, NEW b \in BOOLEAN,
         Plan(s, <<[slug |-> x, decision |-> d]>>, b), UNCHANGED <<scheme, page, listed, reported, overlapped, died>>,
         ids' \in Nat, ids <= ids', Bounded(d)',
         ~overlapped /\ call[s].fresh => Due([slug |-> x, decision |-> d], b)
  PROVE  AdrInv'
<1>1. PICK w : w = [slug |-> x, decision |-> d]
  OBVIOUS
<1>2. w \in Writes /\ w.decision = d
  BY <1>1 DEF Writes
<1>3. PICK ws : ws = <<w>>
  OBVIOUS
<1>4. ws \in Seq(Writes) /\ ws # <<>> /\ Len(ws) = 1 /\ ws[1] = w /\ 1..Len(ws) = {1}
  BY <1>2, <1>3
<1>5. Plan(s, ws, b)
  BY <1>1, <1>3
<1>6. \A i \in 1..Len(ws) : Bounded(ws[i].decision)'
  <2>1. Bounded(w.decision)'
    BY <1>2 DEF Bounded
  <2>2. QED
    BY <1>4, <2>1 DEF Bounded
<1>7. ~overlapped /\ call[s].fresh =>
        /\ \A i \in 1..Len(ws) : Due(ws[i], b)
        /\ \A i, j \in 1..Len(ws) : i # j => ws[i].slug # ws[j].slug
        /\ Len(ws) > 1 => \A i \in 1..Len(ws) : ws[i].slug \in listed
  BY <1>1, <1>4
<1>8. QED
  BY <1>4, <1>5, <1>6, <1>7, PlanMoves

LEMMA NewKeeps == ASSUME AdrInv, NEW s \in Sessions, New(s) PROVE AdrInv'
<1>1. PICK c : c = call[s].corpus
  OBVIOUS
<1>2. PICK title \in Titles, body \in Bodies :
        /\ <<Assign(c, title, ids + 1), title>> \notin DOMAIN c
        /\ Plan(s, <<[slug |-> <<Assign(c, title, ids + 1), title>>, decision |-> Proposed(ids + 1, body)]>>, FALSE)
  BY <1>1 DEF New
<1>3. Loaded(s) /\ ids' = ids + 1 /\ UNCHANGED <<scheme, page, listed, reported, overlapped, died>>
  BY DEF New
<1>4. ids \in Nat /\ c \in Corpora
  BY <1>1, CallsAre, StatesAre
<1>5. PICK n : n = Assign(c, title, ids + 1)
  OBVIOUS
<1>6. /\ n \in Nat
      /\ scheme = "sequential" => \A x \in DOMAIN c : x[1] # n
      /\ scheme = "uuid" => n = ids + 1
  BY <1>4, <1>5, AssignIs, CallsAre
<1>7. PICK x : x = <<n, title>>
  OBVIOUS
<1>8. x \in Slugs /\ x \notin DOMAIN c /\ x[1] = n
  BY <1>2, <1>5, <1>6, <1>7 DEF Slugs
<1>9. PICK d : d = Proposed(ids + 1, body)
  OBVIOUS
<1>10. body \in Seq(Lines)
  BY TextsAreLines
<1>11. /\ d.id = ids + 1 /\ d.status = "proposed" /\ d.supersedes = 0 /\ d.supersededBy = 0
       /\ d \in Decisions
  BY <1>4, <1>9, <1>10 DEF Proposed, Decisions, Statuses
<1>12. Bounded(d)'
  BY <1>3, <1>4, <1>11 DEF Bounded
<1>13. Plan(s, <<[slug |-> x, decision |-> d]>>, FALSE)
  BY <1>2, <1>5, <1>7, <1>9
<1>14. ASSUME ~overlapped, call[s].fresh PROVE Due([slug |-> x, decision |-> d], FALSE)
  <2>1. DOMAIN c = listed /\ listed \subseteq DOMAIN page
    BY <1>1, <1>3, <1>14, LoadedIs, CallsAre
  <2>2. Linked(d)
    BY <1>11 DEF Linked
  <2>3. \A t \in DOMAIN page : page[t].id # d.id
    <3>1. \A t \in DOMAIN page : page[t].id \in 1..ids
      BY CallsAre DEF Bounded
    <3>2. QED
      BY <1>4, <1>11, <3>1
  <2>4. \A t \in listed : Reference(t) # Reference(x)
    <3>1. SUFFICES ASSUME NEW t \in listed PROVE Reference(t) # Reference(x)
      OBVIOUS
    <3>2. t # x
      BY <1>8, <2>1
    <3>3. CASE scheme = "date"
      BY <3>2, <3>3 DEF Reference
    <3>4. CASE scheme = "sequential"
      BY <1>6, <1>8, <2>1, <3>4 DEF Reference
    <3>5. CASE scheme = "uuid"
      <4>1. t[1] = page[t].id /\ t \in DOMAIN page
        BY <1>14, <2>1, <3>5 DEF AdrInv
      <4>2. t[1] # x[1]
        BY <1>6, <1>8, <1>11, <2>3, <3>5, <4>1
      <4>3. QED
        BY <3>5, <4>2 DEF Reference
    <3>6. QED
      BY <3>3, <3>4, <3>5, CallsAre
  <2>5. PICK w : w = [slug |-> x, decision |-> d]
    OBVIOUS
  <2>6. Novel(w)
    BY <1>6, <1>8, <1>11, <2>3, <2>4, <2>5 DEF Novel
  <2>7. w.slug \notin listed /\ Linked(w.decision)
    BY <1>8, <2>1, <2>2, <2>5
  <2>8. Due(w, FALSE)
    BY <2>6, <2>7 DEF Due
  <2>9. QED
    BY <2>5, <2>8
<1>15. ids' \in Nat /\ ids <= ids'
  BY <1>3, <1>4
<1>16. QED
  BY <1>3, <1>8, <1>11, <1>12, <1>13, <1>14, <1>15, OnePlanMoves

(* A verb that rewrites a decision of its corpus, keeping its links.       *)
LEMMA RewriteMoves ==
  ASSUME AdrInv, NEW s \in Sessions, Loaded(s), NEW x \in DOMAIN call[s].corpus, NEW b \in BOOLEAN,
         NEW d, d = call[s].corpus[x], NEW e \in Decisions,
         e.id = d.id, e.supersedes = d.supersedes, e.supersededBy = d.supersededBy,
         (e.status = "superseded") = (d.status = "superseded"), Ages(d, e), KeepsPlan(d, e, b),
         Plan(s, <<[slug |-> x, decision |-> e]>>, b),
         UNCHANGED <<scheme, page, listed, ids, reported, overlapped, died>>
  PROVE  AdrInv'
<1>1. ids \in Nat /\ ids' \in Nat /\ ids <= ids'
  BY CallsAre
<1>2. call[s] \in CallStates /\ CallOk(call[s])
  BY CallsAre
<1>3. x \in Slugs /\ d \in Decisions
  BY <1>2, StatesAre, InCorpora
<1>4. Bounded(d)
  BY <1>2 DEF CallOk
<1>5. Bounded(e)'
  BY <1>4 DEF Bounded
<1>6. ASSUME ~overlapped, call[s].fresh PROVE Due([slug |-> x, decision |-> e], b)
  <2>1. x \in listed /\ x \in DOMAIN page /\ d = page[x]
    BY <1>6, LoadedIs, CallsAre
  <2>2. Linked(d)
    BY <1>6, <2>1 DEF AdrInv
  <2>3. Linked(e)
    BY <2>2 DEF Linked
  <2>4. PICK w : w = [slug |-> x, decision |-> e]
    OBVIOUS
  <2>5. w.slug = x /\ w.decision = e
    BY <2>4
  <2>6. Rewrites(w, b)
    BY <2>1, <2>5 DEF Rewrites
  <2>7. Due(w, b)
    BY <2>1, <2>3, <2>5, <2>6 DEF Due
  <2>8. QED
    BY <2>4, <2>7
<1>7. QED
  BY <1>1, <1>3, <1>5, <1>6, OnePlanMoves

LEMMA InCallCorpus ==
  ASSUME AdrInv, NEW s \in Sessions, NEW x \in DOMAIN call[s].corpus
  PROVE  /\ call[s].corpus[x] \in Decisions /\ Bounded(call[s].corpus[x]) /\ x \in Slugs /\ x \in listed
         /\ call[s].corpus[x].body \in Seq(Lines)
<1>1. call[s] \in CallStates /\ CallOk(call[s])
  BY CallsAre
<1>2. call[s].corpus[x] \in Decisions /\ Bounded(call[s].corpus[x]) /\ x \in Slugs /\ x \in listed
  BY <1>1, StatesAre, InCorpora DEF CallOk
<1>3. QED
  BY <1>2 DEF Decisions

LEMMA EditKeeps == ASSUME AdrInv, NEW s \in Sessions, Edit(s) PROVE AdrInv'
<1>1. PICK body \in Bodies, x \in DOMAIN call[s].corpus :
        /\ call[s].corpus[x].status = "proposed"
        /\ Plan(s, <<[slug |-> x, decision |-> [call[s].corpus[x] EXCEPT !.body = body]]>>, TRUE)
  BY DEF Edit, Rewrite
<1>2. Loaded(s) /\ UNCHANGED <<scheme, page, listed, ids, reported, overlapped, died>>
  BY DEF Edit, Rewrite
<1>3. PICK d : d = call[s].corpus[x]
  OBVIOUS
<1>4. PICK e : e = [d EXCEPT !.body = body]
  OBVIOUS
<1>5. d \in Decisions /\ body \in Seq(Lines)
  BY <1>3, InCallCorpus, TextsAreLines
<1>6. e \in Decisions /\ e.id = d.id /\ e.supersedes = d.supersedes /\ e.supersededBy = d.supersededBy /\ e.status = d.status
  BY <1>4, <1>5 DEF Decisions
<1>7. Ages(d, e) /\ KeepsPlan(d, e, TRUE)
  BY <1>1, <1>3, <1>6 DEF Ages, KeepsPlan
<1>8. Plan(s, <<[slug |-> x, decision |-> e]>>, TRUE)
  BY <1>1, <1>3, <1>4
<1>9. QED
  BY <1>2, <1>3, <1>6, <1>7, <1>8, RewriteMoves

LEMMA SetStatusKeeps == ASSUME AdrInv, NEW s \in Sessions, SetStatus(s) PROVE AdrInv'
<1>1. PICK to \in Statuses, x \in DOMAIN call[s].corpus :
        /\ call[s].corpus[x].status # to /\ CheckTransition(call[s].corpus[x].status, to)
        /\ Plan(s, <<[slug |-> x, decision |-> [call[s].corpus[x] EXCEPT !.status = to]]>>, FALSE)
  BY DEF SetStatus, Rewrite
<1>2. Loaded(s) /\ UNCHANGED <<scheme, page, listed, ids, reported, overlapped, died>>
  BY DEF SetStatus, Rewrite
<1>3. PICK d : d = call[s].corpus[x]
  OBVIOUS
<1>4. PICK e : e = [d EXCEPT !.status = to]
  OBVIOUS
<1>5. d \in Decisions
  BY <1>3, InCallCorpus
<1>6. /\ e \in Decisions /\ e.id = d.id /\ e.supersedes = d.supersedes /\ e.supersededBy = d.supersededBy
      /\ e.status = to /\ e.body = d.body
  BY <1>4, <1>5 DEF Decisions
<1>7. \/ d.status = "proposed" /\ to \in {"accepted", "rejected"}
      \/ d.status = "accepted" /\ to = "deprecated"
  BY <1>1, <1>3 DEF CheckTransition
<1>8. Ages(d, e) /\ KeepsPlan(d, e, FALSE) /\ (e.status = "superseded") = (d.status = "superseded")
  BY <1>6, <1>7 DEF Ages, KeepsPlan
<1>9. Plan(s, <<[slug |-> x, decision |-> e]>>, FALSE)
  BY <1>1, <1>3, <1>4
<1>10. QED
  BY <1>2, <1>3, <1>6, <1>8, <1>9, RewriteMoves

LEMMA SetReviewKeeps == ASSUME AdrInv, NEW s \in Sessions, SetReview(s) PROVE AdrInv'
<1>1. PICK on \in BOOLEAN, x \in DOMAIN call[s].corpus :
        Plan(s, <<[slug |-> x, decision |-> [call[s].corpus[x] EXCEPT !.review = on]]>>, FALSE)
  BY DEF SetReview, Rewrite
<1>2. Loaded(s) /\ UNCHANGED <<scheme, page, listed, ids, reported, overlapped, died>>
  BY DEF SetReview, Rewrite
<1>3. PICK d : d = call[s].corpus[x]
  OBVIOUS
<1>4. PICK e : e = [d EXCEPT !.review = on]
  OBVIOUS
<1>5. d \in Decisions
  BY <1>3, InCallCorpus
<1>6. /\ e \in Decisions /\ e.id = d.id /\ e.supersedes = d.supersedes /\ e.supersededBy = d.supersededBy
      /\ e.status = d.status /\ e.body = d.body
  BY <1>4, <1>5 DEF Decisions
<1>7. Ages(d, e) /\ KeepsPlan(d, e, FALSE)
  BY <1>6 DEF Ages, KeepsPlan
<1>8. Plan(s, <<[slug |-> x, decision |-> e]>>, FALSE)
  BY <1>1, <1>3, <1>4
<1>9. QED
  BY <1>2, <1>3, <1>6, <1>7, <1>8, RewriteMoves

LEMMA SavePlanKeeps == ASSUME AdrInv, NEW s \in Sessions, SavePlan(s) PROVE AdrInv'
<1>1. PICK plan \in Plans, force \in BOOLEAN, x \in DOMAIN call[s].corpus :
        /\ MaySave(call[s].corpus[x], force)
        /\ Plan(s, <<[slug |-> x, decision |-> [call[s].corpus[x] EXCEPT !.body = Splice(@, plan)]]>>, force)
  BY DEF SavePlan, Rewrite
<1>2. Loaded(s) /\ UNCHANGED <<scheme, page, listed, ids, reported, overlapped, died>>
  BY DEF SavePlan, Rewrite
<1>3. PICK d : d = call[s].corpus[x]
  OBVIOUS
<1>4. PICK body : body = Splice(d.body, plan)
  OBVIOUS
<1>5. d \in Decisions /\ d.body \in Seq(Lines) /\ plan \in Seq(Lines)
  BY <1>3, InCallCorpus, TextsAreLines
<1>6. body \in Seq(Lines)
  BY <1>4, <1>5, SpliceIs
<1>7. PICK e : e = [d EXCEPT !.body = body]
  OBVIOUS
<1>8. /\ e \in Decisions /\ e.id = d.id /\ e.supersedes = d.supersedes /\ e.supersededBy = d.supersededBy
      /\ e.status = d.status /\ e.body = body
  BY <1>5, <1>6, <1>7 DEF Decisions
<1>9. Ages(d, e)
  BY <1>4, <1>8 DEF Ages
<1>10. KeepsPlan(d, e, force)
  BY <1>1, <1>3 DEF KeepsPlan, MaySave
<1>11. Plan(s, <<[slug |-> x, decision |-> e]>>, force)
  BY <1>1, <1>3, <1>4, <1>7
<1>12. QED
  BY <1>2, <1>3, <1>8, <1>9, <1>10, <1>11, RewriteMoves

LEMMA SupersedeKeeps == ASSUME AdrInv, NEW s \in Sessions, Supersede(s) PROVE AdrInv'
<1>1. PICK new \in DOMAIN call[s].corpus, old \in DOMAIN call[s].corpus :
        new # old /\ Plan(s, SupersededPages(call[s].corpus, new, old), FALSE)
  BY DEF Supersede
<1>2. Loaded(s) /\ UNCHANGED <<scheme, page, listed, ids, reported, overlapped, died>>
  BY DEF Supersede
<1>3. PICK c : c = call[s].corpus
  OBVIOUS
<1>4. PICK d1, d2 : d1 = c[old] /\ d2 = c[new]
  OBVIOUS
<1>5. /\ d1 \in Decisions /\ Bounded(d1) /\ old \in Slugs /\ old \in listed
      /\ d2 \in Decisions /\ Bounded(d2) /\ new \in Slugs /\ new \in listed
  BY <1>3, <1>4, InCallCorpus
<1>6. PICK e1, e2 : /\ e1 = [d1 EXCEPT !.status = "superseded", !.supersededBy = d2.id]
                    /\ e2 = [d2 EXCEPT !.supersedes = d1.id]
  OBVIOUS
<1>7. /\ e1 \in Decisions /\ e1.id = d1.id /\ e1.supersedes = d1.supersedes /\ e1.supersededBy = d2.id
      /\ e1.status = "superseded" /\ e1.body = d1.body
  BY <1>5, <1>6 DEF Decisions, Statuses
<1>8. /\ e2 \in Decisions /\ e2.id = d2.id /\ e2.supersedes = d1.id /\ e2.supersededBy = d2.supersededBy
      /\ e2.status = d2.status /\ e2.body = d2.body
  BY <1>5, <1>6 DEF Decisions
<1>9. PICK w1, w2 : w1 = [slug |-> old, decision |-> e1] /\ w2 = [slug |-> new, decision |-> e2]
  OBVIOUS
<1>10. /\ w1 \in Writes /\ w1.slug = old /\ w1.decision = e1
       /\ w2 \in Writes /\ w2.slug = new /\ w2.decision = e2
  BY <1>5, <1>7, <1>8, <1>9 DEF Writes
<1>11. PICK ws : ws = <<w1, w2>>
  OBVIOUS
<1>12. ws \in Seq(Writes) /\ ws # <<>> /\ Len(ws) = 2 /\ ws[1] = w1 /\ ws[2] = w2 /\ 1..Len(ws) = {1, 2}
  BY <1>10, <1>11
<1>13. Plan(s, ws, FALSE)
  <2>1. SupersededPages(c, new, old) = ws
    BY <1>4, <1>6, <1>9, <1>11 DEF SupersededPages
  <2>2. QED
    BY <1>1, <1>3, <2>1
<1>14. ids \in Nat /\ ids' \in Nat /\ ids <= ids' /\ ids' = ids
  BY <1>2, CallsAre
<1>15. \A i \in 1..Len(ws) : Bounded(ws[i].decision)'
  <2>1. Bounded(e1)' /\ Bounded(e2)'
    BY <1>5, <1>7, <1>8, <1>14 DEF Bounded, Decisions
  <2>2. Bounded(w1.decision)' /\ Bounded(w2.decision)'
    BY <1>10, <2>1 DEF Bounded
  <2>3. QED
    BY <1>12, <2>2 DEF Bounded
<1>16. ASSUME ~overlapped, call[s].fresh
       PROVE  Due(w1, FALSE) /\ Due(w2, FALSE)
  <2>1. d1 = page[old] /\ d2 = page[new] /\ old \in DOMAIN page /\ new \in DOMAIN page
    BY <1>2, <1>3, <1>4, <1>5, <1>16, LoadedIs, CallsAre
  <2>2. Linked(d1) /\ Linked(d2)
    BY <1>16, <2>1 DEF AdrInv
  <2>3. Listed(d1.id) /\ Listed(d2.id)
    BY <1>5, <2>1 DEF Listed
  <2>4. d1.id # 0 /\ d2.id # 0
    BY <1>5, <1>14 DEF Bounded, Decisions
  <2>5. Linked(e1)
    BY <1>7, <2>2, <2>3, <2>4 DEF Linked
  <2>6. Linked(e2)
    BY <1>8, <2>2, <2>3, <2>4 DEF Linked
  <2>7. Rewrites(w1, FALSE) /\ Rewrites(w2, FALSE)
    BY <1>7, <1>8, <1>10, <2>1 DEF Rewrites, Ages, KeepsPlan
  <2>8. QED
    BY <1>5, <1>10, <2>5, <2>6, <2>7 DEF Due
<1>17. ~overlapped /\ call[s].fresh =>
         /\ \A i \in 1..Len(ws) : Due(ws[i], FALSE)
         /\ \A i, j \in 1..Len(ws) : i # j => ws[i].slug # ws[j].slug
         /\ Len(ws) > 1 => \A i \in 1..Len(ws) : ws[i].slug \in listed
  BY <1>1, <1>5, <1>10, <1>12, <1>16
<1>18. QED
  BY <1>2, <1>12, <1>13, <1>14, <1>15, <1>17, PlanMoves

-----------------------------------------------------------------------------
(* The steps that change what others have copied.                          *)

(* What a write does to the pages, and why it was due when no history      *)
(* variable tells that it came too late.                                   *)
LEMMA WriteIs ==
  ASSUME AdrInv, NEW s \in Sessions, WritePage(s)
  PROVE  \E w \in Writes :
           /\ w = call[s].writes[1] /\ w.slug \in Slugs /\ w.decision \in Decisions /\ Bounded(w.decision)
           /\ page' \in Corpora /\ DOMAIN page' = DOMAIN page \cup {w.slug}
           /\ \A x \in DOMAIN page' : page'[x] = IF x = w.slug THEN w.decision ELSE page[x]
           /\ ~overlapped' =>
                /\ ~overlapped /\ call[s].fresh /\ Due(w, call[s].replaces)
                /\ \A t \in Sessions \ {s} : call[t].step # "written"
<1>1. PICK q : q = call[s]
  OBVIOUS
<1>2. q \in CallStates /\ CallOk(q) /\ q.step = "writing" /\ page \in Corpora /\ overlapped \in BOOLEAN
  BY <1>1, CallsAre DEF WritePage
<1>3. q.writes \in Seq(Writes) /\ q.writes # <<>>
  BY <1>2, StatesAre DEF CallOk
<1>4. PICK w : w = Head(q.writes)
  OBVIOUS
<1>5. w \in Writes /\ w = q.writes[1] /\ 1 \in 1..Len(q.writes)
  BY <1>3, <1>4
<1>6. w.slug \in Slugs /\ w.decision \in Decisions
  BY <1>5 DEF Writes
<1>7. Bounded(w.decision)
  BY <1>2, <1>5 DEF CallOk
<1>8. page' = [x \in DOMAIN page \cup {w.slug} |-> IF x = w.slug THEN w.decision ELSE page[x]]
  BY <1>1, <1>4 DEF WritePage
<1>9. page' \in Corpora
  BY <1>2, <1>6, <1>8, UpdatedIs
<1>10. overlapped' = (overlapped \/ ~q.fresh \/ \E t \in Sessions \ {s} : call[t].step = "written")
  BY <1>1 DEF WritePage
<1>11. ~overlapped' =>
         /\ ~overlapped /\ q.fresh /\ Due(w, q.replaces)
         /\ \A t \in Sessions \ {s} : call[t].step # "written"
  <2>1. SUFFICES ASSUME ~overlapped' 
        PROVE  /\ ~overlapped /\ q.fresh /\ Due(w, q.replaces)
               /\ \A t \in Sessions \ {s} : call[t].step # "written"
    OBVIOUS
  <2>2. ~overlapped /\ q.fresh /\ \A t \in Sessions \ {s} : call[t].step # "written"
    BY <1>10, <2>1
  <2>3. Due(w, q.replaces)
    BY <1>2, <1>5, <2>2 DEF CallOk, Pending
  <2>4. QED
    BY <2>2, <2>3
<1>12. QED
  BY <1>1, <1>5, <1>6, <1>7, <1>8, <1>9, <1>11

(* A write that was due leaves every listed page with its id.              *)
LEMMA ListedStays ==
  ASSUME listed' = listed, NEW id, Listed(id), NEW w, NEW replaces, Due(w, replaces), listed \subseteq DOMAIN page,
         DOMAIN page' = DOMAIN page \cup {w.slug},
         \A x \in DOMAIN page' : page'[x] = IF x = w.slug THEN w.decision ELSE page[x]
  PROVE  Listed(id)'
<1>1. PICK t \in listed : page[t].id = id
  BY DEF Listed
<1>2. page'[t].id = id
  <2>1. CASE t = w.slug
    BY <1>1, <2>1 DEF Due, Rewrites, Ages
  <2>2. CASE t # w.slug
    BY <1>1, <2>2
  <2>3. QED
    BY <2>1, <2>2
<1>3. QED
  BY <1>1, <1>2 DEF Listed

LEMMA LinkedStays ==
  ASSUME \A id : Listed(id) => Listed(id)', NEW d, Linked(d)
  PROVE  Linked(d)'
BY DEF Linked

LEMMA WritePageKeeps == ASSUME AdrInv, NEW s \in Sessions, WritePage(s) PROVE AdrInv'
<1>1. PICK w \in Writes :
        /\ w = call[s].writes[1] /\ w.slug \in Slugs /\ w.decision \in Decisions /\ Bounded(w.decision)
        /\ page' \in Corpora /\ DOMAIN page' = DOMAIN page \cup {w.slug}
        /\ \A x \in DOMAIN page' : page'[x] = IF x = w.slug THEN w.decision ELSE page[x]
        /\ ~overlapped' =>
             /\ ~overlapped /\ call[s].fresh /\ Due(w, call[s].replaces)
             /\ \A t \in Sessions \ {s} : call[t].step # "written"
  BY WriteIs
<1>2. PICK q : q = call[s]
  OBVIOUS
<1>3. PICK ws : ws = q.writes
  OBVIOUS
<1>4. PICK r : r = [q EXCEPT !.writes = Tail(@), !.step = IF Len(q.writes) = 1 THEN "written" ELSE @]
  OBVIOUS
<1>5. /\ q \in CallStates /\ CallOk(q) /\ q.step = "writing" /\ ws \in Seq(Writes) /\ ws # <<>>
      /\ ids \in Nat /\ overlapped \in BOOLEAN /\ died \in BOOLEAN /\ listed \subseteq DOMAIN page /\ Types
  BY <1>2, <1>3, CallsAre, StatesAre DEF WritePage, CallOk, AdrInv
<1>6. /\ Len(ws) \in Nat /\ Len(ws) >= 1 /\ Tail(ws) \in Seq(Writes) /\ Len(Tail(ws)) = Len(ws) - 1
      /\ \A i \in 1..Len(Tail(ws)) : Tail(ws)[i] = ws[i + 1]
  BY <1>5
<1>7. /\ r \in CallStates /\ r.step = (IF Len(ws) = 1 THEN "written" ELSE "writing") /\ r.writes = Tail(ws)
      /\ r.todo = q.todo /\ r.corpus = q.corpus /\ r.fresh = q.fresh /\ r.replaces = q.replaces
  BY <1>3, <1>4, <1>5, <1>6 DEF CallStates
<1>8. call' = [t \in Sessions |-> IF t = s THEN r ELSE
                 IF call[t].step = "none" THEN call[t] ELSE [call[t] EXCEPT !.fresh = FALSE]]
  BY <1>2, <1>4 DEF WritePage, Others
<1>9. UNCHANGED <<scheme, listed, ids, calls, reported, died>> /\ listed' = listed /\ ids' = ids /\ overlapped' \in BOOLEAN
      /\ (overlapped => overlapped')
  BY <1>5 DEF WritePage
<1>10. listed \subseteq listed' /\ ids' \in Nat /\ ids <= ids'
  BY <1>5, <1>9
<1>11. \A t \in Sessions \ {s} : call'[t] \in CallStates /\ CallOk(call[t])' 
  <2>1. SUFFICES ASSUME NEW t \in Sessions \ {s} PROVE call'[t] \in CallStates /\ CallOk(call[t])'
    OBVIOUS
  <2>2. PICK o : o = call[t]
    OBVIOUS
  <2>3. PICK n : n = IF o.step = "none" THEN o ELSE [o EXCEPT !.fresh = FALSE]
    OBVIOUS
  <2>4. o \in CallStates /\ Held(o) /\ call'[t] = n
    BY <1>8, <2>2, <2>3, CallsAre, OkIsHeld
  <2>5. n \in CallStates /\ n.todo = o.todo /\ n.corpus = o.corpus /\ n.writes = o.writes /\ n.step = o.step
    BY <2>3, <2>4 DEF CallStates
  <2>6. ~n.fresh \/ n.step = "none"
    BY <2>3, <2>4 DEF CallStates
  <2>7. CallOk(n)'
    BY <1>5, <1>9, <1>10, <2>4, <2>5, <2>6, StaleIsOk
  <2>8. QED
    BY <2>4, <2>5, <2>7 DEF CallOk, Copied, Pending
<1>12. Types'
  <2>1. call' \in [Sessions -> CallStates]
    BY <1>7, <1>8, <1>11
  <2>2. QED
    BY <1>1, <1>5, <1>9, <2>1 DEF Types
<1>13. ASSUME ~overlapped' PROVE \A id : Listed(id) => Listed(id)'
  BY <1>1, <1>5, <1>9, <1>13, ListedStays
<1>14. CallOk(r)'
  <2>1. Held(r)'
    <3>1. Held(q)'
      BY <1>5, <1>10, HeldStays, OkIsHeld
    <3>2. \A i \in 1..Len(r.writes) : Bounded(r.writes[i].decision)'
      <4>1. SUFFICES ASSUME NEW i \in 1..Len(r.writes) PROVE Bounded(r.writes[i].decision)'
        OBVIOUS
      <4>2. i + 1 \in 1..Len(ws) /\ r.writes[i] = ws[i + 1]
        BY <1>6, <1>7
      <4>3. Bounded(ws[i + 1].decision)'
        BY <1>3, <3>1, <4>2 DEF Held
      <4>4. QED
        BY <4>2, <4>3 DEF Bounded
    <3>3. r.step = "writing" => r.writes # <<>>
      <4>1. SUFFICES ASSUME r.step = "writing" PROVE r.writes # <<>>
        OBVIOUS
      <4>2. Len(ws) # 1
        BY <1>7, <4>1
      <4>3. Len(Tail(ws)) # 0
        BY <1>6, <4>2
      <4>4. Len(<<>>) = 0
        OBVIOUS
      <4>5. QED
        BY <1>7, <4>3, <4>4
    <3>4. QED
      BY <1>7, <3>1, <3>2, <3>3 DEF Held
  <2>2. Copied(r)'
    BY <1>7 DEF Copied
  <2>3. Pending(r)'
    <3>1. SUFFICES ASSUME ~overlapped', r.fresh, r.step = "writing"
          PROVE  /\ \A i \in 1..Len(r.writes) : Due(r.writes[i], r.replaces)'
                 /\ \A i, j \in 1..Len(r.writes) : i # j => r.writes[i].slug # r.writes[j].slug
                 /\ \A i \in 1..Len(r.writes) : r.writes[i].slug \in listed'
      BY DEF Pending
    <3>2. Len(ws) > 1
      BY <1>6, <1>7, <3>1
    <3>3. /\ \A i \in 1..Len(ws) : Due(ws[i], q.replaces)
          /\ \A i, j \in 1..Len(ws) : i # j => ws[i].slug # ws[j].slug
          /\ \A i \in 1..Len(ws) : ws[i].slug \in listed
      BY <1>1, <1>2, <1>3, <1>5, <3>1, <3>2 DEF CallOk, Pending
    <3>4. ASSUME NEW i \in 1..Len(r.writes) PROVE i + 1 \in 1..Len(ws) /\ r.writes[i] = ws[i + 1] /\ i + 1 # 1
      BY <1>6, <1>7
    <3>5. ASSUME NEW i \in 1..Len(r.writes) PROVE Due(r.writes[i], r.replaces)'
      <4>1. PICK u : u = r.writes[i]
        OBVIOUS
      <4>2. u.slug \in listed /\ u.slug # w.slug /\ Due(u, q.replaces)
        <5>1. 1 \in 1..Len(ws) /\ w = ws[1]
          BY <1>1, <1>2, <1>3, <1>6
        <5>2. QED
          BY <3>3, <3>4, <4>1, <5>1
      <4>3. page'[u.slug] = page[u.slug]
        BY <1>1, <1>5, <4>2
      <4>4. Rewrites(u, q.replaces)'
        BY <4>2, <4>3 DEF Due, Rewrites, Ages, KeepsPlan
      <4>5. Linked(u.decision)'
        BY <1>13, <3>1, <4>2, LinkedStays DEF Due
      <4>6. Due(u, q.replaces)'
        BY <1>9, <4>2, <4>4, <4>5 DEF Due
      <4>7. QED
        BY <1>7, <4>1, <4>6
    <3>6. \A i, j \in 1..Len(r.writes) : i # j => r.writes[i].slug # r.writes[j].slug
      <4>1. SUFFICES ASSUME NEW i \in 1..Len(r.writes), NEW j \in 1..Len(r.writes), i # j
            PROVE  r.writes[i].slug # r.writes[j].slug
        OBVIOUS
      <4>2. i + 1 # j + 1
        BY <1>6, <1>7, <4>1
      <4>3. i + 1 \in 1..Len(ws) /\ j + 1 \in 1..Len(ws) /\ r.writes[i] = ws[i + 1] /\ r.writes[j] = ws[j + 1]
        BY <3>4
      <4>4. ws[i + 1].slug # ws[j + 1].slug
        BY <3>3, <4>2, <4>3
      <4>5. QED
        BY <4>3, <4>4
    <3>7. QED
      BY <1>9, <3>3, <3>4, <3>5, <3>6
  <2>4. QED
    BY <2>1, <2>2, <2>3 DEF CallOk, Held
<1>15. \A t \in Sessions : CallOk(call[t])'
  <2>1. call'[s] = r
    BY <1>8
  <2>2. CallOk(call[s])'
    BY <1>14, <2>1 DEF CallOk, Copied, Pending
  <2>3. QED
    BY <1>11, <2>2
<1>16. (\A x \in DOMAIN page : Bounded(page[x]))'
  <2>1. SUFFICES ASSUME NEW x \in DOMAIN page' PROVE Bounded(page[x])'
    OBVIOUS
  <2>2. PICK d : d = page'[x]
    OBVIOUS
  <2>3. Bounded(d)
    BY <1>1, <2>1, <2>2, CallsAre
  <2>4. QED
    BY <1>9, <2>2, <2>3 DEF Bounded
<1>17. (~overlapped => /\ \A x \in DOMAIN page : Linked(page[x])
                       /\ scheme = "uuid" => \A x \in DOMAIN page : x[1] = page[x].id)'
  <2>1. SUFFICES ASSUME ~overlapped'
        PROVE  /\ \A x \in DOMAIN page' : Linked(page[x])'
               /\ scheme = "uuid" => \A x \in DOMAIN page' : x[1] = page'[x].id
    BY <1>9
  <2>2. Due(w, call[s].replaces) /\ ~overlapped
    BY <1>1, <2>1
  <2>3. ASSUME NEW x \in DOMAIN page' PROVE Linked(page[x])'
    <3>1. PICK d : d = page'[x]
      OBVIOUS
    <3>2. Linked(d)
      BY <1>1, <2>2, <2>3, <3>1 DEF Due, AdrInv
    <3>3. Linked(d)'
      BY <1>13, <2>1, <3>2, LinkedStays
    <3>4. QED
      BY <3>1, <3>3 DEF Linked, Listed
  <2>4. ASSUME NEW x \in DOMAIN page', scheme = "uuid" PROVE x[1] = page'[x].id
    <3>1. CASE x # w.slug
      BY <1>1, <2>2, <2>4, <3>1 DEF AdrInv
    <3>2. CASE x = w.slug /\ x \in listed
      <4>1. w.decision.id = page[x].id /\ x[1] = page[x].id
        BY <1>5, <2>2, <2>4, <3>2 DEF Due, Rewrites, Ages, AdrInv
      <4>2. QED
        BY <1>1, <2>4, <3>2, <4>1
    <3>3. CASE x = w.slug /\ x \notin listed
      BY <1>1, <2>2, <2>4, <3>3 DEF Due, Novel
    <3>4. QED
      BY <3>1, <3>2, <3>3
  <2>5. QED
    BY <2>3, <2>4
<1>18. (~overlapped /\ ~died =>
          Distinct /\ (DOMAIN page = listed \/ \E t \in Sessions : call[t].step = "written"))'
  <2>1. SUFFICES ASSUME ~overlapped', ~died
        PROVE  Distinct' /\ (DOMAIN page' = listed \/ \E t \in Sessions : call'[t].step = "written")
    BY <1>9
  <2>2. Due(w, call[s].replaces) /\ ~overlapped /\ \A t \in Sessions \ {s} : call[t].step # "written"
    BY <1>1, <2>1
  <2>3. Distinct /\ DOMAIN page = listed
    BY <1>2, <1>5, <2>1, <2>2 DEF AdrInv
  <2>4. CASE w.slug \in listed
    <3>1. w.decision.id = page[w.slug].id
      BY <2>2, <2>4 DEF Due, Rewrites, Ages
    <3>2. DOMAIN page' = DOMAIN page /\ \A x \in DOMAIN page : page'[x].id = page[x].id
      BY <1>1, <2>3, <2>4, <3>1
    <3>3. Distinct'
      BY <1>9, <2>3, <3>2 DEF Distinct, Reference
    <3>4. QED
      BY <2>3, <3>2, <3>3
  <2>5. CASE w.slug \notin listed
    <3>1. Novel(w)
      BY <2>2, <2>5 DEF Due
    <3>2. Distinct'
      <4>1. SUFFICES ASSUME NEW x \in DOMAIN page', NEW y \in DOMAIN page', x # y
            PROVE  Reference(x) # Reference(y) /\ page'[x].id # page'[y].id
        BY <1>9 DEF Distinct, Reference
      <4>2. CASE x # w.slug /\ y # w.slug
        BY <1>1, <2>3, <4>1, <4>2 DEF Distinct
      <4>3. CASE x = w.slug
        BY <1>1, <2>3, <3>1, <4>1, <4>3 DEF Novel
      <4>4. CASE y = w.slug
        BY <1>1, <2>3, <3>1, <4>1, <4>4 DEF Novel
      <4>5. QED
        BY <4>2, <4>3, <4>4
    <3>3. Len(ws) = 1
      <4>1. SUFFICES ASSUME Len(ws) > 1 PROVE FALSE
        BY <1>6
      <4>2. ws[1].slug \in listed
        BY <1>1, <1>2, <1>3, <1>5, <1>6, <2>1, <4>1 DEF CallOk, Pending
      <4>3. QED
        BY <1>1, <1>2, <1>3, <2>5, <4>2
    <3>4. call'[s].step = "written"
      BY <1>7, <1>8, <3>3
    <3>5. QED
      BY <3>2, <3>4
  <2>6. QED
    BY <2>4, <2>5
<1>19. ChecksAreClean'
  BY <1>9, CallsAre DEF ChecksAreClean
<1>20. QED
  BY <1>12, <1>15, <1>16, <1>17, <1>18, <1>19 DEF AdrInv

LEMMA IngestKeeps == ASSUME AdrInv, NEW s \in Sessions, Ingest(s) PROVE AdrInv'
<1>1. /\ listed' = DOMAIN page /\ UNCHANGED <<scheme, page, ids, calls, reported, overlapped, died>>
      /\ page' = page /\ ids' = ids
  BY DEF Ingest
<1>2. call' = [t \in Sessions |-> IF t = s THEN Idle ELSE
                 IF call[t].step = "none" THEN call[t] ELSE [call[t] EXCEPT !.fresh = FALSE]]
  BY DEF Ingest, Others
<1>3. listed \subseteq DOMAIN page /\ ids \in Nat /\ Types
  BY CallsAre DEF AdrInv
<1>4. \A t \in Sessions : call'[t] \in CallStates /\ CallOk(call[t])'
  <2>1. SUFFICES ASSUME NEW t \in Sessions PROVE call'[t] \in CallStates /\ CallOk(call[t])'
    OBVIOUS
  <2>2. CASE t = s
    <3>1. call'[t] = Idle
      BY <1>2, <2>2
    <3>2. QED
      BY <3>1, IdleIsOk, IdleIsOkAfter DEF CallOk, Copied, Pending
  <2>3. CASE t # s
    <3>1. PICK o : o = call[t]
      OBVIOUS
    <3>2. PICK n : n = IF o.step = "none" THEN o ELSE [o EXCEPT !.fresh = FALSE]
      OBVIOUS
    <3>3. o \in CallStates /\ Held(o) /\ call'[t] = n
      BY <1>2, <2>3, <3>1, <3>2, CallsAre, OkIsHeld
    <3>4. n \in CallStates /\ n.todo = o.todo /\ n.corpus = o.corpus /\ n.writes = o.writes /\ n.step = o.step
      BY <3>2, <3>3 DEF CallStates
    <3>5. ~n.fresh \/ n.step = "none"
      BY <3>2, <3>3 DEF CallStates
    <3>6. listed \subseteq listed' /\ ids' \in Nat /\ ids <= ids'
      BY <1>1, <1>3
    <3>7. CallOk(n)'
      BY <1>1, <1>3, <3>3, <3>4, <3>5, <3>6, StaleIsOk
    <3>8. QED
      BY <3>3, <3>4, <3>7 DEF CallOk, Copied, Pending
  <2>4. QED
    BY <2>2, <2>3
<1>5. Types'
  <2>1. call' \in [Sessions -> CallStates]
    BY <1>2, <1>4
  <2>2. QED
    BY <1>1, <1>3, <2>1 DEF Types
<1>6. (\A x \in DOMAIN page : Bounded(page[x]))'
  BY <1>1, CallsAre DEF Bounded
<1>7. (~overlapped => /\ \A x \in DOMAIN page : Linked(page[x])
                      /\ scheme = "uuid" => \A x \in DOMAIN page : x[1] = page[x].id)'
  <2>1. SUFFICES ASSUME ~overlapped PROVE (\A x \in DOMAIN page : Linked(page[x]))'
    BY <1>1 DEF AdrInv
  <2>2. SUFFICES ASSUME NEW x \in DOMAIN page PROVE Linked(page[x])'
    BY <1>1
  <2>3. PICK d : d = page[x]
    OBVIOUS
  <2>4. Linked(d)
    BY <2>1, <2>3 DEF AdrInv
  <2>5. \A id : Listed(id) => Listed(id)'
    BY <1>1, <1>3 DEF Listed
  <2>6. Linked(d)'
    BY <2>4, <2>5, LinkedStays
  <2>7. QED
    BY <1>1, <2>3, <2>6 DEF Linked, Listed
<1>8. (~overlapped /\ ~died =>
         Distinct /\ (DOMAIN page = listed \/ \E t \in Sessions : call[t].step = "written"))'
  BY <1>1 DEF AdrInv, Distinct, Reference
<1>9. ChecksAreClean'
  BY <1>1, CallsAre DEF ChecksAreClean
<1>10. QED
  BY <1>4, <1>5, <1>6, <1>7, <1>8, <1>9 DEF AdrInv

-----------------------------------------------------------------------------
(* The theorems.                                                           *)

LEMMA StepKeeps == AdrInv /\ [Next]_vars => AdrInv'
<1>1. SUFFICES ASSUME AdrInv, [Next]_vars PROVE AdrInv'
  OBVIOUS
<1>2. ASSUME NEW s \in Sessions,
             \/ Begin(s) \/ ReadPage(s) \/ Answer(s) \/ Check(s)
             \/ New(s) \/ Edit(s) \/ SetStatus(s) \/ SetReview(s) \/ SavePlan(s) \/ Supersede(s)
             \/ WritePage(s) \/ Ingest(s) \/ Die(s)
      PROVE  AdrInv'
  <2>1. CASE Begin(s)
    BY <1>1, <2>1, BeginKeeps
  <2>2. CASE ReadPage(s)
    BY <1>1, <2>2, ReadPageKeeps
  <2>3. CASE Answer(s)
    BY <1>1, <2>3, AnswerKeeps
  <2>4. CASE Check(s)
    BY <1>1, <2>4, CheckKeeps
  <2>5. CASE New(s)
    BY <1>1, <2>5, NewKeeps
  <2>6. CASE Edit(s)
    BY <1>1, <2>6, EditKeeps
  <2>7. CASE SetStatus(s)
    BY <1>1, <2>7, SetStatusKeeps
  <2>8. CASE SetReview(s)
    BY <1>1, <2>8, SetReviewKeeps
  <2>9. CASE SavePlan(s)
    BY <1>1, <2>9, SavePlanKeeps
  <2>10. CASE Supersede(s)
    BY <1>1, <2>10, SupersedeKeeps
  <2>11. CASE WritePage(s)
    BY <1>1, <2>11, WritePageKeeps
  <2>12. CASE Ingest(s)
    BY <1>1, <2>12, IngestKeeps
  <2>13. CASE Die(s)
    BY <1>1, <2>13, DieKeeps
  <2>14. QED
    BY <1>2, <2>1, <2>2, <2>3, <2>4, <2>5, <2>6, <2>7, <2>8, <2>9, <2>10, <2>11, <2>12, <2>13
<1>3. CASE UNCHANGED vars
  <2>1. UNCHANGED <<scheme, page, listed, ids, reported, overlapped, died>> /\ call' = call
    BY <1>3 DEF vars
  <2>2. \A s \in Sessions : CallOk(call[s])'
    <3>1. SUFFICES ASSUME NEW s \in Sessions PROVE CallOk(call[s])'
      OBVIOUS
    <3>2. PICK q : q = call[s]
      OBVIOUS
    <3>3. q \in CallStates /\ CallOk(q) /\ ids \in Nat /\ ids' \in Nat /\ ids <= ids'
      BY <1>1, <2>1, <3>2, CallsAre
    <3>4. CallOk(q)'
      BY <2>1, <3>3, OkStays
    <3>5. QED
      BY <2>1, <3>2, <3>4 DEF CallOk, Copied, Pending
  <2>3. Types' /\ (\A x \in DOMAIN page : Bounded(page[x]))'
    BY <1>1, <2>1 DEF AdrInv, Types, Bounded
  <2>4. (~overlapped => /\ \A x \in DOMAIN page : Linked(page[x])
                        /\ scheme = "uuid" => \A x \in DOMAIN page : x[1] = page[x].id)'
    BY <1>1, <2>1 DEF AdrInv, Linked, Listed
  <2>5. (~overlapped /\ ~died =>
           Distinct /\ (DOMAIN page = listed \/ \E s \in Sessions : call[s].step = "written"))'
    BY <1>1, <2>1 DEF AdrInv, Distinct, Reference
  <2>6. ChecksAreClean'
    BY <1>1, <2>1 DEF AdrInv, ChecksAreClean
  <2>7. QED
    BY <2>2, <2>3, <2>4, <2>5, <2>6 DEF AdrInv
<1>4. QED
  BY <1>1, <1>2, <1>3 DEF Next

LEMMA AlwaysHolds == Spec => []AdrInv
<1>1. Init => AdrInv
  BY InitHolds
<1>2. AdrInv /\ [Next]_vars => AdrInv'
  BY StepKeeps
<1>3. QED
  BY <1>1, <1>2, PTL DEF Spec

(* However the verbs interleave, die or retry, and in every naming scheme: *)
(* check reports a broken supersession only if a page was written on an    *)
(* old corpus, and a repeated reference or id only then or if a call died  *)
(* between a write and its ingestion.                                      *)
THEOREM CorpusStaysClean == Spec => []CorpusIsClean
<1>1. AdrInv => CorpusIsClean
  <2>1. SUFFICES ASSUME AdrInv PROVE CorpusIsClean
    OBVIOUS
  <2>2. ASSUME NEW d \in Decisions, Bounded(d) PROVE IsDecision(d)
    <3>1. \A i \in 1..Len(d.body) : d.body[i] \in Lines
      <4>1. d.body \in Seq(Lines)
        BY <2>2 DEF Decisions
      <4>2. QED
        BY <4>1, ElementOfSeq
    <3>2. QED
      BY <2>2, <3>1 DEF IsDecision, Bounded, Decisions
  <2>3. scheme \in Schemes /\ listed \subseteq DOMAIN page
    BY <2>1 DEF AdrInv, Types
  <2>4. \A x \in DOMAIN page : x[1] \in Nat /\ x[2] \in Titles /\ IsDecision(page[x])
    <3>1. page \in Corpora /\ \A x \in DOMAIN page : Bounded(page[x])
      BY <2>1 DEF AdrInv, Types
    <3>2. QED
      BY <2>2, <3>1, InCorpora DEF Slugs
  <2>5. \A s \in Sessions :
          /\ call[s].step \in {"none", "loading", "writing", "written"}
          /\ call[s].todo \subseteq DOMAIN page
          /\ \A x \in DOMAIN call[s].corpus : IsDecision(call[s].corpus[x])
    BY <2>1, <2>2, <2>3, CallsAre, StatesAre DEF CallOk
  <2>6. ChecksAreClean
    BY <2>1 DEF AdrInv
  <2>7. QED
    BY <2>3, <2>4, <2>5, <2>6 DEF CorpusIsClean, TypeOK
<1>2. QED
  BY <1>1, AlwaysHolds, PTL

(* A step that is not a write on an old corpus, nor leaves one, does to a  *)
(* listed page only what its verb may do.                                  *)
LEMMA StepAges ==
  ASSUME AdrInv, [Next]_vars, ~overlapped', NEW x \in listed
  PROVE  /\ Ages(page[x], page'[x])
         /\ \/ page'[x].body = page[x].body
            \/ Extract(page[x].body) = <<>> /\ ~HasHandWrittenSection(page[x].body)
            \/ \E c \in Sessions : call[c].step = "writing" /\ call[c].replaces
<1>1. CASE page' = page
  BY <1>1 DEF Ages
<1>2. ASSUME NEW s \in Sessions, WritePage(s)
      PROVE  /\ Ages(page[x], page'[x])
             /\ \/ page'[x].body = page[x].body
                \/ Extract(page[x].body) = <<>> /\ ~HasHandWrittenSection(page[x].body)
                \/ \E c \in Sessions : call[c].step = "writing" /\ call[c].replaces
  <2>1. PICK w \in Writes :
          /\ DOMAIN page' = DOMAIN page \cup {w.slug}
          /\ \A y \in DOMAIN page' : page'[y] = IF y = w.slug THEN w.decision ELSE page[y]
          /\ Due(w, call[s].replaces)
    BY <1>2, WriteIs
  <2>2. x \in DOMAIN page /\ call[s].step = "writing"
    BY <1>2, CallsAre DEF WritePage
  <2>3. CASE x # w.slug
    BY <2>1, <2>2, <2>3 DEF Ages
  <2>4. CASE x = w.slug
    <3>1. Ages(page[x], page'[x]) /\ KeepsPlan(page[x], page'[x], call[s].replaces)
      BY <2>1, <2>2, <2>4 DEF Due, Rewrites
    <3>2. QED
      BY <1>2, <2>2, <3>1 DEF KeepsPlan
  <2>5. QED
    BY <2>3, <2>4
<1>3. CASE Next
  <2>1. PICK s \in Sessions :
          \/ Begin(s) \/ ReadPage(s) \/ Answer(s) \/ Check(s)
          \/ New(s) \/ Edit(s) \/ SetStatus(s) \/ SetReview(s) \/ SavePlan(s) \/ Supersede(s)
          \/ WritePage(s) \/ Ingest(s) \/ Die(s)
    BY <1>3 DEF Next
  <2>2. page' = page \/ WritePage(s)
    BY <2>1 DEF Begin, ReadPage, Answer, Check, New, Edit, SetStatus, SetReview, SavePlan, Supersede, Rewrite, Ingest, Die
  <2>3. QED
    BY <1>1, <1>2, <2>2
<1>4. QED
  BY <1>1, <1>3 DEF vars

(* Until a page is written on an old corpus, a listed page keeps its id, a *)
(* decision once taken only ages or is superseded, and nothing but a plan  *)
(* is spliced into its body.                                               *)
THEOREM DecidedRecordsStay == Spec => DecidedStays
<1>1. AdrInv /\ [Next]_vars =>
        [~overlapped' =>
           \A s \in listed :
              LET d == page[s]  e == page'[s] IN
              /\ e.id = d.id
              /\ d.status # "proposed" =>
                   /\ e.status \in {d.status, "superseded"}
                        \cup (IF d.status = "accepted" THEN {"deprecated"} ELSE {})
                   /\ e.body # d.body => \E p \in Plans : e.body = Splice(d.body, p)]_vars
  <2>1. SUFFICES ASSUME AdrInv, [Next]_vars, ~overlapped', NEW x \in listed
        PROVE  Ages(page[x], page'[x])
    BY DEF Ages
  <2>2. QED
    BY <2>1, StepAges
<1>2. QED
  BY <1>1, AlwaysHolds, PTL DEF Spec, DecidedStays

(* Until a page is written on an old corpus, a stored plan or a hand-      *)
(* written Implementation section goes only with the edit of a proposal or *)
(* a forced save.                                                          *)
THEOREM PlansStay == Spec => PlansAreKept
<1>1. AdrInv /\ [Next]_vars =>
        [~overlapped' =>
           \A s \in listed :
              \/ page'[s].body = page[s].body
              \/ Extract(page[s].body) = <<>> /\ ~HasHandWrittenSection(page[s].body)
              \/ \E c \in Sessions : call[c].step = "writing" /\ call[c].replaces]_vars
  BY StepAges
<1>2. QED
  BY <1>1, AlwaysHolds, PTL DEF Spec, PlansAreKept

=============================================================================
