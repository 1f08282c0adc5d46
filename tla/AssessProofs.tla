---------------------------- MODULE AssessProofs ----------------------------
(***************************************************************************)
(* Proofs about AssessDraft and AssessResponses, and about AssessTurns.    *)
(***************************************************************************)
EXTENDS AssessResponses, AssessTurns, FiniteSetTheorems, TLAPS

----------------------------------------------------------------------------
(* Lists in which nothing is listed twice.                                 *)

(* What is listed is at a position, and nothing else is.                   *)
LEMMA ListsOnce ==
  ASSUME NEW S, NEW s \in Seq(S)
  PROVE  /\ ToSet(s) \subseteq S /\ DOMAIN s = 1..Len(s) /\ Len(s) \in Nat
         /\ \A x : x \in ToSet(s) <=> \E i \in 1..Len(s) : s[i] = x
         /\ ToSet(s) = {} <=> s = << >>
BY DEF ToSet

LEMMA EmptyList == ToSet(<< >>) = {} /\ IsInjective(<< >>)
BY DEF ToSet, IsInjective

LEMMA AppendedList ==
  ASSUME NEW S, NEW s \in Seq(S), IsInjective(s), NEW x \in S, x \notin ToSet(s)
  PROVE  /\ Append(s, x) \in Seq(S) /\ IsInjective(Append(s, x))
         /\ ToSet(Append(s, x)) = ToSet(s) \cup {x}
<1>1. /\ Append(s, x) \in Seq(S) /\ DOMAIN Append(s, x) = 1..Len(s) + 1 /\ DOMAIN s = 1..Len(s)
      /\ \A i \in 1..Len(s) + 1 : Append(s, x)[i] = IF i = Len(s) + 1 THEN x ELSE s[i]
  OBVIOUS
<1>2. \A i \in 1..Len(s) : s[i] # x
  BY <1>1 DEF ToSet
<1>3. IsInjective(Append(s, x))
  BY <1>1, <1>2 DEF IsInjective
<1>4. ToSet(Append(s, x)) = ToSet(s) \cup {x}
  BY <1>1 DEF ToSet
<1> QED BY <1>1, <1>3, <1>4

LEMMA JoinedLists ==
  ASSUME NEW S, NEW s \in Seq(S), NEW t \in Seq(S), IsInjective(s), IsInjective(t),
         ToSet(s) \cap ToSet(t) = {}
  PROVE  s \o t \in Seq(S) /\ IsInjective(s \o t) /\ ToSet(s \o t) = ToSet(s) \cup ToSet(t)
<1>1. /\ s \o t \in Seq(S) /\ DOMAIN (s \o t) = 1..Len(s) + Len(t)
      /\ DOMAIN s = 1..Len(s) /\ DOMAIN t = 1..Len(t) /\ Len(s) \in Nat /\ Len(t) \in Nat
      /\ \A i \in 1..Len(s) + Len(t) : (s \o t)[i] = IF i <= Len(s) THEN s[i] ELSE t[i - Len(s)]
  OBVIOUS
<1> DEFINE u == s \o t
<1>2. \A i \in 1..Len(s), j \in 1..Len(t) : s[i] # t[j]
  BY <1>1 DEF ToSet
<1>3. \A i, j \in 1..Len(s) + Len(t) : u[i] = u[j] => i = j
  <2> SUFFICES ASSUME NEW i \in 1..Len(s) + Len(t), NEW j \in 1..Len(s) + Len(t), u[i] = u[j]
               PROVE  i = j
    OBVIOUS
  <2>1. CASE i <= Len(s) /\ j <= Len(s)  BY <2>1, <1>1 DEF IsInjective
  <2>2. CASE i > Len(s) /\ j > Len(s)
    <3>1. i - Len(s) \in 1..Len(t) /\ j - Len(s) \in 1..Len(t) /\ t[i - Len(s)] = t[j - Len(s)]
      BY <2>2, <1>1
    <3>2. i - Len(s) = j - Len(s)
      BY <3>1, <1>1 DEF IsInjective
    <3> QED BY <3>2, <1>1
  <2>3. CASE i <= Len(s) /\ j > Len(s)
    <3>1. i \in 1..Len(s) /\ j - Len(s) \in 1..Len(t) /\ s[i] = t[j - Len(s)]
      BY <2>3, <1>1
    <3> QED BY <3>1, <1>2
  <2>4. CASE i > Len(s) /\ j <= Len(s)
    <3>1. j \in 1..Len(s) /\ i - Len(s) \in 1..Len(t) /\ s[j] = t[i - Len(s)]
      BY <2>4, <1>1
    <3> QED BY <3>1, <1>2
  <2> QED BY <2>1, <2>2, <2>3, <2>4, <1>1
<1>4. ToSet(u) = ToSet(s) \cup ToSet(t)
  <2>1. ASSUME NEW x \in ToSet(s) PROVE x \in ToSet(u)
    BY <1>1 DEF ToSet
  <2>2. ASSUME NEW x \in ToSet(t) PROVE x \in ToSet(u)
    <3>1. PICK j \in 1..Len(t) : t[j] = x
      BY <1>1 DEF ToSet
    <3>2. j + Len(s) \in 1..Len(s) + Len(t) /\ u[j + Len(s)] = x
      BY <1>1, <3>1
    <3> QED BY <3>2, <1>1 DEF ToSet
  <2>3. ASSUME NEW x \in ToSet(u) PROVE x \in ToSet(s) \cup ToSet(t)
    <3>1. PICK i \in 1..Len(s) + Len(t) : u[i] = x
      BY <1>1 DEF ToSet
    <3>2. CASE i <= Len(s)  BY <3>1, <3>2, <1>1 DEF ToSet
    <3>3. CASE i > Len(s)
      <4>1. i - Len(s) \in 1..Len(t) /\ t[i - Len(s)] = x
        BY <3>1, <3>3, <1>1
      <4> QED BY <4>1, <1>1 DEF ToSet
    <3> QED BY <3>2, <3>3, <1>1
  <2> QED BY <2>1, <2>2, <2>3
<1>5. IsInjective(u)
  BY <1>1, <1>3 DEF IsInjective
<1> QED BY <1>1, <1>4, <1>5

(* The two halves of a list around a position.                             *)
LEMMA CutList ==
  ASSUME NEW S, NEW s \in Seq(S), IsInjective(s), NEW i \in 1..Len(s) + 1
  PROVE  /\ SubSeq(s, 1, i - 1) \in Seq(S) /\ IsInjective(SubSeq(s, 1, i - 1))
         /\ SubSeq(s, i, Len(s)) \in Seq(S) /\ IsInjective(SubSeq(s, i, Len(s)))
         /\ ToSet(SubSeq(s, 1, i - 1)) = {s[j] : j \in 1..i - 1}
         /\ ToSet(SubSeq(s, i, Len(s))) = {s[j] : j \in i..Len(s)}
<1> DEFINE a == SubSeq(s, 1, i - 1)  b == SubSeq(s, i, Len(s))
<1>1. /\ a \in Seq(S) /\ DOMAIN a = 1..i - 1 /\ DOMAIN s = 1..Len(s) /\ Len(s) \in Nat
      /\ \A j \in 1..i - 1 : a[j] = s[j]
  OBVIOUS
<1>2. /\ b \in Seq(S) /\ DOMAIN b = 1..Len(s) - i + 1
      /\ \A j \in 1..Len(s) - i + 1 : b[j] = s[i + j - 1]
  OBVIOUS
<1>3. IsInjective(a) /\ ToSet(a) = {s[j] : j \in 1..i - 1}
  BY <1>1 DEF IsInjective, ToSet
<1>4. IsInjective(b)
  <2> SUFFICES ASSUME NEW j \in 1..Len(s) - i + 1, NEW k \in 1..Len(s) - i + 1, b[j] = b[k]
               PROVE  j = k
    BY <1>2 DEF IsInjective
  <2>1. i + j - 1 \in 1..Len(s) /\ i + k - 1 \in 1..Len(s) /\ s[i + j - 1] = s[i + k - 1]
    BY <1>1, <1>2
  <2> QED BY <2>1, <1>1 DEF IsInjective
<1>5. ToSet(b) = {s[j] : j \in i..Len(s)}
  <2>1. ASSUME NEW j \in i..Len(s) PROVE s[j] \in ToSet(b)
    <3>1. j - i + 1 \in 1..Len(s) - i + 1 /\ b[j - i + 1] = s[j]
      BY <1>1, <1>2
    <3> QED BY <3>1, <1>2 DEF ToSet
  <2>2. ASSUME NEW j \in 1..Len(s) - i + 1 PROVE b[j] \in {s[k] : k \in i..Len(s)}
    <3>1. i + j - 1 \in i..Len(s) /\ b[j] = s[i + j - 1]
      BY <1>1, <1>2
    <3> QED BY <3>1
  <2> QED BY <2>1, <2>2, <1>2 DEF ToSet
<1> QED BY <1>1, <1>2, <1>3, <1>4, <1>5

LEMMA TwoHalves ==
  ASSUME NEW s, DOMAIN s = 1..Len(s), Len(s) \in Nat, IsInjective(s), NEW i \in 1..Len(s) + 1
  PROVE  /\ ToSet(s) = {s[j] : j \in 1..i - 1} \cup {s[j] : j \in i..Len(s)}
         /\ {s[j] : j \in 1..i - 1} \cap {s[j] : j \in i..Len(s)} = {}
<1>1. \A j \in 1..Len(s) : j \in 1..i - 1 \/ j \in i..Len(s)
  OBVIOUS
<1>2. (1..i - 1) \subseteq 1..Len(s) /\ (i..Len(s)) \subseteq 1..Len(s)
  OBVIOUS
<1>3. ToSet(s) = {s[j] : j \in 1..i - 1} \cup {s[j] : j \in i..Len(s)}
  BY <1>1, <1>2 DEF ToSet
<1>4. \A j \in 1..i - 1, k \in i..Len(s) : s[j] # s[k]
  BY <1>2 DEF IsInjective
<1> QED BY <1>3, <1>4

LEMMA InsertedList ==
  ASSUME NEW S, NEW s \in Seq(S), IsInjective(s), NEW x \in S, x \notin ToSet(s),
         NEW i \in 1..Len(s) + 1
  PROVE  /\ InsertAt(s, i, x) \in Seq(S) /\ IsInjective(InsertAt(s, i, x))
         /\ ToSet(InsertAt(s, i, x)) = ToSet(s) \cup {x}
<1> DEFINE a == SubSeq(s, 1, i - 1)  b == SubSeq(s, i, Len(s))
<1>1. /\ a \in Seq(S) /\ IsInjective(a) /\ b \in Seq(S) /\ IsInjective(b)
      /\ ToSet(a) = {s[j] : j \in 1..i - 1} /\ ToSet(b) = {s[j] : j \in i..Len(s)}
  BY CutList
<1> DEFINE one == <<x>>
<1>3. one \in Seq(S) /\ IsInjective(one) /\ ToSet(one) = {x}
  BY DEF IsInjective, ToSet
<1>0. DOMAIN s = 1..Len(s) /\ Len(s) \in Nat
  OBVIOUS
<1> HIDE DEF a, b, one
<1>2. ToSet(s) = ToSet(a) \cup ToSet(b) /\ ToSet(a) \cap ToSet(b) = {}
  BY <1>0, <1>1, TwoHalves
<1>4. a \o one \in Seq(S) /\ IsInjective(a \o one) /\ ToSet(a \o one) = ToSet(a) \cup {x}
  <2>1. ToSet(a) \cap ToSet(one) = {}
    BY <1>2, <1>3
  <2>2. /\ a \o one \in Seq(S) /\ IsInjective(a \o one)
        /\ ToSet(a \o one) = ToSet(a) \cup ToSet(one)
    <3>1. a \in Seq(S) /\ IsInjective(a)
      BY <1>1
    <3>2. one \in Seq(S) /\ IsInjective(one)
      BY <1>3
    <3> QED BY <3>1, <3>2, <2>1, JoinedLists
  <2> QED BY <2>2, <1>3
<1>5. /\ (a \o one) \o b \in Seq(S) /\ IsInjective((a \o one) \o b)
      /\ ToSet((a \o one) \o b) = ToSet(s) \cup {x}
  <2> DEFINE c == a \o one
  <2>1. ToSet(c) \cap ToSet(b) = {} /\ ToSet(c) \cup ToSet(b) = ToSet(s) \cup {x}
    BY <1>2, <1>4
  <2>2. c \in Seq(S) /\ IsInjective(c)
    BY <1>4
  <2> HIDE DEF c
  <2>3. c \o b \in Seq(S) /\ IsInjective(c \o b) /\ ToSet(c \o b) = ToSet(c) \cup ToSet(b)
    BY <2>1, <2>2, <1>1, JoinedLists
  <2> QED BY <2>1, <2>3 DEF c
<1> QED BY <1>5 DEF InsertAt, a, b, one

LEMMA ListWithout ==
  ASSUME NEW S, NEW s \in Seq(S), IsInjective(s), NEW x \in ToSet(s)
  PROVE  /\ Without(s, x) \in Seq(S) /\ IsInjective(Without(s, x))
         /\ ToSet(Without(s, x)) = ToSet(s) \ {x}
<1> DEFINE k == CHOOSE i \in 1..Len(s) : s[i] = x
<1>1. k \in 1..Len(s) /\ s[k] = x /\ DOMAIN s = 1..Len(s) /\ Len(s) \in Nat
  BY ListsOnce
<1> HIDE DEF k
<1> DEFINE a == SubSeq(s, 1, k - 1)  b == SubSeq(s, k + 1, Len(s))
<1>2. /\ a \in Seq(S) /\ IsInjective(a) /\ ToSet(a) = {s[j] : j \in 1..k - 1}
      /\ b \in Seq(S) /\ IsInjective(b) /\ ToSet(b) = {s[j] : j \in k + 1..Len(s)}
  <2>1. k \in 1..Len(s) + 1 /\ k + 1 \in 1..Len(s) + 1
    BY <1>1
  <2> QED BY <2>1, CutList
<1>3. ToSet(a) \cap ToSet(b) = {} /\ ToSet(a) \cup ToSet(b) = ToSet(s) \ {x}
  <2>1. /\ ToSet(s) = {s[j] : j \in 1..k - 1} \cup {s[j] : j \in k..Len(s)}
        /\ {s[j] : j \in 1..k - 1} \cap {s[j] : j \in k..Len(s)} = {}
    <3>1. k \in 1..Len(s) + 1
      BY <1>1
    <3> QED BY <3>1, <1>1, TwoHalves
  <2>2. {s[j] : j \in k..Len(s)} = {s[j] : j \in k + 1..Len(s)} \cup {x}
    BY <1>1
  <2>3. x \notin {s[j] : j \in k + 1..Len(s)}
    BY <1>1 DEF IsInjective
  <2> QED BY <2>1, <2>2, <2>3, <1>2
<1> HIDE DEF a, b
<1>4. a \o b \in Seq(S) /\ IsInjective(a \o b) /\ ToSet(a \o b) = ToSet(s) \ {x}
  BY <1>2, <1>3, JoinedLists
<1> QED BY <1>4 DEF Without, RemoveAt, a, b, k

LEMMA UpTo == ASSUME NEW n \in Nat PROVE IsFiniteSet(1..n) /\ Cardinality(1..n) = n
<1>1. IsFiniteSet(1..n) /\ Cardinality(1..n) = IF 1 > n THEN 0 ELSE n - 1 + 1
  BY FS_Interval
<1> QED BY <1>1

LEMMA ReorderedList ==
  ASSUME NEW S, NEW s \in Seq(S), IsInjective(s), NEW r \in Reorders(s)
  PROVE  r \in Seq(S) /\ IsInjective(r) /\ ToSet(r) = ToSet(s)
<1>1. /\ r \in [1..Len(s) -> ToSet(s)] /\ ToSet(r) = ToSet(s) /\ Len(s) \in Nat
      /\ ToSet(s) \subseteq S /\ DOMAIN s = 1..Len(s)
  BY ListsOnce DEF Reorders, IsReorder
<1>2. r \in Seq(S)
  BY <1>1
<1>3. IsFiniteSet(1..Len(s)) /\ Cardinality(1..Len(s)) = Len(s)
  BY <1>1, UpTo
<1>4. IsFiniteSet(ToSet(s)) /\ Cardinality(ToSet(s)) = Len(s)
  <2>1. s \in Bijection(1..Len(s), ToSet(s))
    BY <1>1 DEF ToSet, IsInjective, Bijection, Injection, Surjection
  <2> QED BY <2>1, <1>3, FS_Bijection DEF ExistsBijection
<1>5. r \in Surjection(1..Len(s), ToSet(s))
  BY <1>1 DEF Surjection, ToSet
<1>6. r \in Injection(1..Len(s), ToSet(s))
  BY <1>3, <1>4, <1>5, FS_Surjection DEF ExistsSurjection
<1> QED BY <1>1, <1>2, <1>6 DEF IsInjective, Injection

----------------------------------------------------------------------------
(* The tree.                                                               *)

(* u is a tree, has nothing but t's entities and new ones, and has all of  *)
(* t's entities, with their wordings, but those that are missing.             *)
Keeps(t, u, missing, new) ==
  /\ u \in DraftTrees /\ IsATree(u)
  /\ EntitiesIn(u) \subseteq EntitiesIn(t) \cup new
  /\ \A x \in EntitiesIn(t) \ missing : x \in EntitiesIn(u) /\ u.text[x] = t.text[x]

LEMMA KeepsTwice ==
  ASSUME NEW t, NEW u, NEW v, NEW g, NEW h, NEW n, Keeps(t, u, g, n), Keeps(u, v, h, {})
  PROVE  Keeps(t, v, g \cup h, n)
BY DEF Keeps

LEMMA TreeParts ==
  ASSUME NEW t \in DraftTrees
  PROVE  /\ t.doms \in Seq(Domains) /\ t.pracs \in [Domains -> Seq(Practices)]
         /\ t.qs \in [Practices -> SUBSET Questions]
         /\ t.text \in [Entities -> Wordings] /\ t.vocab \in Wordings
         /\ DomainsIn(t) \subseteq Domains
         /\ \A d \in Domains : t.pracs[d] \in Seq(Practices) /\ ToSet(t.pracs[d]) \subseteq Practices
<1>1. /\ t.doms \in Seq(Domains) /\ t.pracs \in [Domains -> Seq(Practices)]
      /\ t.qs \in [Practices -> SUBSET Questions]
      /\ t.text \in [Entities -> Wordings] /\ t.vocab \in Wordings
  BY DEF DraftTrees
<1> QED BY <1>1, ListsOnce DEF DomainsIn

(* In a tree, what is listed anywhere is in the tree.                      *)
LEMMA InTree ==
  ASSUME NEW t \in DraftTrees, IsATree(t)
  PROVE  /\ \A p : p \in PracticesIn(t) <=> \E d \in Domains : p \in ToSet(t.pracs[d])
         /\ \A q : q \in QuestionsIn(t) <=> \E p \in Practices : q \in t.qs[p]
         /\ PracticesIn(t) \subseteq Practices /\ QuestionsIn(t) \subseteq Questions
         /\ EntitiesIn(t) \subseteq Entities
         /\ \A d \in Domains : ToSet(t.pracs[d]) # {} => d \in DomainsIn(t)
<1>1. /\ DomainsIn(t) \subseteq Domains /\ t.qs \in [Practices -> SUBSET Questions]
      /\ \A d \in Domains : t.pracs[d] \in Seq(Practices) /\ ToSet(t.pracs[d]) \subseteq Practices
  BY TreeParts
<1>2. \A d \in Domains : ToSet(t.pracs[d]) # {} => t.pracs[d] # << >>
  BY <1>1, EmptyList
<1>3. \A d \in Domains : ToSet(t.pracs[d]) # {} => d \in DomainsIn(t)
  BY <1>2 DEF IsATree
<1>4. \A p : p \in PracticesIn(t) <=> \E d \in Domains : p \in ToSet(t.pracs[d])
  BY <1>1, <1>3 DEF PracticesIn
<1>5. PracticesIn(t) \subseteq Practices
  BY <1>1, <1>4
<1>6. \A p \in Practices : t.qs[p] # {} => p \in PracticesIn(t)
  BY DEF IsATree
<1>7. \A q : q \in QuestionsIn(t) <=> \E p \in Practices : q \in t.qs[p]
  BY <1>5, <1>6 DEF QuestionsIn
<1> QED BY <1>1, <1>3, <1>4, <1>5, <1>7 DEF EntitiesIn, Entities

(* The same lists and sets make the same tree, whatever the wordings.      *)
LEMMA SameShape ==
  ASSUME NEW t \in DraftTrees, IsATree(t), NEW u \in DraftTrees,
         u.doms = t.doms, u.pracs = t.pracs, u.qs = t.qs
  PROVE  IsATree(u) /\ EntitiesIn(u) = EntitiesIn(t) /\ DomainsIn(u) = DomainsIn(t)
         /\ PracticesIn(u) = PracticesIn(t) /\ QuestionsIn(u) = QuestionsIn(t)
<1>1. DomainsIn(u) = DomainsIn(t)
  BY DEF DomainsIn
<1>2. PracticesIn(u) = PracticesIn(t)
  BY <1>1 DEF PracticesIn
<1>3. QuestionsIn(u) = QuestionsIn(t)
  BY <1>2 DEF QuestionsIn
<1> QED BY <1>1, <1>2, <1>3 DEF IsATree, EntitiesIn

LEMMA Forgetting ==
  ASSUME NEW t \in DraftTrees, NEW missing
  PROVE  LET u == Forgotten(t, missing) IN
         /\ u \in DraftTrees /\ u.doms = t.doms /\ u.pracs = t.pracs /\ u.qs = t.qs
         /\ \A x \in Entities \ missing : u.text[x] = t.text[x]
<1> DEFINE text == [x \in Entities |-> IF x \in missing THEN Empty.text[x] ELSE t.text[x]]
<1>1. t.text \in [Entities -> Wordings]
  BY TreeParts
<1>2. \A x \in Entities : Empty.text[x] \in Wordings
  BY TextAssumption DEF Empty
<1>3. text \in [Entities -> Wordings] /\ \A x \in Entities \ missing : text[x] = t.text[x]
  BY <1>1, <1>2
<1> HIDE DEF text
<1>4. LET u == [t EXCEPT !.text = text] IN
      /\ u \in DraftTrees /\ u.doms = t.doms /\ u.pracs = t.pracs /\ u.qs = t.qs /\ u.text = text
  BY <1>3 DEF DraftTrees
<1> QED BY <1>3, <1>4 DEF Forgotten, text

LEMMA RewordingKeeps ==
  ASSUME NEW t \in DraftTrees, IsATree(t), NEW x \in EntitiesIn(t), NEW v \in Wordings
  PROVE  Keeps(t, Reworded(t, x, v), {x}, {})
<1> DEFINE u == Reworded(t, x, v)
<1>1. u \in DraftTrees /\ u.doms = t.doms /\ u.pracs = t.pracs /\ u.qs = t.qs
      /\ u.text = [t.text EXCEPT ![x] = v]
  BY DEF Reworded, DraftTrees
<1>2. IsATree(u) /\ EntitiesIn(u) = EntitiesIn(t) /\ EntitiesIn(t) \subseteq Entities
  BY <1>1, SameShape, InTree
<1>3. \A y \in EntitiesIn(t) \ {x} : u.text[y] = t.text[y]
  BY <1>1, <1>2, TreeParts
<1> QED BY <1>1, <1>2, <1>3 DEF Keeps

LEMMA VocabularyKeeps ==
  ASSUME NEW t \in DraftTrees, IsATree(t), NEW v \in Wordings
  PROVE  Keeps(t, [t EXCEPT !.vocab = v], {}, {})
<1> DEFINE u == [t EXCEPT !.vocab = v]
<1>1. u \in DraftTrees /\ u.doms = t.doms /\ u.pracs = t.pracs /\ u.qs = t.qs /\ u.text = t.text
  BY DEF DraftTrees
<1> HIDE DEF u
<1>2. IsATree(u) /\ EntitiesIn(u) = EntitiesIn(t)
  BY <1>1, SameShape
<1> QED BY <1>1, <1>2 DEF Keeps, u

(* A tree whose lists are t's and whose questions are others.              *)
LEMMA OtherQuestions ==
  ASSUME NEW t \in DraftTrees, IsATree(t), NEW u \in DraftTrees,
         u.doms = t.doms, u.pracs = t.pracs,
         \A p \in Practices : u.qs[p] # {} => p \in PracticesIn(t),
         \A p, o \in Practices : p # o => u.qs[p] \cap u.qs[o] = {}
  PROVE  IsATree(u) /\ DomainsIn(u) = DomainsIn(t) /\ PracticesIn(u) = PracticesIn(t)
<1>1. DomainsIn(u) = DomainsIn(t)
  BY DEF DomainsIn
<1>2. PracticesIn(u) = PracticesIn(t)
  BY <1>1 DEF PracticesIn
<1> QED BY <1>1, <1>2 DEF IsATree

(* Questions of a practice that exists: new ones, or the ones it has.      *)
LEMMA QuestionsPutKeeps ==
  ASSUME NEW t \in DraftTrees, IsATree(t), NEW p \in PracticesIn(t),
         NEW new \in SUBSET Questions, new \cap QuestionsIn(t) \subseteq t.qs[p]
  PROVE  Keeps(t, [t EXCEPT !.qs[p] = new], t.qs[p] \ new, new)
<1> DEFINE u == [t EXCEPT !.qs[p] = new]
<1>1. p \in Practices /\ t.qs \in [Practices -> SUBSET Questions]
      /\ \A q : q \in QuestionsIn(t) <=> \E o \in Practices : q \in t.qs[o]
  BY InTree, TreeParts
<1>2. u \in DraftTrees /\ u.doms = t.doms /\ u.pracs = t.pracs /\ u.text = t.text
      /\ u.qs = [t.qs EXCEPT ![p] = new]
  BY <1>1 DEF DraftTrees
<1> HIDE DEF u
<1>3. \A o \in Practices : u.qs[o] # {} => o \in PracticesIn(t)
  BY <1>1, <1>2 DEF IsATree
<1>4. \A o, m \in Practices : o # m => u.qs[o] \cap u.qs[m] = {}
  BY <1>1, <1>2 DEF IsATree
<1>5. IsATree(u) /\ DomainsIn(u) = DomainsIn(t) /\ PracticesIn(u) = PracticesIn(t)
  BY <1>2, <1>3, <1>4, OtherQuestions
<1>6. \A q : q \in QuestionsIn(u) <=> \E o \in Practices : q \in u.qs[o]
  BY <1>2, <1>5, InTree
<1>7. QuestionsIn(u) \subseteq QuestionsIn(t) \cup new /\ QuestionsIn(t) \ (t.qs[p] \ new) \subseteq QuestionsIn(u)
  BY <1>1, <1>2, <1>6
<1> QED BY <1>2, <1>5, <1>7 DEF Keeps, EntitiesIn, u

LEMMA QuestionRemovedKeeps ==
  ASSUME NEW t \in DraftTrees, IsATree(t), NEW q
  PROVE  Keeps(t, RemoveQuestion(t, q), {q}, {})
<1> DEFINE m == [t EXCEPT !.qs = [p \in Practices |-> t.qs[p] \ {q}]]
           u == RemoveQuestion(t, q)
<1>1. m \in DraftTrees /\ m.doms = t.doms /\ m.pracs = t.pracs /\ m.text = t.text
      /\ m.qs = [p \in Practices |-> t.qs[p] \ {q}]
  BY DEF DraftTrees
<1>2. u = Forgotten(m, {q})
  BY DEF RemoveQuestion
<1> HIDE DEF m, u
<1>3. u \in DraftTrees /\ u.doms = m.doms /\ u.pracs = m.pracs /\ u.qs = m.qs
      /\ \A x \in Entities \ {q} : u.text[x] = m.text[x]
  BY <1>1, <1>2, Forgetting
<1>4. \A p \in Practices : u.qs[p] # {} => p \in PracticesIn(t)
  BY <1>1, <1>3 DEF IsATree
<1>5. \A p, o \in Practices : p # o => u.qs[p] \cap u.qs[o] = {}
  BY <1>1, <1>3 DEF IsATree
<1>6. IsATree(u) /\ DomainsIn(u) = DomainsIn(t) /\ PracticesIn(u) = PracticesIn(t)
  BY <1>1, <1>3, <1>4, <1>5, OtherQuestions
<1>7. /\ \A x : x \in QuestionsIn(u) <=> \E o \in Practices : x \in u.qs[o]
      /\ \A x : x \in QuestionsIn(t) <=> \E o \in Practices : x \in t.qs[o]
      /\ EntitiesIn(t) \subseteq Entities
  BY <1>3, <1>6, InTree
<1>8. QuestionsIn(u) \subseteq QuestionsIn(t) /\ QuestionsIn(t) \ {q} \subseteq QuestionsIn(u)
  BY <1>1, <1>3, <1>7
<1> QED BY <1>1, <1>3, <1>6, <1>7, <1>8 DEF Keeps, EntitiesIn, u

LEMMA MakesTree ==
  ASSUME NEW u \in DraftTrees, IsInjective(u.doms), \A d \in Domains : IsInjective(u.pracs[d]),
         \A d \in Domains : ToSet(u.pracs[d]) # {} => d \in DomainsIn(u),
         \A d, e \in Domains : d # e => ToSet(u.pracs[d]) \cap ToSet(u.pracs[e]) = {},
         \A p \in Practices : u.qs[p] # {} => \E d \in Domains : p \in ToSet(u.pracs[d]),
         \A p, o \in Practices : p # o => u.qs[p] \cap u.qs[o] = {}
  PROVE  IsATree(u)
<1>1. \A d \in Domains : u.pracs[d] # << >> => ToSet(u.pracs[d]) # {}
  BY TreeParts, ListsOnce
<1>2. \A p \in Practices : u.qs[p] # {} => p \in PracticesIn(u)
  BY DEF PracticesIn
<1> QED BY <1>1, <1>2 DEF IsATree

(* Another order, or other domains, for the same practices and new ones.   *)
LEMMA OtherPractices ==
  ASSUME NEW t \in DraftTrees, IsATree(t), NEW u \in DraftTrees, NEW new,
         u.doms = t.doms, u.qs = t.qs, u.text = t.text,
         \A d \in Domains : IsInjective(u.pracs[d]),
         \A d \in Domains : ToSet(u.pracs[d]) # {} => d \in DomainsIn(t),
         \A d, e \in Domains : d # e => ToSet(u.pracs[d]) \cap ToSet(u.pracs[e]) = {},
         \A p \in PracticesIn(t) : \E d \in Domains : p \in ToSet(u.pracs[d]),
         \A d \in Domains : ToSet(u.pracs[d]) \subseteq PracticesIn(t) \cup new
  PROVE  Keeps(t, u, {}, new)
<1>1. DomainsIn(u) = DomainsIn(t)
  BY DEF DomainsIn
<1>2. IsInjective(u.doms) /\ \A p, o \in Practices : p # o => u.qs[p] \cap u.qs[o] = {}
  BY DEF IsATree
<1>3. \A p \in Practices : u.qs[p] # {} => \E d \in Domains : p \in ToSet(u.pracs[d])
  BY DEF IsATree
<1>4. IsATree(u)
  BY <1>1, <1>2, <1>3, MakesTree
<1>5. /\ PracticesIn(t) \subseteq PracticesIn(u) /\ PracticesIn(u) \subseteq PracticesIn(t) \cup new
      /\ QuestionsIn(u) = QuestionsIn(t)
  <2>1. /\ \A o : o \in PracticesIn(t) <=> \E d \in Domains : o \in ToSet(t.pracs[d])
        /\ \A q : q \in QuestionsIn(t) <=> \E o \in Practices : q \in t.qs[o]
    BY InTree
  <2>2. /\ \A o : o \in PracticesIn(u) <=> \E d \in Domains : o \in ToSet(u.pracs[d])
        /\ \A q : q \in QuestionsIn(u) <=> \E o \in Practices : q \in u.qs[o]
        /\ PracticesIn(u) \subseteq Practices
    BY <1>4, InTree
  <2>3. PracticesIn(t) \subseteq PracticesIn(u) /\ PracticesIn(u) \subseteq PracticesIn(t) \cup new
    BY <2>2
  <2> QED BY <2>1, <2>2, <2>3
<1> QED BY <1>1, <1>4, <1>5 DEF Keeps, EntitiesIn

LEMMA PracticeAppendedKeeps ==
  ASSUME NEW t \in DraftTrees, IsATree(t), NEW d \in DomainsIn(t),
         NEW p \in Practices, p \notin PracticesIn(t)
  PROVE  Keeps(t, [t EXCEPT !.pracs[d] = Append(@, p)], {}, {p})
<1> DEFINE u == [t EXCEPT !.pracs[d] = Append(@, p)]  s == t.pracs[d]
<1>1. d \in Domains /\ s \in Seq(Practices) /\ IsInjective(s) /\ p \notin ToSet(s)
  BY TreeParts, InTree DEF IsATree
<1>2. /\ Append(s, p) \in Seq(Practices) /\ IsInjective(Append(s, p))
      /\ ToSet(Append(s, p)) = ToSet(s) \cup {p}
  BY <1>1, AppendedList
<1>3. u \in DraftTrees /\ u.doms = t.doms /\ u.qs = t.qs /\ u.text = t.text
      /\ u.pracs = [t.pracs EXCEPT ![d] = Append(s, p)]
  BY <1>1, <1>2 DEF DraftTrees
<1> HIDE DEF u
<1>4. /\ \A e \in Domains : u.pracs[e] = IF e = d THEN Append(s, p) ELSE t.pracs[e]
      /\ \A e \in Domains : ToSet(u.pracs[e]) = ToSet(t.pracs[e]) \cup IF e = d THEN {p} ELSE {}
  BY <1>1, <1>2, <1>3, TreeParts
<1>5. /\ \A o : o \in PracticesIn(t) <=> \E e \in Domains : o \in ToSet(t.pracs[e])
      /\ \A e \in Domains : ToSet(t.pracs[e]) # {} => e \in DomainsIn(t)
      /\ \A e, f \in Domains : e # f => ToSet(t.pracs[e]) \cap ToSet(t.pracs[f]) = {}
      /\ \A e \in Domains : IsInjective(t.pracs[e])
  BY InTree DEF IsATree
<1> HIDE DEF s
<1>6. \A e \in Domains : IsInjective(u.pracs[e])
  BY <1>2, <1>4, <1>5
<1>7. \A e, f \in Domains : e # f => ToSet(u.pracs[e]) \cap ToSet(u.pracs[f]) = {}
  BY <1>4, <1>5
<1>8. /\ \A e \in Domains : ToSet(u.pracs[e]) # {} => e \in DomainsIn(t)
      /\ \A o \in PracticesIn(t) : \E e \in Domains : o \in ToSet(u.pracs[e])
      /\ \A e \in Domains : ToSet(u.pracs[e]) \subseteq PracticesIn(t) \cup {p}
  BY <1>4, <1>5
<1> QED BY <1>3, <1>6, <1>7, <1>8, OtherPractices DEF u

LEMMA DomainIs ==
  ASSUME NEW t \in DraftTrees, IsATree(t), NEW p \in PracticesIn(t)
  PROVE  /\ DomainOf(t, p) \in DomainsIn(t) /\ DomainOf(t, p) \in Domains
         /\ \A d \in Domains : p \in ToSet(t.pracs[d]) <=> d = DomainOf(t, p)
<1>1. \E d \in DomainsIn(t) : p \in ToSet(t.pracs[d])
  BY DEF PracticesIn
<1>2. DomainOf(t, p) \in DomainsIn(t) /\ p \in ToSet(t.pracs[DomainOf(t, p)])
  BY <1>1 DEF DomainOf
<1>3. DomainsIn(t) \subseteq Domains
  BY TreeParts
<1> QED BY <1>2, <1>3 DEF IsATree

LEMMA PracticeRemovedKeeps ==
  ASSUME NEW t \in DraftTrees, IsATree(t), NEW p \in PracticesIn(t)
  PROVE  Keeps(t, RemovePractice(t, p), {p} \cup t.qs[p], {})
<1> DEFINE d == DomainOf(t, p)  s == t.pracs[d]
           m == [t EXCEPT !.pracs[DomainOf(t, p)] = Without(@, p), !.qs[p] = {}]
           u == RemovePractice(t, p)
<1>1. d \in Domains /\ s \in Seq(Practices) /\ IsInjective(s) /\ p \in ToSet(s) /\ p \in Practices
  BY DomainIs, TreeParts, InTree DEF IsATree
<1>2. /\ Without(s, p) \in Seq(Practices) /\ IsInjective(Without(s, p))
      /\ ToSet(Without(s, p)) = ToSet(s) \ {p}
  BY <1>1, ListWithout
<1>3. m \in DraftTrees /\ m.doms = t.doms /\ m.text = t.text
      /\ m.qs = [t.qs EXCEPT ![p] = {}] /\ m.pracs = [t.pracs EXCEPT ![d] = Without(s, p)]
  BY <1>1, <1>2 DEF DraftTrees
<1>4. u = Forgotten(m, {p} \cup t.qs[p])
  BY DEF RemovePractice
<1> HIDE DEF m, u
<1>5. u \in DraftTrees /\ u.doms = m.doms /\ u.pracs = m.pracs /\ u.qs = m.qs
      /\ \A x \in Entities \ ({p} \cup t.qs[p]) : u.text[x] = m.text[x]
  BY <1>3, <1>4, Forgetting
<1>6. /\ \A e \in Domains : u.pracs[e] = IF e = d THEN Without(s, p) ELSE t.pracs[e]
      /\ \A o \in Practices : u.qs[o] = IF o = p THEN {} ELSE t.qs[o]
  BY <1>1, <1>3, <1>5, TreeParts
<1>7. \A e \in Domains : ToSet(u.pracs[e]) = ToSet(t.pracs[e]) \ {p}
  BY <1>2, <1>6, DomainIs
<1>8. /\ \A o : o \in PracticesIn(t) <=> \E e \in Domains : o \in ToSet(t.pracs[e])
      /\ \A q : q \in QuestionsIn(t) <=> \E o \in Practices : q \in t.qs[o]
      /\ \A e \in Domains : ToSet(t.pracs[e]) # {} => e \in DomainsIn(t)
      /\ EntitiesIn(t) \subseteq Entities
  BY InTree
<1>9. /\ \A e, f \in Domains : e # f => ToSet(t.pracs[e]) \cap ToSet(t.pracs[f]) = {}
      /\ \A e \in Domains : IsInjective(t.pracs[e])
      /\ \A o \in Practices : t.qs[o] # {} => o \in PracticesIn(t)
      /\ \A o, n \in Practices : o # n => t.qs[o] \cap t.qs[n] = {}
      /\ IsInjective(t.doms)
  BY DEF IsATree
<1>10. DomainsIn(u) = DomainsIn(t)
  BY <1>3, <1>5 DEF DomainsIn
<1> HIDE DEF s, d
<1>11. IsATree(u)
  <2>1. \A e \in Domains : IsInjective(u.pracs[e])
    BY <1>2, <1>6, <1>9
  <2>2. \A e, f \in Domains : e # f => ToSet(u.pracs[e]) \cap ToSet(u.pracs[f]) = {}
    BY <1>7, <1>9
  <2>3. \A e \in Domains : ToSet(u.pracs[e]) # {} => e \in DomainsIn(u)
    BY <1>7, <1>8, <1>10
  <2>4. \A o \in Practices : u.qs[o] # {} => \E e \in Domains : o \in ToSet(u.pracs[e])
    BY <1>6, <1>7, <1>8, <1>9
  <2>5. \A o, n \in Practices : o # n => u.qs[o] \cap u.qs[n] = {}
    BY <1>6, <1>9
  <2> QED BY <1>3, <1>5, <1>9, <2>1, <2>2, <2>3, <2>4, <2>5, MakesTree
<1>12. /\ \A o : o \in PracticesIn(u) <=> \E e \in Domains : o \in ToSet(u.pracs[e])
       /\ \A q : q \in QuestionsIn(u) <=> \E o \in Practices : q \in u.qs[o]
  BY <1>5, <1>11, InTree
<1>13. /\ PracticesIn(u) = PracticesIn(t) \ {p}
       /\ QuestionsIn(u) = QuestionsIn(t) \ t.qs[p]
  <2>1. PracticesIn(u) = PracticesIn(t) \ {p}
    BY <1>7, <1>8, <1>12
  <2>2. \A q : q \in QuestionsIn(u) <=> q \in QuestionsIn(t) /\ q \notin t.qs[p]
    BY <1>1, <1>6, <1>8, <1>9, <1>12
  <2> QED BY <2>1, <2>2
<1> QED BY <1>3, <1>5, <1>8, <1>10, <1>11, <1>13 DEF Keeps, EntitiesIn, u

LEMMA QuestionsMovedKeeps ==
  ASSUME NEW t \in DraftTrees, IsATree(t), NEW p \in PracticesIn(t), NEW r \in PracticesIn(t), r # p
  PROVE  /\ Keeps(t, QuestionsMoved(t, p, r), {}, {})
         /\ p \in PracticesIn(QuestionsMoved(t, p, r)) /\ QuestionsMoved(t, p, r).qs[p] = {}
<1> DEFINE u == QuestionsMoved(t, p, r)
<1>1. p \in Practices /\ r \in Practices /\ t.qs \in [Practices -> SUBSET Questions]
      /\ \A q : q \in QuestionsIn(t) <=> \E o \in Practices : q \in t.qs[o]
  BY InTree, TreeParts
<1>2. u \in DraftTrees /\ u.doms = t.doms /\ u.pracs = t.pracs /\ u.text = t.text
      /\ u.qs = [t.qs EXCEPT ![r] = t.qs[r] \cup t.qs[p], ![p] = {}]
  BY <1>1 DEF DraftTrees, QuestionsMoved
<1> HIDE DEF u
<1>3. \A o \in Practices : u.qs[o] = IF o = p THEN {} ELSE IF o = r THEN t.qs[r] \cup t.qs[p] ELSE t.qs[o]
  BY <1>1, <1>2
<1>4. \A o \in Practices : u.qs[o] # {} => o \in PracticesIn(t)
  BY <1>3 DEF IsATree
<1>5. \A o, m \in Practices : o # m => u.qs[o] \cap u.qs[m] = {}
  BY <1>1, <1>3 DEF IsATree
<1>6. IsATree(u) /\ DomainsIn(u) = DomainsIn(t) /\ PracticesIn(u) = PracticesIn(t)
  BY <1>2, <1>4, <1>5, OtherQuestions
<1>7. \A q : q \in QuestionsIn(u) <=> \E o \in Practices : q \in u.qs[o]
  BY <1>2, <1>6, InTree
<1>8. QuestionsIn(u) = QuestionsIn(t)
  <2>1. ASSUME NEW q \in QuestionsIn(t) PROVE q \in QuestionsIn(u)
    <3>1. PICK o \in Practices : q \in t.qs[o]
      BY <1>1
    <3>2. q \in u.qs[IF o = p THEN r ELSE o]
      BY <3>1, <1>1, <1>3
    <3> QED BY <3>2, <1>1, <1>7
  <2>2. ASSUME NEW q \in QuestionsIn(u) PROVE q \in QuestionsIn(t)
    BY <1>1, <1>3, <1>7
  <2> QED BY <2>1, <2>2
<1> QED BY <1>1, <1>2, <1>3, <1>6, <1>8 DEF Keeps, EntitiesIn, u

LEMMA PracticeMovedKeeps ==
  ASSUME NEW t \in DraftTrees, IsATree(t), NEW p \in PracticesIn(t),
         NEW d \in DomainsIn(t), d # DomainOf(t, p), NEW i \in 1..Len(t.pracs[d]) + 1
  PROVE  Keeps(t, PracticeMoved(t, p, d, i), {}, {})
<1> DEFINE c == DomainOf(t, p)  s == Without(t.pracs[c], p)  r == InsertAt(t.pracs[d], i, p)
           u == PracticeMoved(t, p, d, i)
<1>1. /\ c \in Domains /\ d \in Domains /\ p \in Practices /\ d # c
      /\ t.pracs \in [Domains -> Seq(Practices)]
      /\ \A e \in Domains : p \in ToSet(t.pracs[e]) <=> e = c
      /\ \A e \in Domains : t.pracs[e] \in Seq(Practices) /\ IsInjective(t.pracs[e])
      /\ c \in DomainsIn(t)
  BY DomainIs, TreeParts, InTree DEF IsATree
<1>2. s \in Seq(Practices) /\ IsInjective(s) /\ ToSet(s) = ToSet(t.pracs[c]) \ {p}
  BY <1>1, ListWithout
<1>3. r \in Seq(Practices) /\ IsInjective(r) /\ ToSet(r) = ToSet(t.pracs[d]) \cup {p}
  BY <1>1, InsertedList
<1>4. u = [t EXCEPT !.pracs = [t.pracs EXCEPT ![c] = s, ![d] = r]]
  BY <1>1 DEF PracticeMoved
<1> HIDE DEF s, r, u, c
<1>5. u \in DraftTrees /\ u.doms = t.doms /\ u.qs = t.qs /\ u.text = t.text
      /\ u.pracs = [t.pracs EXCEPT ![c] = s, ![d] = r]
  BY <1>1, <1>2, <1>3, <1>4 DEF DraftTrees
<1>6. \A e \in Domains : u.pracs[e] = IF e = d THEN r ELSE IF e = c THEN s ELSE t.pracs[e]
  BY <1>1, <1>5
<1>7. /\ \A o : o \in PracticesIn(t) <=> \E e \in Domains : o \in ToSet(t.pracs[e])
      /\ \A e \in Domains : ToSet(t.pracs[e]) # {} => e \in DomainsIn(t)
      /\ \A e, f \in Domains : e # f => ToSet(t.pracs[e]) \cap ToSet(t.pracs[f]) = {}
  BY InTree DEF IsATree
<1>8. \A e \in Domains : IsInjective(u.pracs[e])
  BY <1>1, <1>2, <1>3, <1>6
<1>9. \A e \in Domains : \A o : o \in ToSet(u.pracs[e]) <=>
        IF o = p THEN e = d ELSE o \in ToSet(t.pracs[e])
  BY <1>1, <1>2, <1>3, <1>6
<1>10. \A e, f \in Domains : e # f => ToSet(u.pracs[e]) \cap ToSet(u.pracs[f]) = {}
  BY <1>7, <1>9
<1>11. \A e \in Domains : ToSet(u.pracs[e]) # {} => e \in DomainsIn(t)
  BY <1>7, <1>9
<1>12. \A o \in PracticesIn(t) : \E e \in Domains : o \in ToSet(u.pracs[e])
  BY <1>1, <1>7, <1>9
<1>13. \A e \in Domains : ToSet(u.pracs[e]) \subseteq PracticesIn(t) \cup {}
  BY <1>7, <1>9
<1> QED BY <1>5, <1>8, <1>10, <1>11, <1>12, <1>13, OtherPractices DEF u

LEMMA PracticesReorderedKeeps ==
  ASSUME NEW t \in DraftTrees, IsATree(t), NEW d \in DomainsIn(t), NEW s \in Reorders(t.pracs[d])
  PROVE  Keeps(t, [t EXCEPT !.pracs[d] = s], {}, {})
<1> DEFINE u == [t EXCEPT !.pracs[d] = s]
<1>1. /\ d \in Domains /\ t.pracs \in [Domains -> Seq(Practices)]
      /\ \A e \in Domains : t.pracs[e] \in Seq(Practices) /\ IsInjective(t.pracs[e])
  BY TreeParts DEF IsATree
<1>2. s \in Seq(Practices) /\ IsInjective(s) /\ ToSet(s) = ToSet(t.pracs[d])
  BY <1>1, ReorderedList
<1>3. u \in DraftTrees /\ u.doms = t.doms /\ u.qs = t.qs /\ u.text = t.text
      /\ u.pracs = [t.pracs EXCEPT ![d] = s]
  BY <1>1, <1>2 DEF DraftTrees
<1> HIDE DEF u
<1>4. \A e \in Domains : IsInjective(u.pracs[e]) /\ ToSet(u.pracs[e]) = ToSet(t.pracs[e])
  BY <1>1, <1>2, <1>3
<1>5. /\ \A o : o \in PracticesIn(t) <=> \E e \in Domains : o \in ToSet(t.pracs[e])
      /\ \A e \in Domains : ToSet(t.pracs[e]) # {} => e \in DomainsIn(t)
      /\ \A e, f \in Domains : e # f => ToSet(t.pracs[e]) \cap ToSet(t.pracs[f]) = {}
  BY InTree DEF IsATree
<1>6. /\ \A e \in Domains : ToSet(u.pracs[e]) # {} => e \in DomainsIn(t)
      /\ \A e, f \in Domains : e # f => ToSet(u.pracs[e]) \cap ToSet(u.pracs[f]) = {}
      /\ \A o \in PracticesIn(t) : \E e \in Domains : o \in ToSet(u.pracs[e])
      /\ \A e \in Domains : ToSet(u.pracs[e]) \subseteq PracticesIn(t) \cup {}
  BY <1>4, <1>5
<1> QED BY <1>3, <1>4, <1>6, OtherPractices DEF u

(* Another list of domains over the same practices.                        *)
LEMMA OtherDomains ==
  ASSUME NEW t \in DraftTrees, IsATree(t), NEW s \in Seq(Domains), IsInjective(s),
         DomainsIn(t) \subseteq ToSet(s)
  PROVE  Keeps(t, [t EXCEPT !.doms = s], {}, ToSet(s))
<1> DEFINE u == [t EXCEPT !.doms = s]
<1>1. u \in DraftTrees /\ u.doms = s /\ u.pracs = t.pracs /\ u.qs = t.qs /\ u.text = t.text
  BY DEF DraftTrees
<1> HIDE DEF u
<1>2. DomainsIn(u) = ToSet(s)
  BY <1>1 DEF DomainsIn
<1>3. /\ \A o : o \in PracticesIn(t) <=> \E e \in Domains : o \in ToSet(t.pracs[e])
      /\ \A q : q \in QuestionsIn(t) <=> \E o \in Practices : q \in t.qs[o]
      /\ \A e \in Domains : ToSet(t.pracs[e]) # {} => e \in DomainsIn(t)
  BY InTree
<1>4. IsATree(u)
  <2>1. /\ IsInjective(u.doms) /\ \A e \in Domains : IsInjective(u.pracs[e])
        /\ \A e, f \in Domains : e # f => ToSet(u.pracs[e]) \cap ToSet(u.pracs[f]) = {}
        /\ \A o, n \in Practices : o # n => u.qs[o] \cap u.qs[n] = {}
        /\ \A o \in Practices : u.qs[o] # {} => \E e \in Domains : o \in ToSet(u.pracs[e])
    BY <1>1, <1>3 DEF IsATree
  <2>2. \A e \in Domains : ToSet(u.pracs[e]) # {} => e \in DomainsIn(u)
    BY <1>1, <1>2, <1>3
  <2> QED BY <1>1, <2>1, <2>2, MakesTree
<1>5. PracticesIn(u) = PracticesIn(t) /\ QuestionsIn(u) = QuestionsIn(t)
  <2>1. /\ \A o : o \in PracticesIn(u) <=> \E e \in Domains : o \in ToSet(u.pracs[e])
        /\ \A q : q \in QuestionsIn(u) <=> \E o \in Practices : q \in u.qs[o]
    BY <1>1, <1>4, InTree
  <2> QED BY <2>1, <1>1, <1>3
<1> QED BY <1>1, <1>2, <1>4, <1>5 DEF Keeps, EntitiesIn, u

LEMMA DomainAppendedKeeps ==
  ASSUME NEW t \in DraftTrees, IsATree(t), NEW d \in Domains, d \notin DomainsIn(t)
  PROVE  Keeps(t, [t EXCEPT !.doms = Append(@, d)], {}, {d})
<1>1. t.doms \in Seq(Domains) /\ IsInjective(t.doms) /\ d \notin ToSet(t.doms)
  BY TreeParts DEF IsATree, DomainsIn
<1>2. /\ Append(t.doms, d) \in Seq(Domains) /\ IsInjective(Append(t.doms, d))
      /\ ToSet(Append(t.doms, d)) = DomainsIn(t) \cup {d}
  BY <1>1, AppendedList DEF DomainsIn
<1>3. Keeps(t, [t EXCEPT !.doms = Append(t.doms, d)], {}, ToSet(Append(t.doms, d)))
  BY <1>2, OtherDomains
<1>4. [t EXCEPT !.doms = Append(t.doms, d)] = [t EXCEPT !.doms = Append(@, d)]
  OBVIOUS
<1> QED BY <1>2, <1>3, <1>4 DEF Keeps, EntitiesIn

LEMMA DomainsReorderedKeeps ==
  ASSUME NEW t \in DraftTrees, IsATree(t), NEW s \in Reorders(t.doms)
  PROVE  Keeps(t, [t EXCEPT !.doms = s], {}, {})
<1>1. t.doms \in Seq(Domains) /\ IsInjective(t.doms)
  BY TreeParts DEF IsATree
<1>2. s \in Seq(Domains) /\ IsInjective(s) /\ ToSet(s) = DomainsIn(t)
  BY <1>1, ReorderedList DEF DomainsIn
<1>3. Keeps(t, [t EXCEPT !.doms = s], {}, ToSet(s))
  BY <1>2, OtherDomains
<1> QED BY <1>2, <1>3 DEF Keeps, EntitiesIn

LEMMA DomainRemovedKeeps ==
  ASSUME NEW t \in DraftTrees, IsATree(t), NEW d \in DomainsIn(t)
  PROVE  Keeps(t, RemoveDomain(t, d), {d} \cup Below(t, d), {})
<1> DEFINE missing == {d} \cup Below(t, d)
           here == ToSet(t.pracs[d])
           s == Without(t.doms, d)
           m == [t EXCEPT !.doms = Without(@, d), !.pracs[d] = <<>>,
                          !.qs = [p \in Practices |-> IF p \in ToSet(t.pracs[d]) THEN {} ELSE @[p]]]
           u == RemoveDomain(t, d)
<1>1. d \in Domains /\ t.doms \in Seq(Domains) /\ IsInjective(t.doms) /\ d \in ToSet(t.doms)
      /\ t.pracs \in [Domains -> Seq(Practices)] /\ t.qs \in [Practices -> SUBSET Questions]
  BY TreeParts DEF IsATree, DomainsIn
<1>2. s \in Seq(Domains) /\ IsInjective(s) /\ ToSet(s) = DomainsIn(t) \ {d}
  BY <1>1, ListWithout DEF DomainsIn
<1>3. m \in DraftTrees /\ m.doms = s /\ m.text = t.text
      /\ m.pracs = [t.pracs EXCEPT ![d] = <<>>]
      /\ m.qs = [p \in Practices |-> IF p \in here THEN {} ELSE t.qs[p]]
  <2> DEFINE P == [t.pracs EXCEPT ![d] = <<>>]
             Q == [p \in Practices |-> IF p \in here THEN {} ELSE t.qs[p]]
  <2>1. m = [t EXCEPT !.doms = s, !.pracs = P, !.qs = Q]
    BY DEF DraftTrees
  <2>2. <<>> \in Seq(Practices)
    OBVIOUS
  <2>3. P \in [Domains -> Seq(Practices)]
    BY <1>1, <2>2
  <2>4. Q \in [Practices -> SUBSET Questions]
    BY <1>1
  <2> HIDE DEF m, P, Q, s
  <2> QED BY <2>1, <2>3, <2>4, <1>2 DEF DraftTrees, P, Q
<1>4. u = Forgotten(m, missing)
  BY DEF RemoveDomain
<1> HIDE DEF m, u, missing, s
<1>5. u \in DraftTrees /\ u.doms = m.doms /\ u.pracs = m.pracs /\ u.qs = m.qs
      /\ \A x \in Entities \ missing : u.text[x] = m.text[x]
  BY <1>3, <1>4, Forgetting
<1>6. /\ \A e \in Domains : u.pracs[e] = IF e = d THEN <<>> ELSE t.pracs[e]
      /\ \A o \in Practices : u.qs[o] = IF o \in here THEN {} ELSE t.qs[o]
      /\ DomainsIn(u) = DomainsIn(t) \ {d}
  BY <1>1, <1>2, <1>3, <1>5 DEF DomainsIn
<1>7. \A e \in Domains : ToSet(u.pracs[e]) = IF e = d THEN {} ELSE ToSet(t.pracs[e])
  BY <1>6, EmptyList
<1>8. /\ \A o : o \in PracticesIn(t) <=> \E e \in Domains : o \in ToSet(t.pracs[e])
      /\ \A q : q \in QuestionsIn(t) <=> \E o \in Practices : q \in t.qs[o]
      /\ \A e \in Domains : ToSet(t.pracs[e]) # {} => e \in DomainsIn(t)
      /\ EntitiesIn(t) \subseteq Entities /\ PracticesIn(t) \subseteq Practices
  BY InTree
<1>9. /\ \A e, f \in Domains : e # f => ToSet(t.pracs[e]) \cap ToSet(t.pracs[f]) = {}
      /\ \A e \in Domains : IsInjective(t.pracs[e])
      /\ \A o \in Practices : t.qs[o] # {} => o \in PracticesIn(t)
      /\ \A o, n \in Practices : o # n => t.qs[o] \cap t.qs[n] = {}
  BY DEF IsATree
<1>10. IsATree(u)
  <2>1. \A e \in Domains : IsInjective(u.pracs[e])
    BY <1>6, <1>9, EmptyList
  <2>2. \A e, f \in Domains : e # f => ToSet(u.pracs[e]) \cap ToSet(u.pracs[f]) = {}
    BY <1>7, <1>9
  <2>3. \A e \in Domains : ToSet(u.pracs[e]) # {} => e \in DomainsIn(u)
    BY <1>6, <1>7, <1>8
  <2>4. \A o \in Practices : u.qs[o] # {} => \E e \in Domains : o \in ToSet(u.pracs[e])
    BY <1>6, <1>7, <1>8, <1>9
  <2>5. \A o, n \in Practices : o # n => u.qs[o] \cap u.qs[n] = {}
    BY <1>6, <1>9
  <2> QED BY <1>2, <1>3, <1>5, <2>1, <2>2, <2>3, <2>4, <2>5, MakesTree
<1>11. /\ \A o : o \in PracticesIn(u) <=> \E e \in Domains : o \in ToSet(u.pracs[e])
       /\ \A q : q \in QuestionsIn(u) <=> \E o \in Practices : q \in u.qs[o]
  BY <1>5, <1>10, InTree
<1>12. PracticesIn(u) = PracticesIn(t) \ here
  <2>1. \A o : o \in PracticesIn(u) <=> \E e \in Domains \ {d} : o \in ToSet(t.pracs[e])
    BY <1>7, <1>11
  <2>2. \A o \in here, e \in Domains \ {d} : o \notin ToSet(t.pracs[e])
    BY <1>1, <1>9
  <2>3. \A o : o \in PracticesIn(t) \ here => \E e \in Domains \ {d} : o \in ToSet(t.pracs[e])
    BY <1>1, <1>8
  <2> QED BY <2>1, <2>2, <2>3, <1>8
<1>13. /\ QuestionsIn(u) \subseteq QuestionsIn(t)
       /\ QuestionsIn(t) \ UNION {t.qs[p] : p \in here} \subseteq QuestionsIn(u)
  BY <1>6, <1>8, <1>11
<1>14. missing = {d} \cup here \cup UNION {t.qs[p] : p \in here}
  BY DEF missing, Below
<1> HIDE DEF here
<1>15. EntitiesIn(u) \subseteq EntitiesIn(t)
  BY <1>6, <1>12, <1>13 DEF EntitiesIn
<1>16. EntitiesIn(t) \ missing \subseteq EntitiesIn(u)
  BY <1>6, <1>12, <1>13, <1>14 DEF EntitiesIn
<1>17. \A x \in EntitiesIn(t) \ missing : u.text[x] = t.text[x]
  BY <1>3, <1>5, <1>8
<1>18. Keeps(t, u, missing, {})
  BY <1>5, <1>10, <1>15, <1>16, <1>17 DEF Keeps
<1> QED BY <1>18 DEF u, missing

LEMMA PracticesMovedKeeps ==
  ASSUME NEW t \in DraftTrees, IsATree(t), NEW d \in DomainsIn(t), NEW c \in DomainsIn(t), c # d
  PROVE  /\ Keeps(t, PracticesMoved(t, d, c), {}, {})
         /\ d \in DomainsIn(PracticesMoved(t, d, c)) /\ Below(PracticesMoved(t, d, c), d) = {}
<1> DEFINE u == PracticesMoved(t, d, c)  s == t.pracs[c] \o t.pracs[d]
<1>1. /\ d \in Domains /\ c \in Domains /\ t.pracs \in [Domains -> Seq(Practices)]
      /\ \A e \in Domains : t.pracs[e] \in Seq(Practices) /\ IsInjective(t.pracs[e])
      /\ \A e, f \in Domains : e # f => ToSet(t.pracs[e]) \cap ToSet(t.pracs[f]) = {}
  BY TreeParts DEF IsATree
<1>2. /\ s \in Seq(Practices) /\ IsInjective(s)
      /\ ToSet(s) = ToSet(t.pracs[c]) \cup ToSet(t.pracs[d])
  <2>1. /\ t.pracs[c] \in Seq(Practices) /\ IsInjective(t.pracs[c])
        /\ t.pracs[d] \in Seq(Practices) /\ IsInjective(t.pracs[d])
        /\ ToSet(t.pracs[c]) \cap ToSet(t.pracs[d]) = {}
    BY <1>1
  <2> QED BY <2>1, JoinedLists
<1>3. u = [t EXCEPT !.pracs = [t.pracs EXCEPT ![c] = s, ![d] = <<>>]]
  BY <1>1 DEF PracticesMoved
<1> HIDE DEF u, s
<1>4. u \in DraftTrees /\ u.doms = t.doms /\ u.qs = t.qs /\ u.text = t.text
      /\ u.pracs = [t.pracs EXCEPT ![c] = s, ![d] = <<>>]
  <2> DEFINE P == [t.pracs EXCEPT ![c] = s, ![d] = <<>>]
  <2>1. <<>> \in Seq(Practices)
    OBVIOUS
  <2>2. P \in [Domains -> Seq(Practices)]
    BY <1>1, <1>2, <2>1
  <2> HIDE DEF P
  <2> QED BY <2>2, <1>3 DEF DraftTrees, P
<1>5. \A e \in Domains : u.pracs[e] = IF e = d THEN <<>> ELSE IF e = c THEN s ELSE t.pracs[e]
  BY <1>1, <1>4
<1>6. \A e \in Domains : ToSet(u.pracs[e]) =
        IF e = d THEN {} ELSE IF e = c THEN ToSet(t.pracs[c]) \cup ToSet(t.pracs[d]) ELSE ToSet(t.pracs[e])
  BY <1>2, <1>5, EmptyList
<1>7. \A e \in Domains : IsInjective(u.pracs[e])
  BY <1>1, <1>2, <1>5, EmptyList
<1>8. /\ \A o : o \in PracticesIn(t) <=> \E e \in Domains : o \in ToSet(t.pracs[e])
      /\ \A e \in Domains : ToSet(t.pracs[e]) # {} => e \in DomainsIn(t)
  BY InTree
<1>9. \A e, f \in Domains : e # f => ToSet(u.pracs[e]) \cap ToSet(u.pracs[f]) = {}
  BY <1>1, <1>6
<1>10. /\ \A e \in Domains : ToSet(u.pracs[e]) # {} => e \in DomainsIn(t)
       /\ \A e \in Domains : ToSet(u.pracs[e]) \subseteq PracticesIn(t) \cup {}
  BY <1>1, <1>6, <1>8
<1>11. ASSUME NEW o \in PracticesIn(t) PROVE \E e \in Domains : o \in ToSet(u.pracs[e])
  <2>1. PICK e \in Domains : o \in ToSet(t.pracs[e])
    BY <1>8
  <2>2. o \in ToSet(u.pracs[IF e = d THEN c ELSE e])
    BY <2>1, <1>1, <1>6
  <2> QED BY <2>2, <1>1
<1>12. Keeps(t, u, {}, {})
  BY <1>4, <1>7, <1>9, <1>10, <1>11, OtherPractices
<1>13. d \in DomainsIn(u) /\ Below(u, d) = {}
  BY <1>1, <1>4, <1>6 DEF DomainsIn, Below
<1> QED BY <1>12, <1>13 DEF u

----------------------------------------------------------------------------
(* The authors: what holds of the draft, the versions and each writer's    *)
(* copy in every state.                                                    *)

IsDraft(t) == t \in DraftTrees /\ IsATree(t) /\ EntitiesIn(t) \subseteq minted

HasTree == {"edit", "questions", "vocabulary", "reset", "rewrite", "publish", "meta"}
Reading == {"edit", "structure", "questions", "vocabulary", "rewrite"}
Kinds == HasTree \cup {"idle", "structure", "regenerate"}

ListedCount == Cardinality(Listed)

(* A copy is a tree, and the draft itself while the ETag is good; a name   *)
(* nobody chose was the next one when it was taken.                        *)
WriterOK(l) ==
  /\ l \in [kind : Kinds, tree : DraftTrees \cup {None}, fresh : BOOLEAN,
            on : Practices \cup Questions \cup Names \cup {None}]
  /\ l.kind \in HasTree => l.tree # None
  /\ l.tree # None => IsDraft(l.tree)
  /\ l.kind \in Reading /\ l.fresh => l.tree = draft
  /\ l.kind = "structure" /\ l.tree # None => DomainsIn(l.tree) = {}
  /\ l.kind = "questions" => l.on \in PracticesIn(l.tree) /\ l.tree.qs[l.on] = {}
  /\ l.kind \in {"publish", "meta"} => l.on \in Names /\ (~chosen => l.on <= ListedCount + 1)
  /\ l.kind = "meta" => yaml[l.on] # None

DraftInv ==
  /\ draft # None => IsDraft(draft)
  /\ \A n \in Names : yaml[n] # None => IsDraft(yaml[n])
  /\ loc \in [Writers -> {loc[w] : w \in Writers}] /\ \A w \in Writers : WriterOK(loc[w])
  /\ minted \subseteq Entities /\ named \subseteq Entities /\ chosen \in BOOLEAN
  /\ calls \in 0..MaxCalls

(* What is listed has its content and a rank, the last one the highest;    *)
(* as long as nobody chose a name, no name is beyond the next one.         *)
PublishInv ==
  /\ yaml \in [Names -> {yaml[n] : n \in Names}]
  /\ meta \in [Names -> 0..MaxVersion + 1]
  /\ \A n \in Names : meta[n] # 0 => yaml[n] # None
  /\ Listed # {} => \E n \in Listed : meta[n] = ListedCount /\ \A m \in Listed : meta[m] <= meta[n]
  /\ ~chosen => \A n \in Names : yaml[n] # None => n <= ListedCount + 1
  /\ ~chosen => \A n \in Listed : n <= ListedCount

(* The rest of the state changes, and this writer's record is right.       *)
LEMMA OkStays ==
  ASSUME NEW l, WriterOK(l), draft' = draft \/ ~l.fresh \/ l.kind \notin Reading,
         \A n \in Names : yaml[n] # None => yaml'[n] # None,
         minted \subseteq minted', ~chosen' => ~chosen, ListedCount <= ListedCount',
         ListedCount \in Nat, ListedCount' \in Nat
  PROVE  WriterOK(l)'
<1>1. l.kind \in {"publish", "meta"} => l.on \in Names /\ (~chosen' => l.on <= ListedCount' + 1)
  BY DEF WriterOK, Names
<1>2. l.kind = "meta" => yaml'[l.on] # None
  BY DEF WriterOK
<1> QED BY <1>1, <1>2 DEF WriterOK, IsDraft

(* Nobody else's put makes a copy any worse than old.                      *)
LEMMA OldStays ==
  ASSUME NEW l, WriterOK(l), UNCHANGED <<yaml, meta, chosen>>, minted \subseteq minted'
  PROVE  WriterOK([l EXCEPT !.fresh = FALSE])'
<1> DEFINE o == [l EXCEPT !.fresh = FALSE]
<1>1. /\ o \in [kind : Kinds, tree : DraftTrees \cup {None}, fresh : BOOLEAN,
                on : Practices \cup Questions \cup Names \cup {None}]
      /\ o.kind = l.kind /\ o.tree = l.tree /\ o.on = l.on /\ o.fresh = FALSE
  BY DEF WriterOK
<1>2. ListedCount' = ListedCount
  BY DEF ListedCount, Listed
<1> HIDE DEF o
<1>3. WriterOK(o)'
  BY <1>1, <1>2 DEF WriterOK, IsDraft
<1> QED BY <1>3 DEF o

LEMMA IdleIsOk == WriterOK(Idle)
BY DEF WriterOK, Idle, Kinds, HasTree, Reading

LEMMA CountsAreNumbers ==
  ASSUME PublishInv
  PROVE  /\ Listed \subseteq Names /\ IsFiniteSet(Names) /\ IsFiniteSet(Listed) /\ ListedCount \in Nat
         /\ Cardinality(Names) = MaxVersion + 1
         /\ \A n \in Names : n \in Nat
<1>1. Listed \subseteq Names
  BY DEF Listed
<1>2. IsFiniteSet(0..MaxVersion) /\ Cardinality(0..MaxVersion) = IF 0 > MaxVersion THEN 0 ELSE MaxVersion - 0 + 1
  BY BoundsAssumption, FS_Interval
<1>3. IsFiniteSet(Names) /\ Cardinality(Names) = MaxVersion + 1
  BY <1>2, BoundsAssumption DEF Names
<1>4. IsFiniteSet(Listed)
  BY <1>1, <1>3, FS_Subset
<1>5. ListedCount \in Nat
  BY <1>4, FS_CardinalityType DEF ListedCount
<1> QED BY <1>1, <1>3, <1>4, <1>5, BoundsAssumption DEF Names

(* One writer's record changes and nothing is written.                     *)
LEMMA RecordMoves ==
  ASSUME DraftInv, PublishInv, NEW w \in Writers, NEW l, WriterOK(l)',
         loc' = [loc EXCEPT ![w] = l], UNCHANGED <<draft, yaml, meta, minted, named>>,
         ~chosen' => ~chosen, chosen' \in BOOLEAN, calls' \in 0..MaxCalls
  PROVE  DraftInv' /\ PublishInv'
<1>1. Listed' = Listed /\ ListedCount' = ListedCount /\ ListedCount \in Nat
  BY CountsAreNumbers DEF Listed, ListedCount
<1>2. \A x \in Writers : loc'[x] = IF x = w THEN l ELSE loc[x]
  BY DEF DraftInv
<1>3. ASSUME NEW x \in Writers PROVE WriterOK(loc[x])
  BY DEF DraftInv
<1>4. ASSUME NEW x \in Writers, x # w PROVE WriterOK(loc[x])'
  <2>1. PICK k : k = loc[x]
    OBVIOUS
  <2>2. loc'[x] = k
    BY <2>1, <1>2, <1>4
  <2>3. WriterOK(k)
    BY <2>1, <1>3
  <2>4. WriterOK(k)'
    BY <2>3, <1>1, OkStays
  <2> QED BY <2>2, <2>4
<1>5. ASSUME NEW x \in Writers PROVE WriterOK(loc[x])'
  <2>1. CASE x = w
    <3>1. loc'[x] = l
      BY <1>2, <2>1
    <3> QED BY <3>1
  <2> QED BY <1>4, <2>1
<1>6. loc' \in [Writers -> {loc'[x] : x \in Writers}]
  BY DEF DraftInv
<1>7. DraftInv'
  BY <1>5, <1>6 DEF DraftInv, IsDraft
<1>8. PublishInv'
  BY <1>1 DEF PublishInv
<1> QED BY <1>7, <1>8

(* A tree is put in the draft's place.                                     *)
LEMMA PutMoves ==
  ASSUME DraftInv, PublishInv, NEW w \in Writers, NEW u, NEW about, Put(w, u, about),
         u \in DraftTrees, IsATree(u), EntitiesIn(u) \subseteq minted', minted \subseteq minted',
         minted' \subseteq Entities, about \subseteq Entities
  PROVE  DraftInv' /\ PublishInv'
<1>1. /\ draft' = u /\ UNCHANGED <<yaml, meta, calls, chosen>> /\ named' = about
      /\ loc' = [x \in Writers |-> IF x = w THEN Idle ELSE [loc[x] EXCEPT !.fresh = FALSE]]
  BY DEF Put
<1>2. Listed' = Listed /\ ListedCount' = ListedCount
  BY <1>1 DEF Listed, ListedCount
<1>3. ASSUME NEW x \in Writers PROVE WriterOK(loc[x])
  BY DEF DraftInv
<1>4. ASSUME NEW x \in Writers PROVE WriterOK(loc[x])'
  <2>1. CASE x = w
    <3>1. loc'[x] = Idle
      BY <1>1, <2>1
    <3>2. WriterOK(Idle)'
      BY IdleIsOk, PTL
    <3> QED BY <3>1, <3>2
  <2>2. CASE x # w
    <3>1. PICK k : k = loc[x]
      OBVIOUS
    <3>2. loc'[x] = [k EXCEPT !.fresh = FALSE]
      BY <3>1, <1>1, <2>2
    <3>3. WriterOK(k)
      BY <3>1, <1>3
    <3>4. WriterOK([k EXCEPT !.fresh = FALSE])'
      BY <3>3, <1>1, OldStays
    <3> QED BY <3>2, <3>4
  <2> QED BY <2>1, <2>2
<1>5. loc' \in [Writers -> {loc'[x] : x \in Writers}]
  BY <1>1
<1>6. IsDraft(draft)' /\ \A n \in Names : yaml'[n] # None => IsDraft(yaml[n])'
  BY <1>1 DEF DraftInv, IsDraft
<1>7. DraftInv'
  BY <1>1, <1>4, <1>5, <1>6 DEF DraftInv
<1>8. PublishInv'
  BY <1>1, <1>2 DEF PublishInv
<1> QED BY <1>7, <1>8

LEMMA KeepsMore ==
  ASSUME NEW t, NEW u, NEW g, NEW h, NEW n, NEW m, Keeps(t, u, g, n),
         g \subseteq h, n \subseteq EntitiesIn(t) \cup m
  PROVE  Keeps(t, u, h, m)
BY DEF Keeps

(* A surgical tool puts a changed copy of the draft, which keeps all that  *)
(* the tool does not name.                                                 *)
Written(w, u, about, new) ==
  /\ Put(w, u, about) /\ minted' = minted \cup new
  /\ new \subseteq Entities /\ about \subseteq Entities
Surgery(w, t) ==
  \E u, about, new : Written(w, u, about, new) /\ Keeps(t, u, about, new)

LEMMA OperatedOn ==
  ASSUME NEW w, NEW t, NEW u, NEW about, NEW new, Save(w, u, about), minted' = minted \cup new,
         new \subseteq Entities, about \subseteq Entities, Keeps(t, u, about, new)
  PROVE  Surgery(w, t)
BY DEF Surgery, Written, Save

LEMMA QuestionTools ==
  ASSUME DraftInv, NEW w \in Writers,
         AddQuestion(w) \/ EditQuestion(w) \/ DeleteQuestion(w) \/ RewriteQuestion(w)
  PROVE  Surgery(w, loc[w].tree)
<1> DEFINE t == loc[w].tree
<1>1. t \in DraftTrees /\ IsATree(t) /\ EntitiesIn(t) \subseteq minted
  BY DEF DraftInv, WriterOK, IsDraft, HasTree, AddQuestion, EditQuestion, DeleteQuestion,
         RewriteQuestion, Editing
<1>2. QuestionsIn(t) \subseteq EntitiesIn(t) /\ EntitiesIn(t) \subseteq Entities
      /\ Questions \subseteq Entities /\ minted = minted \cup {}
  BY <1>1, InTree DEF EntitiesIn, Entities
<1>3. CASE AddQuestion(w)
  <2>1. PICK p \in PracticesIn(t), q \in Questions \ minted :
             Save(w, [t EXCEPT !.qs[p] = @ \cup {q}], {q}) /\ minted' = minted \cup {q}
    BY <1>3 DEF AddQuestion
  <2> DEFINE new == t.qs[p] \cup {q}
  <2>2. p \in Practices /\ new \in SUBSET Questions /\ q \notin QuestionsIn(t)
        /\ t.qs[p] \subseteq QuestionsIn(t)
    BY <1>1, <1>2, InTree, TreeParts
  <2>3. Keeps(t, [t EXCEPT !.qs[p] = new], t.qs[p] \ new, new)
    BY <1>1, <2>2, QuestionsPutKeeps
  <2>4. Keeps(t, [t EXCEPT !.qs[p] = new], {q}, {q})
    <3>1. t.qs[p] \ new \subseteq {q} /\ new \subseteq EntitiesIn(t) \cup {q}
      BY <1>2, <2>2
    <3> QED BY <2>3, <3>1, KeepsMore
  <2>5. [t EXCEPT !.qs[p] = new] = [t EXCEPT !.qs[p] = @ \cup {q}]
    OBVIOUS
  <2> QED BY <1>2, <2>1, <2>4, <2>5, OperatedOn
<1>4. CASE EditQuestion(w)
  <2>1. PICK q \in QuestionsIn(t), v \in Wordings :
             Save(w, Reworded(t, q, v), {q}) /\ minted' = minted
    BY <1>4 DEF EditQuestion
  <2>2. Keeps(t, Reworded(t, q, v), {q}, {})
    BY <1>1, <1>2, RewordingKeeps
  <2> QED BY <1>2, <2>1, <2>2, OperatedOn
<1>5. CASE DeleteQuestion(w)
  <2>1. PICK q \in QuestionsIn(t) : Save(w, RemoveQuestion(t, q), {q}) /\ minted' = minted
    BY <1>5 DEF DeleteQuestion
  <2>2. Keeps(t, RemoveQuestion(t, q), {q}, {})
    BY <1>1, QuestionRemovedKeeps
  <2> QED BY <1>2, <2>1, <2>2, OperatedOn
<1>6. CASE RewriteQuestion(w)
  <2>1. PICK v \in Wordings : /\ Save(w, Reworded(t, loc[w].on, v), {loc[w].on}) /\ minted' = minted
                              /\ loc[w].on \in QuestionsIn(t)
    BY <1>6 DEF RewriteQuestion
  <2>2. Keeps(t, Reworded(t, loc[w].on, v), {loc[w].on}, {})
    BY <1>1, <1>2, <2>1, RewordingKeeps
  <2> QED BY <1>2, <2>1, <2>2, OperatedOn
<1> QED BY <1>3, <1>4, <1>5, <1>6

LEMMA PracticeTools ==
  ASSUME DraftInv, NEW w \in Writers,
         AddPractice(w) \/ EditPractice(w) \/ DeletePractice(w) \/ MovePractice(w)
           \/ ReorderPractices(w)
  PROVE  Surgery(w, loc[w].tree)
<1> DEFINE t == loc[w].tree
<1>1. t \in DraftTrees /\ IsATree(t) /\ EntitiesIn(t) \subseteq minted
  BY DEF DraftInv, WriterOK, IsDraft, HasTree, AddPractice, EditPractice, DeletePractice,
         MovePractice, ReorderPractices, Editing
<1>2. PracticesIn(t) \subseteq EntitiesIn(t) /\ EntitiesIn(t) \subseteq Entities
      /\ Practices \subseteq Entities /\ minted = minted \cup {} /\ {} \subseteq Entities
  BY <1>1, InTree DEF EntitiesIn, Entities
<1>3. CASE AddPractice(w)
  <2>1. PICK d \in DomainsIn(t), p \in Practices \ minted :
             Save(w, [t EXCEPT !.pracs[d] = Append(@, p)], {p}) /\ minted' = minted \cup {p}
    BY <1>3 DEF AddPractice
  <2>2. Keeps(t, [t EXCEPT !.pracs[d] = Append(@, p)], {}, {p})
    <3>1. p \in Practices /\ p \notin PracticesIn(t)
      BY <1>1, <1>2
    <3> QED BY <1>1, <3>1, PracticeAppendedKeeps
  <2>3. Keeps(t, [t EXCEPT !.pracs[d] = Append(@, p)], {p}, {p})
    BY <2>2, KeepsMore
  <2> QED BY <1>2, <2>1, <2>3, OperatedOn
<1>4. CASE EditPractice(w)
  <2>1. PICK p \in PracticesIn(t), v \in Wordings :
             Save(w, Reworded(t, p, v), {p}) /\ minted' = minted
    BY <1>4 DEF EditPractice
  <2>2. Keeps(t, Reworded(t, p, v), {p}, {})
    BY <1>1, <1>2, RewordingKeeps
  <2> QED BY <1>2, <2>1, <2>2, OperatedOn
<1>5. CASE DeletePractice(w)
  <2>1. PICK p \in PracticesIn(t) :
          /\ minted' = minted
          /\ \/ Save(w, RemovePractice(t, p), {p} \cup t.qs[p])
             \/ \E r \in PracticesIn(t) \ {p} : Save(w, RemovePractice(QuestionsMoved(t, p, r), p), {p})
    BY <1>5 DEF DeletePractice
  <2>2. CASE Save(w, RemovePractice(t, p), {p} \cup t.qs[p])
    <3>1. Keeps(t, RemovePractice(t, p), {p} \cup t.qs[p], {})
      BY <1>1, PracticeRemovedKeeps
    <3>2. {p} \cup t.qs[p] \subseteq Entities
      BY <1>1, <1>2, TreeParts, InTree DEF Entities
    <3> QED BY <1>2, <2>1, <2>2, <3>1, <3>2, OperatedOn
  <2>3. ASSUME NEW r \in PracticesIn(t) \ {p}, Save(w, RemovePractice(QuestionsMoved(t, p, r), p), {p})
        PROVE  Surgery(w, t)
    <3> DEFINE m == QuestionsMoved(t, p, r)
    <3>1. Keeps(t, m, {}, {}) /\ p \in PracticesIn(m) /\ m.qs[p] = {}
      BY <1>1, QuestionsMovedKeeps
    <3>2. m \in DraftTrees /\ IsATree(m)
      BY <3>1 DEF Keeps
    <3> HIDE DEF m
    <3>3. Keeps(m, RemovePractice(m, p), {p} \cup m.qs[p], {})
      BY <3>1, <3>2, PracticeRemovedKeeps
    <3>4. Keeps(t, RemovePractice(m, p), {p}, {})
      <4>1. Keeps(t, RemovePractice(m, p), {} \cup ({p} \cup m.qs[p]), {})
        BY <3>1, <3>3, KeepsTwice
      <4>2. {} \cup ({p} \cup m.qs[p]) = {p}
        BY <3>1
      <4> QED BY <4>1, <4>2
    <3> QED BY <1>2, <2>1, <2>3, <3>4, OperatedOn DEF m
  <2> QED BY <2>1, <2>2, <2>3
<1>6. CASE MovePractice(w)
  <2>1. PICK p \in PracticesIn(t) : minted' = minted
          /\ \E d \in DomainsIn(t) \ {DomainOf(t, p)} : \E i \in 1..Len(t.pracs[d]) + 1 :
               Save(w, PracticeMoved(t, p, d, i), {})
    BY <1>6 DEF MovePractice
  <2>2. PICK d \in DomainsIn(t) \ {DomainOf(t, p)} : \E i \in 1..Len(t.pracs[d]) + 1 :
               Save(w, PracticeMoved(t, p, d, i), {})
    BY <2>1
  <2>3. PICK i \in 1..Len(t.pracs[d]) + 1 : Save(w, PracticeMoved(t, p, d, i), {})
    BY <2>2
  <2>4. Keeps(t, PracticeMoved(t, p, d, i), {}, {})
    BY <1>1, PracticeMovedKeeps
  <2> QED BY <1>2, <2>1, <2>3, <2>4, OperatedOn
<1>7. CASE ReorderPractices(w)
  <2>1. PICK d \in DomainsIn(t) : minted' = minted
          /\ \E s \in Reorders(t.pracs[d]) : Save(w, [t EXCEPT !.pracs[d] = s], {})
    BY <1>7 DEF ReorderPractices
  <2>2. PICK s \in Reorders(t.pracs[d]) : Save(w, [t EXCEPT !.pracs[d] = s], {})
    BY <2>1
  <2>3. Keeps(t, [t EXCEPT !.pracs[d] = s], {}, {})
    BY <1>1, PracticesReorderedKeeps
  <2> QED BY <1>2, <2>1, <2>2, <2>3, OperatedOn
<1> QED BY <1>3, <1>4, <1>5, <1>6, <1>7

LEMMA DomainTools ==
  ASSUME DraftInv, NEW w \in Writers,
         AddDomain(w) \/ EditDomain(w) \/ DeleteDomain(w) \/ ReorderDomains(w)
  PROVE  Surgery(w, loc[w].tree)
<1> DEFINE t == loc[w].tree
<1>1. t \in DraftTrees /\ IsATree(t) /\ EntitiesIn(t) \subseteq minted
  BY DEF DraftInv, WriterOK, IsDraft, HasTree, AddDomain, EditDomain, DeleteDomain,
         ReorderDomains, Editing
<1>2. DomainsIn(t) \subseteq EntitiesIn(t) /\ EntitiesIn(t) \subseteq Entities
      /\ Domains \subseteq Entities /\ minted = minted \cup {} /\ {} \subseteq Entities
  BY <1>1, InTree DEF EntitiesIn, Entities
<1>3. CASE AddDomain(w)
  <2>1. PICK d \in Domains \ minted :
             Save(w, [t EXCEPT !.doms = Append(@, d)], {d}) /\ minted' = minted \cup {d}
    BY <1>3 DEF AddDomain
  <2>2. Keeps(t, [t EXCEPT !.doms = Append(@, d)], {}, {d})
    <3>1. d \in Domains /\ d \notin DomainsIn(t)
      BY <1>1, <1>2
    <3> QED BY <1>1, <3>1, DomainAppendedKeeps
  <2>3. Keeps(t, [t EXCEPT !.doms = Append(@, d)], {d}, {d})
    BY <2>2, KeepsMore
  <2> QED BY <1>2, <2>1, <2>3, OperatedOn
<1>4. CASE EditDomain(w)
  <2>1. PICK d \in DomainsIn(t), v \in Wordings :
             Save(w, Reworded(t, d, v), {d}) /\ minted' = minted
    BY <1>4 DEF EditDomain
  <2>2. Keeps(t, Reworded(t, d, v), {d}, {})
    BY <1>1, <1>2, RewordingKeeps
  <2> QED BY <1>2, <2>1, <2>2, OperatedOn
<1>5. CASE DeleteDomain(w)
  <2>1. PICK d \in DomainsIn(t) :
          /\ minted' = minted
          /\ \/ Save(w, RemoveDomain(t, d), {d} \cup Below(t, d))
             \/ \E c \in DomainsIn(t) \ {d} : Save(w, RemoveDomain(PracticesMoved(t, d, c), d), {d})
    BY <1>5 DEF DeleteDomain
  <2>2. CASE Save(w, RemoveDomain(t, d), {d} \cup Below(t, d))
    <3>1. Keeps(t, RemoveDomain(t, d), {d} \cup Below(t, d), {})
      BY <1>1, DomainRemovedKeeps
    <3>2. {d} \cup Below(t, d) \subseteq Entities
      <4>1. d \in Domains /\ ToSet(t.pracs[d]) \subseteq Practices
            /\ \A p \in Practices : t.qs[p] \subseteq Questions
        BY <1>1, TreeParts
      <4> QED BY <4>1 DEF Entities, Below
    <3> QED BY <1>2, <2>1, <2>2, <3>1, <3>2, OperatedOn
  <2>3. ASSUME NEW c \in DomainsIn(t) \ {d}, Save(w, RemoveDomain(PracticesMoved(t, d, c), d), {d})
        PROVE  Surgery(w, t)
    <3> DEFINE m == PracticesMoved(t, d, c)
    <3>1. Keeps(t, m, {}, {}) /\ d \in DomainsIn(m) /\ Below(m, d) = {}
      BY <1>1, PracticesMovedKeeps
    <3>2. m \in DraftTrees /\ IsATree(m)
      BY <3>1 DEF Keeps
    <3> HIDE DEF m
    <3>3. Keeps(m, RemoveDomain(m, d), {d} \cup Below(m, d), {})
      BY <3>1, <3>2, DomainRemovedKeeps
    <3>4. Keeps(t, RemoveDomain(m, d), {d}, {})
      <4>1. Keeps(t, RemoveDomain(m, d), {} \cup ({d} \cup Below(m, d)), {})
        BY <3>1, <3>3, KeepsTwice
      <4>2. {} \cup ({d} \cup Below(m, d)) = {d}
        BY <3>1
      <4> QED BY <4>1, <4>2
    <3> QED BY <1>2, <2>1, <2>3, <3>4, OperatedOn DEF m
  <2> QED BY <2>1, <2>2, <2>3
<1>6. CASE ReorderDomains(w)
  <2>1. PICK s \in Reorders(t.doms) : minted' = minted /\ Save(w, [t EXCEPT !.doms = s], {})
    BY <1>6 DEF ReorderDomains
  <2>2. Keeps(t, [t EXCEPT !.doms = s], {}, {})
    BY <1>1, DomainsReorderedKeeps
  <2> QED BY <1>2, <2>1, <2>2, OperatedOn
<1> QED BY <1>3, <1>4, <1>5, <1>6

(* The copy a surgical tool changes is the draft: its ETag is good.        *)
LEMMA SurgicalWrites ==
  ASSUME DraftInv, NEW w \in Writers, Surgical(w)
  PROVE  draft # None /\ Surgery(w, draft)
<1>1. Surgery(w, loc[w].tree)
  BY QuestionTools, PracticeTools, DomainTools DEF Surgical
<1>2. loc[w].kind \in {"edit", "rewrite"}
  BY DEF Surgical, AddQuestion, EditQuestion, DeleteQuestion, RewriteQuestion, AddPractice,
         EditPractice, DeletePractice, MovePractice, ReorderPractices, AddDomain, EditDomain,
         DeleteDomain, ReorderDomains, Editing
<1>3. loc[w].fresh
  BY DEF Surgical, AddQuestion, EditQuestion, DeleteQuestion, RewriteQuestion, AddPractice,
         EditPractice, DeletePractice, MovePractice, ReorderPractices, AddDomain, EditDomain,
         DeleteDomain, ReorderDomains, Save, Matches
<1>4. WriterOK(loc[w])
  BY DEF DraftInv
<1>5. loc[w].tree = draft /\ loc[w].tree # None
  BY <1>2, <1>3, <1>4 DEF WriterOK, Reading, HasTree
<1> QED BY <1>1, <1>5

LEMMA SurgicalMoves ==
  ASSUME DraftInv, PublishInv, NEW w \in Writers, Surgical(w)
  PROVE  DraftInv' /\ PublishInv'
<1>1. draft # None /\ Surgery(w, draft)
  BY SurgicalWrites
<1>2. PICK u, about, new : Written(w, u, about, new) /\ Keeps(draft, u, about, new)
  BY <1>1 DEF Surgery
<1>3. EntitiesIn(draft) \subseteq minted /\ minted \subseteq Entities
  BY <1>1 DEF DraftInv, IsDraft
<1>4. /\ Put(w, u, about) /\ minted' = minted \cup new /\ minted' \subseteq Entities
      /\ about \subseteq Entities /\ u \in DraftTrees /\ IsATree(u)
      /\ EntitiesIn(u) \subseteq minted'
  BY <1>2, <1>3 DEF Written, Keeps
<1> QED BY <1>4, PutMoves

(* The tools that save without a condition put a tree too: a given one, or *)
(* a copy that was the draft or a version when it was read.                *)
LEMMA WholesaleMoves ==
  ASSUME DraftInv, PublishInv, NEW w \in Writers, Wholesale(w)
  PROVE  DraftInv' /\ PublishInv'
<1> DEFINE t == loc[w].tree
<1>1. minted \subseteq Entities /\ WriterOK(loc[w])
  BY DEF DraftInv
<1>2. CASE SaveStructure(w)
  <2>1. PICK u \in Structures : Put(w, u, {}) /\ minted' = minted \cup EntitiesIn(u)
    BY <1>2 DEF SaveStructure
  <2>2. u \in DraftTrees /\ IsATree(u)
    BY GivenTrees
  <2>3. EntitiesIn(u) \subseteq Entities
    BY <2>2, InTree
  <2> QED BY <1>1, <2>1, <2>2, <2>3, PutMoves
<1>3. ASSUME loc[w].kind \in HasTree
      PROVE  t \in DraftTrees /\ IsATree(t) /\ EntitiesIn(t) \subseteq minted
  BY <1>1, <1>3 DEF WriterOK, IsDraft
<1>4. CASE SaveQuestions(w)
  <2>1. PICK new \in SUBSET (Questions \ minted) :
          Put(w, [t EXCEPT !.qs[loc[w].on] = new], {}) /\ minted' = minted \cup new
    BY <1>4 DEF SaveQuestions
  <2>2. t \in DraftTrees /\ IsATree(t) /\ EntitiesIn(t) \subseteq minted /\ loc[w].on \in PracticesIn(t)
    BY <1>1, <1>3, <1>4 DEF SaveQuestions, HasTree, WriterOK
  <2>3. new \in SUBSET Questions /\ new \cap QuestionsIn(t) \subseteq t.qs[loc[w].on]
    BY <2>2 DEF EntitiesIn
  <2>4. Keeps(t, [t EXCEPT !.qs[loc[w].on] = new], t.qs[loc[w].on] \ new, new)
    BY <2>2, <2>3, QuestionsPutKeeps
  <2>5. PICK u : u = [t EXCEPT !.qs[loc[w].on] = new]
    OBVIOUS
  <2>6. u \in DraftTrees /\ IsATree(u) /\ EntitiesIn(u) \subseteq minted' /\ minted' \subseteq Entities
    BY <1>1, <2>1, <2>2, <2>4, <2>5 DEF Keeps, Entities
  <2> QED BY <2>1, <2>5, <2>6, PutMoves
<1>5. CASE SaveVocabulary(w)
  <2>1. PICK v \in Wordings : Put(w, [t EXCEPT !.vocab = v], {}) /\ minted' = minted
    BY <1>5 DEF SaveVocabulary
  <2>2. t \in DraftTrees /\ IsATree(t) /\ EntitiesIn(t) \subseteq minted
    BY <1>3, <1>5 DEF SaveVocabulary, HasTree
  <2>3. Keeps(t, [t EXCEPT !.vocab = v], {}, {})
    BY <2>2, VocabularyKeeps
  <2>4. PICK u : u = [t EXCEPT !.vocab = v]
    OBVIOUS
  <2>5. u \in DraftTrees /\ IsATree(u) /\ EntitiesIn(u) \subseteq minted' /\ minted' \subseteq Entities
    BY <1>1, <2>1, <2>2, <2>3, <2>4 DEF Keeps
  <2> QED BY <2>1, <2>4, <2>5, PutMoves
<1>6. CASE SaveReset(w)
  <2>1. Put(w, t, {}) /\ minted' = minted
    BY <1>6 DEF SaveReset
  <2>2. t \in DraftTrees /\ IsATree(t) /\ EntitiesIn(t) \subseteq minted
    BY <1>3, <1>6 DEF SaveReset, HasTree
  <2> QED BY <1>1, <2>1, <2>2, PutMoves
<1> QED BY <1>2, <1>4, <1>5, <1>6 DEF Wholesale

(* Calls and loads take a copy; what is given up leaves none.              *)
LEMMA Copying ==
  ASSUME DraftInv, PublishInv, NEW w \in Writers, NEW kind, NEW tree, NEW on,
         loc' = [loc EXCEPT ![w] = Doing(kind, tree, on)],
         UNCHANGED <<draft, yaml, meta, minted, named>>, calls' \in 0..MaxCalls,
         ~chosen' => ~chosen, chosen' \in BOOLEAN,
         kind \in Kinds, tree = None \/ IsDraft(tree),
         on \in Practices \cup Questions \cup Names \cup {None},
         kind \in HasTree => tree # None, kind \in Reading => tree = draft,
         kind = "structure" /\ tree # None => DomainsIn(tree) = {},
         kind = "questions" => on \in PracticesIn(tree) /\ tree.qs[on] = {},
         kind # "meta",
         kind = "publish" => on \in Names /\ (~chosen' => on <= ListedCount + 1)
  PROVE  DraftInv' /\ PublishInv'
<1> DEFINE l == Doing(kind, tree, on)
<1>1. /\ l \in [kind : Kinds, tree : DraftTrees \cup {None}, fresh : BOOLEAN,
                on : Practices \cup Questions \cup Names \cup {None}]
      /\ l.kind = kind /\ l.tree = tree /\ l.on = on /\ l.fresh = TRUE
  BY DEF Doing, IsDraft
<1>2. ListedCount' = ListedCount
  BY DEF ListedCount, Listed
<1> HIDE DEF l
<1>3. WriterOK(l)'
  BY <1>1, <1>2 DEF WriterOK, IsDraft
<1>4. loc' = [loc EXCEPT ![w] = l]
  BY DEF l
<1> QED BY <1>3, <1>4, RecordMoves

LEMMA CallsMove ==
  ASSUME DraftInv, PublishInv, NEW w \in Writers,
         CallEdit(w) \/ CallRegenerate(w) \/ LoadRegenerated(w) \/ CallStructure(w)
           \/ CallQuestions(w) \/ CallVocabulary(w) \/ CallReset(w) \/ CallPublish(w) \/ GiveUp(w)
  PROVE  DraftInv' /\ PublishInv'
<1>1. calls \in 0..MaxCalls /\ MaxCalls \in Nat /\ chosen \in BOOLEAN
      /\ (draft # None => IsDraft(draft)) /\ WriterOK(loc[w])
  BY BoundsAssumption DEF DraftInv
<1>2. ASSUME NEW kind, NEW tree, NEW on, Call(w, Doing(kind, tree, on))
      PROVE  loc' = [loc EXCEPT ![w] = Doing(kind, tree, on)] /\ calls' \in 0..MaxCalls
             /\ UNCHANGED <<draft, yaml, meta, minted, named>>
  BY <1>1, <1>2 DEF Call
<1> USE DEF Kinds, HasTree, Reading
<1>3. CASE CallEdit(w)
  <2>1. draft # None /\ Call(w, Doing("edit", draft, None)) /\ chosen' = chosen
    BY <1>3 DEF CallEdit
  <2> QED BY <1>1, <1>2, <2>1, Copying
<1>4. CASE CallRegenerate(w)
  <2>1. PICK q \in QuestionsIn(draft) :
          draft # None /\ Call(w, Doing("regenerate", None, q)) /\ chosen' = chosen
    BY <1>4 DEF CallRegenerate
  <2>2. q \in Questions
    BY <1>1, <2>1, InTree DEF IsDraft
  <2> QED BY <1>1, <1>2, <2>1, <2>2, Copying
<1>5. CASE LoadRegenerated(w)
  <2>1. /\ draft # None /\ loc' = [loc EXCEPT ![w] = Doing("rewrite", draft, loc[w].on)]
        /\ UNCHANGED <<draft, yaml, meta, minted, calls, named, chosen>>
    BY <1>5 DEF LoadRegenerated
  <2>2. PICK o \in Practices \cup Questions \cup Names \cup {None} : o = loc[w].on
    BY <1>1 DEF WriterOK
  <2>3. loc' = [loc EXCEPT ![w] = Doing("rewrite", draft, o)]
    BY <2>1, <2>2
  <2>4. /\ calls' \in 0..MaxCalls /\ chosen' \in BOOLEAN /\ (~chosen' => ~chosen)
        /\ UNCHANGED <<draft, yaml, meta, minted, named>> /\ draft # None /\ IsDraft(draft)
    BY <1>1, <2>1
  <2>5. o \in Practices \cup Questions \cup Names \cup {None}
    BY <2>2
  <2>6. /\ "rewrite" \in Kinds /\ "rewrite" \in HasTree /\ "rewrite" # "structure"
        /\ "rewrite" # "questions" /\ "rewrite" # "meta" /\ "rewrite" # "publish"
    OBVIOUS
  <2> HIDE DEF Kinds, HasTree, Reading
  <2> QED BY <2>3, <2>4, <2>5, <2>6, Copying
<1>6. CASE CallStructure(w)
  <2>1. /\ draft # None => DomainsIn(draft) = {}
        /\ Call(w, Doing("structure", draft, None)) /\ chosen' = chosen
    BY <1>6 DEF CallStructure
  <2> QED BY <1>1, <1>2, <2>1, Copying
<1>7. CASE CallQuestions(w)
  <2>1. PICK p \in PracticesIn(draft) :
          /\ draft # None /\ draft.qs[p] = {} /\ Call(w, Doing("questions", draft, p))
          /\ chosen' = chosen
    BY <1>7 DEF CallQuestions
  <2>2. p \in Practices
    BY <1>1, <2>1, InTree DEF IsDraft
  <2> QED BY <1>1, <1>2, <2>1, <2>2, Copying
<1>8. CASE CallVocabulary(w)
  <2>1. draft # None /\ Call(w, Doing("vocabulary", draft, None)) /\ chosen' = chosen
    BY <1>8 DEF CallVocabulary
  <2> QED BY <1>1, <1>2, <2>1, Copying
<1>9. CASE CallReset(w)
  <2>1. PICK n \in Names : yaml[n] # None /\ Call(w, Doing("reset", yaml[n], n)) /\ chosen' = chosen
    BY <1>9 DEF CallReset
  <2>2. IsDraft(yaml[n])
    BY <2>1 DEF DraftInv
  <2> QED BY <1>1, <1>2, <2>1, <2>2, Copying
<1>10. CASE CallPublish(w)
  <2>1. PICK n \in Names :
          /\ draft # None /\ Call(w, Doing("publish", draft, n))
          /\ chosen' \in {chosen \/ n # 0} \cup (IF n = DefaultName THEN {chosen} ELSE {})
    BY <1>10 DEF CallPublish
  <2>2. ~chosen' => n = 0 \/ n = ListedCount + 1
    BY <2>1 DEF DefaultName, ListedCount
  <2>3. ListedCount \in Nat
    BY CountsAreNumbers
  <2>4. /\ chosen' \in BOOLEAN /\ (~chosen' => ~chosen)
    BY <1>1, <2>1
  <2>5. ~chosen' => n <= ListedCount + 1
    BY <2>2, <2>3
  <2> QED BY <1>1, <1>2, <2>1, <2>4, <2>5, Copying
<1>11. CASE GiveUp(w)
  <2>1. loc' = [loc EXCEPT ![w] = Idle] /\ UNCHANGED <<draft, yaml, meta, minted, calls, named, chosen>>
    BY <1>11 DEF GiveUp
  <2>2. WriterOK(Idle)'
    BY IdleIsOk, PTL
  <2> QED BY <1>1, <2>1, <2>2, RecordMoves
<1> QED BY <1>3, <1>4, <1>5, <1>6, <1>7, <1>8, <1>9, <1>10, <1>11

(* The content of a version is created under a name nobody had.            *)
LEMMA CreateContentMoves ==
  ASSUME DraftInv, PublishInv, NEW w \in Writers, CreateContent(w)
  PROVE  DraftInv' /\ PublishInv'
<1>1. PICK l : l = loc[w]
  OBVIOUS
<1>2. /\ l.kind = "publish" /\ yaml[l.on] = None /\ yaml' = [yaml EXCEPT ![l.on] = l.tree]
      /\ loc' = [loc EXCEPT ![w] = [l EXCEPT !.kind = "meta"]]
      /\ UNCHANGED <<draft, meta, minted, calls, named, chosen>>
  BY <1>1 DEF CreateContent, NameIsFree
<1>3. WriterOK(l)
  BY <1>1 DEF DraftInv
<1>4. /\ l.on \in Names /\ l.tree # None /\ IsDraft(l.tree)
      /\ (~chosen => l.on <= ListedCount + 1)
  BY <1>2, <1>3 DEF WriterOK, HasTree
<1>5. /\ Listed' = Listed /\ ListedCount' = ListedCount /\ ListedCount \in Nat
  BY <1>2, CountsAreNumbers DEF Listed, ListedCount
<1>6. /\ DOMAIN yaml = Names
      /\ \A n \in Names : yaml'[n] = IF n = l.on THEN l.tree ELSE yaml[n]
      /\ yaml' \in [Names -> {yaml'[n] : n \in Names}]
  BY <1>2, <1>4 DEF PublishInv
<1>7. \A n \in Names : yaml[n] # None => yaml'[n] # None
  BY <1>2, <1>4, <1>6
<1> DEFINE m == [l EXCEPT !.kind = "meta"]
<1>8. /\ m \in [kind : Kinds, tree : DraftTrees \cup {None}, fresh : BOOLEAN,
                on : Practices \cup Questions \cup Names \cup {None}]
      /\ m.kind = "meta" /\ m.tree = l.tree /\ m.on = l.on /\ m.fresh = l.fresh
  BY <1>3 DEF WriterOK, Kinds, HasTree
<1> HIDE DEF m
<1>9. WriterOK(m)'
  BY <1>2, <1>4, <1>5, <1>6, <1>8 DEF WriterOK, IsDraft, Reading
<1>10. \A x \in Writers : loc'[x] = IF x = w THEN m ELSE loc[x]
  BY <1>2 DEF DraftInv, m
<1>11. ASSUME NEW x \in Writers PROVE WriterOK(loc[x])'
  <2>1. CASE x = w
    <3>1. loc'[x] = m
      BY <1>10, <2>1
    <3> QED BY <3>1, <1>9
  <2>2. CASE x # w
    <3>1. PICK k : k = loc[x]
      OBVIOUS
    <3>2. loc'[x] = k /\ WriterOK(k)
      BY <3>1, <1>10, <2>2 DEF DraftInv
    <3>3. WriterOK(k)'
      BY <3>2, <1>2, <1>5, <1>7, OkStays
    <3> QED BY <3>2, <3>3
  <2> QED BY <2>1, <2>2
<1>12. loc' \in [Writers -> {loc'[x] : x \in Writers}]
  BY <1>2 DEF DraftInv
<1>13. \A n \in Names : yaml'[n] # None => IsDraft(yaml[n])'
  BY <1>2, <1>4, <1>6 DEF DraftInv, IsDraft
<1>14. DraftInv'
  <2>1. (draft # None => IsDraft(draft))'
    BY <1>2 DEF DraftInv, IsDraft
  <2> QED BY <1>2, <1>11, <1>12, <1>13, <2>1 DEF DraftInv
<1>15. PublishInv'
  <2>1. \A n \in Names : meta'[n] # 0 => yaml'[n] # None
    BY <1>2, <1>7 DEF PublishInv
  <2>2. ~chosen' => \A n \in Names : yaml'[n] # None => n <= ListedCount' + 1
    BY <1>2, <1>4, <1>5, <1>6 DEF PublishInv
  <2> QED BY <1>2, <1>5, <1>6, <2>1, <2>2 DEF PublishInv
<1> QED BY <1>14, <1>15

(* Its metadata follows, with the next rank.                               *)
LEMMA CreateMetaMoves ==
  ASSUME DraftInv, PublishInv, NEW w \in Writers, CreateMeta(w)
  PROVE  DraftInv' /\ PublishInv'
<1>1. PICK o : o = loc[w].on
  OBVIOUS
<1>2. /\ loc[w].kind = "meta" /\ meta[o] = 0 /\ meta' = [meta EXCEPT ![o] = ListedCount + 1]
      /\ loc' = [loc EXCEPT ![w] = Idle]
      /\ UNCHANGED <<draft, yaml, minted, calls, named, chosen>>
  BY <1>1 DEF CreateMeta, ListedCount
<1>3. o \in Names /\ yaml[o] # None /\ (~chosen => o <= ListedCount + 1)
  BY <1>1, <1>2 DEF DraftInv, WriterOK
<1>4. /\ Listed \subseteq Names /\ IsFiniteSet(Names) /\ IsFiniteSet(Listed) /\ ListedCount \in Nat
      /\ Cardinality(Names) = MaxVersion + 1 /\ MaxVersion \in Nat /\ \A n \in Names : n \in Nat
  BY CountsAreNumbers, BoundsAssumption
<1>5. o \notin Listed /\ o \in Names
  BY <1>2, <1>3 DEF Listed
<1>6. ListedCount < MaxVersion + 1
  <2>1. Listed # Names
    BY <1>5
  <2>2. Cardinality(Listed) <= Cardinality(Names)
        /\ (Cardinality(Listed) = Cardinality(Names) => Listed = Names)
    BY <1>4, FS_Subset
  <2> QED BY <1>4, <2>1, <2>2 DEF ListedCount
<1>7. /\ meta' \in [Names -> 0..MaxVersion + 1]
      /\ \A n \in Names : meta'[n] = IF n = o THEN ListedCount + 1 ELSE meta[n]
  BY <1>2, <1>4, <1>5, <1>6 DEF PublishInv
<1>8. Listed' = Listed \cup {o}
  BY <1>4, <1>5, <1>7 DEF Listed
<1>9. ListedCount' = ListedCount + 1
  <2>1. Cardinality(Listed \cup {o}) = Cardinality(Listed) + 1
    BY <1>4, <1>5, FS_AddElement
  <2> QED BY <1>8, <2>1 DEF ListedCount
<1>10. \A x \in Writers : loc'[x] = IF x = w THEN Idle ELSE loc[x]
  BY <1>2 DEF DraftInv
<1>11. ASSUME NEW x \in Writers PROVE WriterOK(loc[x])'
  <2>1. CASE x = w
    <3>1. loc'[x] = Idle
      BY <1>10, <2>1
    <3>2. WriterOK(Idle)'
      BY IdleIsOk, PTL
    <3> QED BY <3>1, <3>2
  <2>2. CASE x # w
    <3>1. PICK k : k = loc[x]
      OBVIOUS
    <3>2. loc'[x] = k /\ WriterOK(k)
      BY <3>1, <1>10, <2>2 DEF DraftInv
    <3>3. ListedCount <= ListedCount' /\ ListedCount' \in Nat /\ ListedCount \in Nat
      BY <1>4, <1>9
    <3>4. WriterOK(k)'
      BY <3>2, <3>3, <1>2, OkStays
    <3> QED BY <3>2, <3>4
  <2> QED BY <2>1, <2>2
<1>12. loc' \in [Writers -> {loc'[x] : x \in Writers}]
  BY <1>2 DEF DraftInv
<1>13. DraftInv'
  <2>1. (draft # None => IsDraft(draft))' /\ \A n \in Names : yaml'[n] # None => IsDraft(yaml[n])'
    BY <1>2 DEF DraftInv, IsDraft
  <2> QED BY <1>2, <1>11, <1>12, <2>1 DEF DraftInv
<1>14. PublishInv'
  <2>1. \A n \in Names : meta'[n] # 0 => yaml'[n] # None
    BY <1>2, <1>3, <1>7 DEF PublishInv
  <2>2. /\ o \in Listed' /\ meta'[o] = ListedCount'
        /\ \A m \in Listed' : meta'[m] <= meta'[o]
    <3>1. \A m \in Listed : meta[m] <= ListedCount
      BY <1>4 DEF PublishInv
    <3> QED BY <3>1, <1>4, <1>5, <1>7, <1>8, <1>9
  <2>3. ~chosen' => \A n \in Names : yaml'[n] # None => n <= ListedCount' + 1
    BY <1>2, <1>4, <1>9 DEF PublishInv
  <2>4. ~chosen' => \A n \in Listed' : n <= ListedCount'
    BY <1>2, <1>3, <1>4, <1>8, <1>9 DEF PublishInv
  <2> QED BY <1>2, <1>7, <2>1, <2>2, <2>3, <2>4 DEF PublishInv
<1> QED BY <1>13, <1>14

LEMMA DraftStepMoves ==
  ASSUME DraftInv, PublishInv, [DraftNext]_draftVars
  PROVE  DraftInv' /\ PublishInv'
<1>1. CASE UNCHANGED draftVars
  <2>1. Listed' = Listed /\ ListedCount' = ListedCount
    BY <1>1 DEF draftVars, Listed, ListedCount
  <2> QED BY <1>1, <2>1 DEF draftVars, DraftInv, PublishInv, WriterOK, IsDraft
<1>2. ASSUME NEW w \in Writers, WriterStep(w) PROVE DraftInv' /\ PublishInv'
  BY <1>2, SurgicalMoves, WholesaleMoves, CallsMove, CreateContentMoves, CreateMetaMoves
     DEF WriterStep
<1> QED BY <1>1, <1>2 DEF DraftNext

----------------------------------------------------------------------------
(* The respondent's requests.                                              *)

Within(c) == c.answers \subseteq QuestionsIn(yaml[c.version])
Bound == {"check", "load", "save"}

(* A copy is of a listed version; while it is the last one read or written *)
(* it is the response.  Until a response is written over another one, all  *)
(* copies are of its version, and so are the questions that were accepted. *)
RequestOK(q) ==
  /\ q \in [step : Bound \cup {"none", "create"}, op : {"none", "answer", "clear", "submit"},
            q : Questions \cup {None}, copy : Responses \cup {None}, current : BOOLEAN]
  /\ q.step # "none" =>
       /\ q.op = "submit" \/ (q.op \in {"answer", "clear"} /\ q.q \in Questions)
       /\ q.copy \in Responses /\ q.copy.version \in Listed
  /\ q.step = "create" => q.copy.answers = {} /\ (q.current => resp = None)
  /\ q.step \in Bound =>
       /\ resp # None /\ (q.current => q.copy = resp)
       /\ ~rebound => q.copy.version = resp.version /\ Within(q.copy)
  /\ q.step \in {"load", "save"} /\ q.op = "answer" /\ ~rebound =>
       q.q \in QuestionsIn(yaml[resp.version])

RequestInv ==
  /\ resp # None => resp \in Responses /\ resp.version \in Listed /\ (~rebound => Within(resp))
  /\ req \in [Requests -> {req[r] : r \in Requests}] /\ \A r \in Requests : RequestOK(req[r])
  /\ served \in 0..MaxRequests /\ rebound \in BOOLEAN

(* What is listed stays listed with its content.                           *)
LEMMA VersionsStay ==
  ASSUME DraftInv, PublishInv, [DraftNext]_draftVars
  PROVE  \A n \in Listed : n \in Listed' /\ yaml'[n] = yaml[n]
<1>1. CASE UNCHANGED <<yaml, meta>>
  BY <1>1 DEF Listed
<1>2. ASSUME NEW w \in Writers, CreateContent(w)
      PROVE  \A n \in Listed : n \in Listed' /\ yaml'[n] = yaml[n]
  <2>1. /\ yaml[loc[w].on] = None /\ yaml' = [yaml EXCEPT ![loc[w].on] = loc[w].tree]
        /\ meta' = meta
    BY <1>2 DEF CreateContent, NameIsFree
  <2>2. \A n \in Listed : n \in Listed' /\ n \in Names /\ yaml[n] # None
    BY <2>1 DEF Listed, PublishInv
  <2> QED BY <2>1, <2>2 DEF PublishInv
<1>3. ASSUME NEW w \in Writers, CreateMeta(w)
      PROVE  \A n \in Listed : n \in Listed' /\ yaml'[n] = yaml[n]
  <2>1. /\ meta[loc[w].on] = 0 /\ meta' = [meta EXCEPT ![loc[w].on] = Cardinality(Listed) + 1]
        /\ yaml' = yaml
    BY <1>3 DEF CreateMeta
  <2> QED BY <2>1 DEF Listed, PublishInv
<1>4. ASSUME NEW w \in Writers, WriterStep(w), ~CreateContent(w), ~CreateMeta(w)
      PROVE  UNCHANGED <<yaml, meta>>
  <2>1. CASE Surgical(w)
    BY <2>1, SurgicalWrites DEF Surgery, Written, Put
  <2>2. CASE Wholesale(w)
    BY <2>2 DEF Wholesale, SaveStructure, SaveQuestions, SaveVocabulary, SaveReset, Put
  <2> QED BY <1>4, <2>1, <2>2 DEF WriterStep, CallEdit, CallRegenerate, LoadRegenerated,
        CallStructure, CallQuestions, CallVocabulary, CallReset, CallPublish, GiveUp, Call
<1>5. CASE UNCHANGED draftVars
  BY <1>5 DEF draftVars, Listed
<1> QED BY <1>1, <1>2, <1>3, <1>4, <1>5 DEF DraftNext

LEMMA WithinStays ==
  ASSUME NEW c, c.version \in Listed, \A n \in Listed : n \in Listed' /\ yaml'[n] = yaml[n]
  PROVE  QuestionsIn(yaml[c.version])' = QuestionsIn(yaml'[c.version])
         /\ QuestionsIn(yaml'[c.version]) = QuestionsIn(yaml[c.version])
BY DEF QuestionsIn, PracticesIn, DomainsIn

(* The authors leave every request's record right.                         *)
LEMMA AuthorsLeaveRequests ==
  ASSUME DraftInv, PublishInv, RequestInv, [DraftNext]_draftVars, UNCHANGED respVars
  PROVE  RequestInv'
<1>1. \A n \in Listed : n \in Listed' /\ yaml'[n] = yaml[n]
  BY VersionsStay
<1>2. UNCHANGED <<resp, req, served, rebound>>
  BY DEF respVars
<1>3. ASSUME NEW c, c.version \in Listed
      PROVE  c.version \in Listed' /\ (Within(c)' <=> Within(c))
             /\ QuestionsIn(yaml[c.version])' = QuestionsIn(yaml[c.version])
  BY <1>1, <1>3, WithinStays DEF Within
<1>4. PICK a : a = resp
  OBVIOUS
<1>5. resp' = a /\ (a # None => a \in Responses /\ a.version \in Listed /\ (~rebound => Within(a)))
  BY <1>2, <1>4 DEF RequestInv
<1>6. (resp # None => resp \in Responses /\ resp.version \in Listed /\ (~rebound => Within(resp)))'
  BY <1>2, <1>3, <1>5
<1>7. ASSUME NEW r \in Requests PROVE RequestOK(req[r])'
  <2>1. PICK q : q = req[r]
    OBVIOUS
  <2>2. req'[r] = q /\ RequestOK(q)
    BY <2>1, <1>2 DEF RequestInv
  <2>3. q.step # "none" => q.copy.version \in Listed' /\ (Within(q.copy)' <=> Within(q.copy))
    BY <2>2, <1>3 DEF RequestOK
  <2>4. q.step \in Bound => a # None /\ QuestionsIn(yaml[a.version])' = QuestionsIn(yaml[a.version])
    BY <2>2, <1>3, <1>4, <1>5 DEF RequestOK
  <2>5. RequestOK(q)'
    BY <2>2, <2>3, <2>4, <1>2, <1>4, <1>5 DEF RequestOK, Bound
  <2> QED BY <2>2, <2>5
<1> QED BY <1>2, <1>6, <1>7 DEF RequestInv

(* One request's record changes and the response stays.                    *)
LEMMA RequestMoves ==
  ASSUME RequestInv, NEW r \in Requests, NEW q, RequestOK(q), UNCHANGED <<draftVars, resp, rebound>>,
         req' = [req EXCEPT ![r] = q], served' \in 0..MaxRequests
  PROVE  RequestInv'
<1>1. UNCHANGED <<yaml, meta, resp, rebound>> /\ Listed' = Listed
  BY DEF draftVars, Listed
<1>2. \A x \in Requests : req'[x] = IF x = r THEN q ELSE req[x]
  BY DEF RequestInv
<1>3. \A x \in Requests : RequestOK(req'[x])
  BY <1>2 DEF RequestInv
<1>4. ASSUME NEW x \in Requests PROVE RequestOK(req[x])'
  <2>1. RequestOK(req'[x])
    BY <1>3
  <2> QED BY <2>1, <1>1 DEF RequestOK, Within
<1>5. req' \in [Requests -> {req'[x] : x \in Requests}]
  BY DEF RequestInv
<1> QED BY <1>1, <1>4, <1>5 DEF RequestInv, Within

(* The response is written: every other copy is old.                       *)
LEMMA ResponseMoves ==
  ASSUME RequestInv, NEW r \in Requests, NEW new \in Responses, NEW next, PutResponse(r, new, next),
         UNCHANGED <<draftVars, served>>, new.version \in Listed, rebound' \in BOOLEAN,
         ~rebound' => ~rebound /\ Within(new) /\ (resp # None => new.version = resp.version),
         RequestOK(next)'
  PROVE  RequestInv'
<1>1. UNCHANGED <<yaml, meta>> /\ Listed' = Listed
  BY DEF draftVars, Listed
<1>2. /\ resp' = new /\ new # None
      /\ req' = [x \in Requests |-> IF x = r THEN next ELSE [req[x] EXCEPT !.current = FALSE]]
  BY NoResponseAssumption DEF PutResponse
<1>3. ASSUME NEW x \in Requests, x # r PROVE RequestOK(req[x])'
  <2>1. PICK q : q = req[x]
    OBVIOUS
  <2>2. RequestOK(q)
    BY <2>1 DEF RequestInv
  <2> DEFINE o == [q EXCEPT !.current = FALSE]
  <2>3. /\ o \in [step : Bound \cup {"none", "create"}, op : {"none", "answer", "clear", "submit"},
                  q : Questions \cup {None}, copy : Responses \cup {None}, current : BOOLEAN]
        /\ o.step = q.step /\ o.op = q.op /\ o.q = q.q /\ o.copy = q.copy /\ o.current = FALSE
    BY <2>2 DEF RequestOK
  <2>4. req'[x] = o
    BY <2>1, <1>2, <1>3
  <2> HIDE DEF o
  <2>5. ASSUME o.step \in Bound, ~rebound'
        PROVE  o.copy.version = new.version /\ Within(o.copy)
    BY <2>2, <2>3, <2>5 DEF RequestOK
  <2>6. ASSUME o.step \in {"load", "save"}, o.op = "answer", ~rebound'
        PROVE  o.q \in QuestionsIn(yaml[new.version])
    <3>1. resp # None /\ new.version = resp.version
      BY <2>2, <2>3, <2>6 DEF RequestOK, Bound
    <3> QED BY <2>2, <2>3, <2>6, <3>1 DEF RequestOK
  <2>7. RequestOK(o)'
    BY <2>2, <2>3, <2>5, <2>6, <1>1, <1>2 DEF RequestOK, Within
  <2> QED BY <2>4, <2>7
<1>4. ASSUME NEW x \in Requests PROVE RequestOK(req[x])'
  <2>1. CASE x = r
    <3>1. req'[x] = next
      BY <1>2, <2>1
    <3> QED BY <3>1
  <2> QED BY <2>1, <1>3
<1>5. req' \in [Requests -> {req'[x] : x \in Requests}]
  BY <1>2
<1>6. (resp # None => resp \in Responses /\ resp.version \in Listed /\ (~rebound => Within(resp)))'
  BY <1>1, <1>2 DEF Within
<1> QED BY <1>4, <1>5, <1>6 DEF RequestInv

LEMMA TheLatestIsListed ==
  ASSUME PublishInv, Listed # {}
  PROVE  Latest \in Listed
<1>1. \E n \in Listed : \A m \in Listed : meta[m] <= meta[n]
  BY DEF PublishInv
<1> QED BY <1>1 DEF Latest

LEMMA FreshIsWithin ==
  ASSUME NEW n \in Names
  PROVE  /\ Fresh(n) \in Responses /\ Fresh(n).version = n /\ Fresh(n).answers = {}
BY DEF Fresh, Responses

LEMMA BeginMoves ==
  ASSUME PublishInv, RequestInv, NEW r \in Requests, Begin(r), UNCHANGED draftVars
  PROVE  RequestInv'
<1>1. /\ served < MaxRequests /\ served' = served + 1 /\ UNCHANGED <<resp, rebound>>
      /\ resp # None \/ Listed # {}
  BY DEF Begin
<1>2. served' \in 0..MaxRequests
  BY <1>1, RequestsAssumption DEF RequestInv
<1> DEFINE first == IF resp = None THEN Fresh(Latest) ELSE resp
           new(c) == [step |-> IF resp = None THEN "create" ELSE "check", op |-> c[1], q |-> c[2],
                      copy |-> first, current |-> TRUE]
<1>3. PICK c \in ({"answer", "clear"} \X (minted \cap Questions)) \cup {<<"submit", None>>} :
        req' = [req EXCEPT ![r] = new(c)]
  BY DEF Begin
<1>4. /\ c[1] \in {"answer", "clear", "submit"} /\ c[2] \in Questions \cup {None}
      /\ c[1] = "submit" \/ (c[1] \in {"answer", "clear"} /\ c[2] \in Questions)
  OBVIOUS
<1>5. /\ first \in Responses /\ first.version \in Listed
      /\ resp = None => first.answers = {}
      /\ resp # None => first = resp
      /\ resp # None /\ ~rebound => Within(first)
  <2>1. CASE resp = None
    <3>1. Latest \in Listed /\ Latest \in Names
      BY <1>1, <2>1, TheLatestIsListed DEF Listed
    <3> QED BY <2>1, <3>1, FreshIsWithin
  <2>2. CASE resp # None
    BY <2>2 DEF RequestInv
  <2> QED BY <2>1, <2>2
<1>6. PICK q : q = new(c)
  OBVIOUS
<1>7. /\ q.step = (IF resp = None THEN "create" ELSE "check") /\ q.op = c[1] /\ q.q = c[2]
      /\ q.copy = first /\ q.current = TRUE
      /\ q \in [step : Bound \cup {"none", "create"}, op : {"none", "answer", "clear", "submit"},
                q : Questions \cup {None}, copy : Responses \cup {None}, current : BOOLEAN]
  BY <1>4, <1>5, <1>6 DEF Bound
<1> HIDE DEF first, new
<1>8. RequestOK(q)
  BY <1>4, <1>5, <1>7 DEF RequestOK, Bound
<1>9. req' = [req EXCEPT ![r] = q]
  BY <1>3, <1>6
<1> QED BY <1>1, <1>2, <1>8, <1>9, RequestMoves

LEMMA CreateResponseMoves ==
  ASSUME RequestInv, NEW r \in Requests, CreateResponse(r), UNCHANGED draftVars
  PROVE  RequestInv'
<1>1. PICK q : q = req[r]
  OBVIOUS
<1> DEFINE n == [q EXCEPT !.step = "check", !.current = TRUE]
<1>2. /\ q.step = "create" /\ RequestOK(q) /\ PutResponse(r, q.copy, n)
      /\ rebound' = (rebound \/ resp # None) /\ UNCHANGED served
  BY <1>1 DEF CreateResponse, RequestInv
<1>3. /\ q.copy \in Responses /\ q.copy.version \in Listed /\ q.copy.answers = {}
      /\ q.op = "submit" \/ (q.op \in {"answer", "clear"} /\ q.q \in Questions)
  BY <1>2 DEF RequestOK
<1>4. /\ n.step = "check" /\ n.op = q.op /\ n.q = q.q /\ n.copy = q.copy /\ n.current = TRUE
      /\ n \in [step : Bound \cup {"none", "create"}, op : {"none", "answer", "clear", "submit"},
                q : Questions \cup {None}, copy : Responses \cup {None}, current : BOOLEAN]
  BY <1>2 DEF RequestOK, Bound
<1> HIDE DEF n
<1>5. resp' = q.copy /\ UNCHANGED <<yaml, meta>> /\ Listed' = Listed /\ q.copy # None
  BY <1>2, <1>3, NoResponseAssumption DEF PutResponse, draftVars, Listed
<1>6. Within(q.copy)
  BY <1>3 DEF Within
<1>7. RequestOK(n)'
  BY <1>3, <1>4, <1>5, <1>6 DEF RequestOK, Bound, Within
<1>8. /\ rebound' \in BOOLEAN
      /\ ~rebound' => ~rebound /\ resp = None
  BY <1>2 DEF RequestInv
<1> QED BY <1>2, <1>3, <1>6, <1>7, <1>8, ResponseMoves

LEMMA NoRequestIsOk == RequestOK(NoRequest)
BY DEF RequestOK, NoRequest, Bound

LEMMA CheckMoves ==
  ASSUME RequestInv, NEW r \in Requests, Check(r), UNCHANGED draftVars
  PROVE  RequestInv'
<1>1. PICK q : q = req[r]
  OBVIOUS
<1>2. /\ q.step = "check" /\ RequestOK(q) /\ UNCHANGED <<resp, served, rebound>>
      /\ served \in 0..MaxRequests
  BY <1>1 DEF Check, RequestInv
<1>3. CASE Accepted(r)
  <2> DEFINE n == [q EXCEPT !.step = IF q.op = "submit" THEN "save" ELSE "load"]
  <2>1. req' = [req EXCEPT ![r] = n]
    BY <1>1, <1>3 DEF Check, RequestInv
  <2>2. /\ n.step \in {"load", "save"} /\ n.op = q.op /\ n.q = q.q /\ n.copy = q.copy
        /\ n.current = q.current
        /\ n \in [step : Bound \cup {"none", "create"}, op : {"none", "answer", "clear", "submit"},
                  q : Questions \cup {None}, copy : Responses \cup {None}, current : BOOLEAN]
    BY <1>2 DEF RequestOK, Bound
  <2>3. q.op = "answer" => q.q \in QuestionsIn(yaml[q.copy.version])
    BY <1>1, <1>3 DEF Accepted
  <2>4. ~rebound => q.copy.version = resp.version
    BY <1>2 DEF RequestOK, Bound
  <2> HIDE DEF n
  <2>5. RequestOK(n)
    BY <1>2, <2>2, <2>3, <2>4 DEF RequestOK, Bound
  <2> QED BY <1>2, <2>1, <2>5, RequestMoves
<1>4. CASE ~Accepted(r)
  <2>1. req' = [req EXCEPT ![r] = NoRequest]
    BY <1>4 DEF Check
  <2> QED BY <1>2, <2>1, NoRequestIsOk, RequestMoves
<1> QED BY <1>3, <1>4

LEMMA ReloadMoves ==
  ASSUME RequestInv, NEW r \in Requests, Reload(r), UNCHANGED draftVars
  PROVE  RequestInv'
<1>1. PICK q : q = req[r]
  OBVIOUS
<1> DEFINE n == [q EXCEPT !.step = "save", !.copy = resp, !.current = TRUE]
<1>2. /\ q.step = "load" /\ RequestOK(q) /\ UNCHANGED <<resp, served, rebound>>
      /\ served \in 0..MaxRequests /\ req' = [req EXCEPT ![r] = n]
  BY <1>1 DEF Reload, RequestInv
<1>3. resp # None /\ resp \in Responses /\ resp.version \in Listed /\ (~rebound => Within(resp))
  BY <1>2 DEF RequestOK, Bound, RequestInv
<1>4. /\ n.step = "save" /\ n.op = q.op /\ n.q = q.q /\ n.copy = resp /\ n.current = TRUE
      /\ n \in [step : Bound \cup {"none", "create"}, op : {"none", "answer", "clear", "submit"},
                q : Questions \cup {None}, copy : Responses \cup {None}, current : BOOLEAN]
  BY <1>2, <1>3 DEF RequestOK, Bound
<1> HIDE DEF n
<1>5. RequestOK(n)
  BY <1>2, <1>3, <1>4 DEF RequestOK, Bound
<1> QED BY <1>2, <1>5, RequestMoves

(* An answer, a clear or a submission changes nothing else of the copy.    *)
LEMMA OneThingChanges ==
  ASSUME NEW r, NEW q, q = req[r], RequestOK(q), q.step = "save"
  PROVE  /\ Changed(r) \in Responses /\ Changed(r).version = q.copy.version
         /\ q.copy.submitted => Changed(r).submitted
         /\ q.op = "answer" => Changed(r).answers = q.copy.answers \cup {q.q}
         /\ q.op = "clear" => Changed(r).answers = q.copy.answers \ {q.q}
         /\ q.op = "submit" => Changed(r).answers = q.copy.answers
<1>1. PICK c : c = q.copy
  OBVIOUS
<1>2. /\ c \in Responses /\ c.answers \subseteq Questions
      /\ q.op \in {"answer", "clear", "submit"}
      /\ q.op = "answer" => q.q \in Questions
  BY <1>1 DEF RequestOK, Responses
<1>3. CASE q.op = "answer"
  <2>1. Changed(r) = [c EXCEPT !.answers = c.answers \cup {q.q}]
    BY <1>1, <1>3 DEF Changed
  <2>2. c.answers \cup {q.q} \in SUBSET Questions
    BY <1>2, <1>3
  <2> QED BY <1>1, <1>2, <1>3, <2>1, <2>2 DEF Responses
<1>4. CASE q.op = "clear"
  <2>1. Changed(r) = [c EXCEPT !.answers = c.answers \ {q.q}]
    BY <1>1, <1>4 DEF Changed
  <2>2. c.answers \ {q.q} \in SUBSET Questions
    BY <1>2
  <2> QED BY <1>1, <1>2, <1>4, <2>1, <2>2 DEF Responses
<1>5. CASE q.op = "submit"
  <2>1. Changed(r) = [c EXCEPT !.submitted = TRUE]
    BY <1>1, <1>5 DEF Changed
  <2> QED BY <1>1, <1>2, <1>5, <2>1 DEF Responses
<1> QED BY <1>2, <1>3, <1>4, <1>5

LEMMA SaveResponseMoves ==
  ASSUME RequestInv, NEW r \in Requests, SaveResponse(r), UNCHANGED draftVars
  PROVE  RequestInv'
<1>1. PICK q : q = req[r]
  OBVIOUS
<1>2. /\ q.step = "save" /\ RequestOK(q) /\ UNCHANGED <<served, rebound>>
      /\ served \in 0..MaxRequests /\ rebound \in BOOLEAN
  BY <1>1 DEF SaveResponse, RequestInv
<1>3. CASE Fail(r)
  BY <1>2, <1>3, NoRequestIsOk, RequestMoves DEF Fail
<1>4. CASE PutResponse(r, Changed(r), NoRequest)
  <2>1. PICK n : n = Changed(r)
    OBVIOUS
  <2>2. /\ n \in Responses /\ n.version = q.copy.version
        /\ n.answers \subseteq q.copy.answers \cup (IF q.op = "answer" THEN {q.q} ELSE {})
    <3>1. q.op \in {"answer", "clear", "submit"}
      BY <1>2 DEF RequestOK
    <3> QED BY <1>1, <1>2, <2>1, <3>1, OneThingChanges
  <2>3. n.version \in Listed
    BY <1>2, <2>2 DEF RequestOK
  <2>4. ~rebound => n.version = resp.version /\ Within(n)
    BY <1>2, <2>2 DEF RequestOK, Bound, Within
  <2>5. RequestOK(NoRequest)'
    BY NoRequestIsOk, PTL
  <2> QED BY <1>2, <1>4, <2>1, <2>2, <2>3, <2>4, <2>5, ResponseMoves
<1> QED BY <1>3, <1>4 DEF SaveResponse

----------------------------------------------------------------------------
(* The invariant of the authors, the versions and the respondents.         *)

AssessInv == DraftInv /\ PublishInv /\ RequestInv

LEMMA AssessStarts ==
  ASSUME Init
  PROVE  AssessInv
<1>1. /\ DraftInit /\ resp = None /\ req = [r \in Requests |-> NoRequest]
      /\ served = 0 /\ rebound = FALSE
  BY DEF Init
<1>2. /\ draft \in Starts /\ minted = IF draft = None THEN {} ELSE EntitiesIn(draft)
      /\ loc = [w \in Writers |-> Idle] /\ calls = 0 /\ named = {} /\ chosen = FALSE
  BY <1>1 DEF DraftInit
<1>3. PICK v1 \in {None, draft} :
        /\ yaml = [n \in Names |-> IF n = 1 THEN v1 ELSE None]
        /\ meta = [n \in Names |-> IF n = 1 /\ v1 # None THEN 1 ELSE 0]
  BY <1>1 DEF DraftInit
<1>4. draft # None => IsDraft(draft) /\ EntitiesIn(draft) \subseteq Entities
  BY <1>2, GivenTrees, InTree DEF IsDraft
<1>5. \A n \in Names : yaml[n] # None => n = 1 /\ yaml[n] = draft /\ v1 # None
  BY <1>3
<1>6. DraftInv
  <2>1. \A w \in Writers : WriterOK(loc[w])
    BY <1>2, IdleIsOk
  <2>2. \A n \in Names : yaml[n] # None => IsDraft(yaml[n])
    BY <1>4, <1>5
  <2>3. minted \subseteq Entities
    BY <1>2, <1>4
  <2>4. calls = 0 /\ named = {} /\ chosen = FALSE
    BY <1>2
  <2>6. calls \in 0..MaxCalls
    BY <2>4, BoundsAssumption
  <2>5. loc \in [Writers -> {loc[w] : w \in Writers}]
    BY <1>2
  <2> QED BY <1>4, <2>1, <2>2, <2>3, <2>4, <2>5, <2>6 DEF DraftInv
<1>7. MaxVersion \in Nat /\ \A n \in Names : n \in Nat
  BY BoundsAssumption DEF Names
<1>8. /\ Listed = IF v1 # None /\ 1 \in Names THEN {1} ELSE {}
      /\ ListedCount = IF v1 # None /\ 1 \in Names THEN 1 ELSE 0
  <2>1. Listed = IF v1 # None /\ 1 \in Names THEN {1} ELSE {}
    BY <1>3 DEF Listed
  <2>2. Cardinality({1}) = 1 /\ Cardinality({}) = 0
    BY FS_Singleton, FS_EmptySet
  <2> QED BY <2>1, <2>2 DEF ListedCount
<1>9. PublishInv
  <2>1. yaml \in [Names -> {yaml[n] : n \in Names}] /\ meta \in [Names -> 0..MaxVersion + 1]
    BY <1>3, <1>7
  <2>2. \A n \in Names : meta[n] # 0 => yaml[n] # None
    BY <1>3
  <2>3. Listed # {} => \E n \in Listed : meta[n] = ListedCount /\ \A m \in Listed : meta[m] <= meta[n]
    BY <1>3, <1>8
  <2>4. \A n \in Names : yaml[n] # None => n <= ListedCount + 1
    BY <1>5, <1>8
  <2>5. \A n \in Listed : n <= ListedCount
    BY <1>8
  <2> QED BY <2>1, <2>2, <2>3, <2>4, <2>5 DEF PublishInv
<1>10. RequestInv
  <2>1. \A r \in Requests : RequestOK(req[r])
    BY <1>1, NoRequestIsOk
  <2>2. resp = None /\ served = 0 /\ rebound = FALSE
    BY <1>1
  <2>3. req \in [Requests -> {req[r] : r \in Requests}]
    BY <1>1
  <2>4. served \in 0..MaxRequests
    BY <2>2, RequestsAssumption
  <2> QED BY <2>1, <2>2, <2>3, <2>4 DEF RequestInv
<1> QED BY <1>6, <1>9, <1>10 DEF AssessInv

LEMMA AssessKeeps ==
  ASSUME AssessInv, [Next]_vars
  PROVE  AssessInv'
<1>1. CASE UNCHANGED vars
  <2>1. UNCHANGED draftVars /\ UNCHANGED respVars
    BY <1>1 DEF vars
  <2> QED BY <2>1, DraftStepMoves, AuthorsLeaveRequests DEF AssessInv
<1>2. CASE DraftNext /\ UNCHANGED respVars
  BY <1>2, DraftStepMoves, AuthorsLeaveRequests DEF AssessInv
<1>3. ASSUME NEW r \in Requests, RequestStep(r), UNCHANGED draftVars PROVE AssessInv'
  <2>1. RequestInv'
    BY <1>3, BeginMoves, CreateResponseMoves, CheckMoves, ReloadMoves, SaveResponseMoves
       DEF AssessInv, RequestStep
  <2>2. DraftInv' /\ PublishInv'
    BY <1>3, DraftStepMoves DEF AssessInv
  <2> QED BY <2>1, <2>2 DEF AssessInv
<1> QED BY <1>1, <1>2, <1>3 DEF Next

LEMMA AssessAlways == Spec => []AssessInv
<1>1. Init => AssessInv
  BY AssessStarts
<1>2. AssessInv /\ [Next]_vars => AssessInv'
  BY AssessKeeps
<1> QED BY <1>1, <1>2, PTL DEF Spec

LEMMA TheNextNameIsFree ==
  ASSUME AssessInv
  PROVE  DefaultNameIsFree
<1> DEFINE n == Cardinality({m \in Names : meta[m] # 0}) + 1
<1>1. n = ListedCount + 1 /\ ListedCount \in Nat
  BY CountsAreNumbers DEF AssessInv, ListedCount, Listed
<1>2. SUFFICES ASSUME ~chosen, Torn = {}, n \in Names, yaml[n] # None PROVE FALSE
  BY DEF DefaultNameIsFree
<1>3. n \in Listed
  BY <1>2 DEF Torn, Listed
<1>4. n <= ListedCount
  BY <1>2, <1>3 DEF AssessInv, PublishInv
<1> QED BY <1>1, <1>4

(* Drafts and versions are trees after any sequence of moves, cascades,    *)
(* resets and stale saves; a response stands on a complete version and, if *)
(* it was never overwritten, inside it; the next version's name is free.   *)
THEOREM AssessmentsHold == Spec => []AssessmentsStand
<1>1. AssessInv => TypeOK
  BY BoundsAssumption DEF AssessInv, DraftInv, PublishInv, RequestInv, WriterOK, IsDraft, TypeOK
<1>2. AssessInv => DraftsAreTrees
  BY DEF AssessInv, DraftInv, IsDraft, DraftsAreTrees
<1>3. AssessInv => ResponsesStand
  BY DEF AssessInv, PublishInv, RequestInv, Within, ResponsesStand, Listed
<1>4. AssessInv => AssessmentsStand
  BY <1>1, <1>2, <1>3, TheNextNameIsFree DEF AssessmentsStand
<1> QED BY <1>4, AssessAlways, PTL

(* What a put of a kept tree disturbs is missing.                             *)
LEMMA DisturbedIsGone ==
  ASSUME NEW missing, NEW new, Keeps(draft, draft', missing, new), NEW x, Disturbed(x)
  PROVE  x \in missing
BY DEF Keeps, Disturbed

(* A tool that writes the whole draft, from a copy that is still good.     *)
LEMMA WholesaleNames ==
  ASSUME DraftInv, NEW w \in Writers, Wholesale(w), ~ResetDone, ~StaleOverwrite,
         NEW x, Disturbed(x)
  PROVE  x \in named'
<1> DEFINE t == loc[w].tree
<1>1. WriterOK(loc[w])
  BY DEF DraftInv
<1>2. \E u : Put(w, u, {})
  BY DEF Wholesale, SaveStructure, SaveQuestions, SaveVocabulary, SaveReset
<1>3. loc'[w].kind = "idle"
  BY <1>2 DEF Put, Idle
<1>4. ~SaveReset(w)
  BY <1>3 DEF SaveReset, ResetDone
<1>5. loc[w].kind \in Whole
  BY <1>4 DEF Wholesale, SaveStructure, SaveQuestions, SaveVocabulary, Whole
<1>6. loc[w].fresh
  BY <1>3, <1>5 DEF StaleOverwrite
<1>7. t = draft /\ draft # None /\ x \in EntitiesIn(draft)
  BY <1>1, <1>5, <1>6 DEF WriterOK, Whole, Reading, Disturbed
<1>8. t \in DraftTrees /\ IsATree(t)
  BY <1>7 DEF DraftInv, IsDraft
<1>9. CASE SaveStructure(w)
  <2>1. DomainsIn(t) = {}
    BY <1>1, <1>7, <1>9 DEF SaveStructure, WriterOK
  <2>2. EntitiesIn(t) = {}
    BY <2>1 DEF EntitiesIn, QuestionsIn, PracticesIn
  <2> QED BY <1>7, <2>2
<1>10. CASE SaveQuestions(w)
  <2>1. PICK new \in SUBSET (Questions \ minted) : Put(w, [t EXCEPT !.qs[loc[w].on] = new], {})
    BY <1>10 DEF SaveQuestions
  <2>2. loc[w].on \in PracticesIn(t) /\ t.qs[loc[w].on] = {}
    BY <1>1, <1>10 DEF SaveQuestions, WriterOK
  <2>3. new \in SUBSET Questions /\ new \cap QuestionsIn(t) \subseteq t.qs[loc[w].on]
    BY <1>7 DEF DraftInv, IsDraft, EntitiesIn
  <2>4. Keeps(t, [t EXCEPT !.qs[loc[w].on] = new], t.qs[loc[w].on] \ new, new)
    BY <1>8, <2>2, <2>3, QuestionsPutKeeps
  <2>5. draft' = [t EXCEPT !.qs[loc[w].on] = new]
    BY <2>1 DEF Put
  <2>6. x \in t.qs[loc[w].on] \ new
    BY <1>7, <2>4, <2>5, DisturbedIsGone
  <2> QED BY <2>2, <2>6
<1>11. CASE SaveVocabulary(w)
  <2>1. PICK v \in Wordings : Put(w, [t EXCEPT !.vocab = v], {})
    BY <1>11 DEF SaveVocabulary
  <2>2. Keeps(t, [t EXCEPT !.vocab = v], {}, {})
    BY <1>8, VocabularyKeeps
  <2>3. draft' = [t EXCEPT !.vocab = v]
    BY <2>1 DEF Put
  <2>4. x \in {}
    BY <1>7, <2>2, <2>3, DisturbedIsGone
  <2> QED BY <2>4
<1> QED BY <1>4, <1>9, <1>10, <1>11 DEF Wholesale

(* Every step that disturbs an entity names it, but for a reset and for a  *)
(* save of the whole draft over somebody else's change: no surgical tool,  *)
(* whatever runs beside it, loses what it was not asked to touch.          *)
THEOREM NothingElseIsTouched == Spec => OnlyWhatWasNamed
<1>1. ASSUME AssessInv, [Next]_vars, draft' # draft, ~ResetDone, ~StaleOverwrite,
             NEW x \in Entities, Disturbed(x)
      PROVE  x \in named'
  <2>1. PICK w \in Writers : WriterStep(w)
    BY <1>1 DEF Next, DraftNext, vars, draftVars
  <2>2. DraftInv
    BY <1>1 DEF AssessInv
  <2>3. CASE Surgical(w)
    <3>1. PICK u, about, new : Written(w, u, about, new) /\ Keeps(draft, u, about, new)
      BY <2>2, <2>3, SurgicalWrites DEF Surgery
    <3>2. draft' = u /\ named' = about
      BY <3>1 DEF Written, Put
    <3> QED BY <1>1, <3>1, <3>2, DisturbedIsGone
  <2>4. CASE Wholesale(w)
    BY <1>1, <2>2, <2>4, WholesaleNames
  <2>5. CASE ~Surgical(w) /\ ~Wholesale(w)
    <3>1. draft' = draft
      BY <2>1, <2>5 DEF WriterStep, CallEdit, CallRegenerate, LoadRegenerated, CallStructure,
         CallQuestions, CallVocabulary, CallReset, CallPublish, CreateContent, CreateMeta, GiveUp, Call
    <3> QED BY <1>1, <3>1
  <2> QED BY <2>3, <2>4, <2>5
<1>2. AssessInv /\ [Next]_vars =>
        [(draft' # draft /\ ~ResetDone /\ ~StaleOverwrite) =>
           \A x \in Entities : Disturbed(x) => x \in named']_vars
  BY <1>1
<1> QED BY <1>2, AssessAlways, PTL DEF Spec, OnlyWhatWasNamed

(* A put from a current copy changes the response by what was asked.       *)
THEOREM AnswersHold == Spec => AnswersUntilOverlap
<1>1. ASSUME AssessInv, [Next]_vars, resp # None, resp' # resp, ~StaleRequest
      PROVE  /\ resp.answers \ resp'.answers \subseteq Cleared
             /\ resp.submitted => resp'.submitted
             /\ resp'.version = resp.version
  <2>1. PICK r \in Requests : RequestStep(r)
    BY <1>1 DEF Next, vars, respVars
  <2>2. PICK q : q = req[r]
    OBVIOUS
  <2>3. RequestOK(q) /\ \A x \in Requests : RequestOK(req[x])
    BY <1>1, <2>2 DEF AssessInv, RequestInv
  <2>4. CASE CreateResponse(r)
    <3>1. req'[r].step = "check"
      BY <2>3, <2>4 DEF CreateResponse, PutResponse, RequestOK
    <3>2. q.step = "create" /\ ~q.current
      BY <1>1, <2>2, <2>3, <2>4 DEF CreateResponse, RequestOK
    <3> QED BY <1>1, <2>2, <3>1, <3>2 DEF StaleRequest
  <2>5. CASE SaveResponse(r)
    <3>1. q.step = "save" /\ PutResponse(r, Changed(r), NoRequest)
      BY <1>1, <2>2, <2>5 DEF SaveResponse, Fail
    <3>2. resp' = Changed(r) /\ req'[r].step = "none"
      BY <3>1 DEF PutResponse, NoRequest
    <3>3. q.current
      BY <1>1, <2>2, <3>1, <3>2 DEF StaleRequest
    <3>4. q.copy = resp /\ q.op \in {"answer", "clear", "submit"}
      BY <2>3, <3>1, <3>3 DEF RequestOK, Bound
    <3>5. /\ Changed(r).version = q.copy.version
          /\ q.copy.submitted => Changed(r).submitted
          /\ q.op = "answer" => Changed(r).answers = q.copy.answers \cup {q.q}
          /\ q.op = "clear" => Changed(r).answers = q.copy.answers \ {q.q}
          /\ q.op = "submit" => Changed(r).answers = q.copy.answers
      BY <2>2, <2>3, <3>1, OneThingChanges
    <3>6. q.op = "clear" => q.q \in Cleared
      BY <2>2, <3>1 DEF Cleared
    <3> QED BY <3>2, <3>4, <3>5, <3>6
  <2>6. ~Begin(r) /\ ~Check(r) /\ ~Reload(r)
    BY <1>1 DEF Begin, Check, Reload
  <2> QED BY <2>1, <2>4, <2>5, <2>6 DEF RequestStep
<1>2. AssessInv /\ [Next]_vars =>
        [(resp # None /\ resp' # resp /\ ~StaleRequest) =>
           /\ resp.answers \ resp'.answers \subseteq Cleared
           /\ resp.submitted => resp'.submitted
           /\ resp'.version = resp.version]_vars
  BY <1>1
<1> QED BY <1>2, AssessAlways, PTL DEF Spec, AnswersUntilOverlap

----------------------------------------------------------------------------
(* Lists of cards in the order they were asked.                            *)

LEMMA LineAdded ==
  ASSUME NEW S, NEW s \in Seq(S), NEW x \in S
  PROVE  Append(s, x) \in Seq(S) /\ ToSet(Append(s, x)) = ToSet(s) \cup {x}
<1>1. /\ Append(s, x) \in Seq(S) /\ DOMAIN Append(s, x) = 1..Len(s) + 1 /\ DOMAIN s = 1..Len(s)
      /\ \A i \in 1..Len(s) + 1 : Append(s, x)[i] = IF i = Len(s) + 1 THEN x ELSE s[i]
  OBVIOUS
<1>2. ToSet(Append(s, x)) = ToSet(s) \cup {x}
  BY <1>1 DEF ToSet
<1> QED BY <1>1, <1>2

LEMMA OrderKept ==
  ASSUME NEW S, NEW s \in Seq(S), InOrder(s), NEW x \in S,
         x \in Cards => \A y \in ToSet(s) \cap Cards : y < x
  PROVE  InOrder(Append(s, x))
<1>1. /\ DOMAIN Append(s, x) = 1..Len(s) + 1 /\ DOMAIN s = 1..Len(s) /\ Len(s) \in Nat
      /\ \A i \in 1..Len(s) + 1 : Append(s, x)[i] = IF i = Len(s) + 1 THEN x ELSE s[i]
  OBVIOUS
<1>2. \A i \in 1..Len(s) : s[i] \in ToSet(s)
  BY <1>1 DEF ToSet
<1> SUFFICES ASSUME NEW i \in 1..Len(s) + 1, NEW j \in 1..Len(s) + 1, i < j,
                    Append(s, x)[i] \in Cards, Append(s, x)[j] \in Cards
             PROVE  Append(s, x)[i] < Append(s, x)[j]
  BY <1>1 DEF InOrder
<1>3. i \in 1..Len(s) /\ Append(s, x)[i] = s[i]
  BY <1>1
<1>4. CASE j = Len(s) + 1
  BY <1>1, <1>2, <1>3, <1>4
<1>5. CASE j \in 1..Len(s)
  <2>1. Append(s, x)[j] = s[j]
    BY <1>1, <1>5
  <2> QED BY <1>1, <1>3, <1>5, <2>1 DEF InOrder
<1> QED BY <1>4, <1>5, <1>1

LEMMA HeadAndTail ==
  ASSUME NEW S, NEW t \in Seq(S), t # << >>
  PROVE  /\ Head(t) \in S /\ Tail(t) \in Seq(S) /\ ToSet(t) = {Head(t)} \cup ToSet(Tail(t))
         /\ InOrder(t) => /\ InOrder(Tail(t))
                          /\ Head(t) \in Cards => \A y \in ToSet(Tail(t)) \cap Cards : Head(t) < y
<1>1. /\ Tail(t) \in Seq(S) /\ DOMAIN Tail(t) = 1..Len(t) - 1 /\ DOMAIN t = 1..Len(t)
      /\ Len(t) \in Nat /\ Len(t) > 0 /\ Head(t) = t[1] /\ Head(t) \in S
      /\ \A i \in 1..Len(t) - 1 : Tail(t)[i] = t[i + 1]
  OBVIOUS
<1>2. ASSUME NEW x \in ToSet(t) PROVE x \in {Head(t)} \cup ToSet(Tail(t))
  <2>1. PICK i \in 1..Len(t) : t[i] = x
    BY <1>1 DEF ToSet
  <2>2. CASE i = 1  BY <1>1, <2>1, <2>2
  <2>3. CASE i > 1
    <3>1. i - 1 \in 1..Len(t) - 1 /\ Tail(t)[i - 1] = x
      BY <1>1, <2>1, <2>3
    <3> QED BY <1>1, <3>1 DEF ToSet
  <2> QED BY <2>1, <2>2, <2>3
<1>3. ASSUME NEW y \in ToSet(Tail(t))
      PROVE  \E i \in 1..Len(t) : i > 1 /\ t[i] = y
  <2>1. PICK i \in 1..Len(t) - 1 : Tail(t)[i] = y
    BY <1>1 DEF ToSet
  <2>2. i + 1 \in 1..Len(t) /\ i + 1 > 1 /\ t[i + 1] = y
    BY <1>1, <2>1
  <2> QED BY <2>2
<1>4. ToSet(t) = {Head(t)} \cup ToSet(Tail(t))
  <2>1. Head(t) \in ToSet(t)
    BY <1>1 DEF ToSet
  <2>2. \A y \in ToSet(Tail(t)) : y \in ToSet(t)
    BY <1>1, <1>3 DEF ToSet
  <2> QED BY <1>2, <2>1, <2>2
<1>5. ASSUME InOrder(t) PROVE InOrder(Tail(t))
  <2> SUFFICES ASSUME NEW i \in 1..Len(t) - 1, NEW j \in 1..Len(t) - 1, i < j,
                      Tail(t)[i] \in Cards, Tail(t)[j] \in Cards
               PROVE  Tail(t)[i] < Tail(t)[j]
    BY <1>1 DEF InOrder
  <2>1. /\ i + 1 \in 1..Len(t) /\ j + 1 \in 1..Len(t) /\ i + 1 < j + 1
        /\ Tail(t)[i] = t[i + 1] /\ Tail(t)[j] = t[j + 1]
    BY <1>1
  <2> QED BY <1>1, <1>5, <2>1 DEF InOrder
<1>6. ASSUME InOrder(t), Head(t) \in Cards, NEW y \in ToSet(Tail(t)) \cap Cards PROVE Head(t) < y
  <2>1. PICK i \in 1..Len(t) : i > 1 /\ t[i] = y
    BY <1>3
  <2> QED BY <1>1, <1>6, <2>1 DEF InOrder
<1> QED BY <1>1, <1>4, <1>5, <1>6

----------------------------------------------------------------------------
(* The invariant of the conversation.  TurnInv holds of every request at    *)
(* all times; CardsInv and FilesInv hold until something is lost: a put of  *)
(* an old copy, a death between two puts, the deletion of the project, or   *)
(* the certainty that one of the first two is to come.                      *)

\* A turn of the model, an answer that shows the next card, an upload or a
\* removal; and the steps that hold a copy of the project to put.
Chatting == {"agent", "generate", "generated"}
Popper == {"popped", "popchat", "popproject"}
Filing == {"document", "removed", "listed"}
HoldsProject == Chatting \cup Popper \cup {"save", "listed"}
Steps == HoldsProject \cup {"none", "project", "forward", "savechat", "close", "advance",
                            "document", "removed", "delete"}

Counts == [PracticeIds -> 0..MaxCount] \cup {Nothing}
Keys == Documents \cup {"project", "chat"}
Jobs == [step : Steps, proj : Projects \cup {Nothing}, chat : Chats, doc : Documents \cup {Nothing},
         tools : Substates \cup {"none"}, card : Cards \cup {0}, count : Counts, asks : SUBSET Cards,
         keys : SUBSET Keys, projFresh : BOOLEAN, chatFresh : BOOLEAN]

\* A request's copies are of their type; what a turn asks is what its copy
\* has queued, in order, after all that its conversation shows; and a
\* generation keeps to the budget of its copy.
JobOK(j) ==
  /\ j \in Jobs /\ IsChat(j.chat) /\ j.asks \subseteq 1..asked
  /\ j.proj # Nothing => IsProject(j.proj)
  /\ j.step \in HoldsProject => j.proj # Nothing
  /\ j.step \in Chatting =>
       j.asks = ToSet(j.proj.queue) /\ InOrder(j.proj.queue) /\ Ahead(j.chat.log, j.proj.queue)
  /\ j.step = "project" => j.asks = {}
  /\ j.step \in Filing => j.doc \in Documents
  /\ j.step \in Popper => j.card \in 1..asked
  /\ j.step = "generate" =>
       /\ j.count \in [PracticeIds -> 0..MaxCount]
       /\ j.proj.budget # Nothing => Total(j.count) <= j.proj.budget.max
  /\ j.step = "delete" => "project" \in j.keys \/ proj = Nothing \/ torn

\* A copy that nobody has put over is what was loaded and changed by the
\* request alone.
Freshly(j) ==
  /\ j.step \in HoldsProject /\ j.projFresh =>
       /\ proj # Nothing /\ j.proj.budget = proj.budget
       /\ j.step # "save" => j.proj.focus = proj.focus
       /\ j.step # "listed" => j.proj.docs = proj.docs
       /\ j.step = "listed" => j.proj.docs \ {j.doc} = proj.docs \ {j.doc}
       /\ j.step \in Chatting => ToSet(proj.queue) \subseteq gone \cup j.asks
       /\ j.step \in Popper => /\ proj.queue # <<>> /\ j.card = Head(proj.queue)
                               /\ j.proj.queue = Tail(proj.queue)
       /\ j.step \in {"save", "listed"} => j.proj.queue = proj.queue
  /\ j.chatFresh =>
       /\ j.step \in {"project", "close"} => j.chat.log = chat.log
       /\ j.step \in Chatting => j.chat.log = Append(chat.log, FromUser)
       /\ j.step = "savechat" => \E x \in {PlainText} \cup Cards : j.chat.log = Append(Append(chat.log, FromUser), x)
       /\ j.step = "popchat" => j.chat.log = Append(Append(chat.log, FromUser), j.card)

\* Every object and every request is as it should be.
TurnInv ==
  /\ proj # Nothing => IsProject(proj)
  /\ IsChat(chat) /\ blobs \subseteq Documents
  /\ count \in [PracticeIds -> 0..MaxCount]
  /\ begun \in 0..MaxHandled /\ asked \in 0..MaxAsked /\ gone \subseteq 1..asked /\ torn \in BOOLEAN
  /\ job \in [Handlers -> Jobs] /\ \A r \in Handlers : JobOK(job[r]) /\ Freshly(job[r])

\* Requests that can only lose something: one that deletes the project, and
\* one whose put is due over a put of another.
Doomed(j) ==
  \/ j.step = "delete"
  \/ j.step = "savechat" /\ ~j.chatFresh
  \/ j.step \in {"popproject", "listed"} /\ ~j.projFresh
Crowded ==
  \E r, s \in Handlers : r # s /\ job[r].step = job[s].step /\ job[r].step \in {"popproject", "savechat"}
Lost == torn \/ proj = Nothing \/ Crowded \/ \E r \in Handlers : Doomed(job[r])

\* Between the two puts of an answer its card is in the log and in the queue.
Popping == \E r \in Handlers : At(r, "popproject")
Waiting == IF Popping THEN Tail(proj.queue) ELSE proj.queue
\* The cards a request still has to save.
Pending(j) == IF j.step \in Chatting THEN j.asks ELSE IF j.step = "savechat" THEN ToSet(j.chat.log) ELSE {}

\* What is shown comes in the order asked and before what waits; every card
\* asked is shown, waits, is gone, or is still with a request; and what a
\* turn asks comes after all of it.
CardsInv ==
  /\ InOrder(chat.log) /\ InOrder(Waiting) /\ Ahead(chat.log, Waiting)
  /\ \A c \in 1..asked : c \in ToSet(chat.log) \cup ToSet(Waiting) \cup gone
                          \/ \E r \in Handlers : c \in Pending(job[r])
  /\ \A r \in Handlers : At(r, "savechat") =>
       /\ ~Popping
       /\ InOrder(job[r].chat.log) /\ Ahead(job[r].chat.log, proj.queue)
  /\ \A r \in Handlers : job[r].step \in Chatting /\ job[r].projFresh =>
       /\ ~Popping => Ahead(chat.log, job[r].proj.queue)
       /\ \A s \in Handlers : At(s, "savechat") => Ahead(job[s].chat.log, job[r].proj.queue)

\* A document is stored and listed or neither, or a request is filing it; a
\* stored one is filed by one request.
FilesInv ==
  /\ \A d \in Documents : (d \in blobs <=> d \in proj.docs)
                           \/ \E r \in Handlers : job[r].step \in Filing /\ job[r].doc = d
  /\ \A r \in Handlers :
       /\ At(r, "document") => job[r].doc \in blobs \ proj.docs
       /\ At(r, "removed") => job[r].doc \notin blobs
       /\ At(r, "listed") => \/ job[r].doc \in (blobs \cap job[r].proj.docs) \ proj.docs
                             \/ job[r].doc \notin blobs \cup job[r].proj.docs
  /\ \A r, s \in Handlers :
       job[r].step \in Filing /\ job[s].step \in Filing /\ job[r].doc = job[s].doc /\ job[r].doc \in blobs
         => r = s

----------------------------------------------------------------------------
(* One request's step, seen by the others.                                 *)

(* The record of a request that does not act: its copies may be old now.   *)
Dims(j, k, p, c) ==
  /\ k \in Jobs /\ k.step = j.step /\ k.proj = j.proj /\ k.chat = j.chat /\ k.doc = j.doc
  /\ k.card = j.card /\ k.count = j.count /\ k.asks = j.asks /\ k.keys = j.keys
  /\ k.projFresh => j.projFresh
  /\ k.chatFresh => j.chatFresh
  /\ p /\ j.step # "none" => ~k.projFresh
  /\ c /\ j.step # "none" => ~k.chatFresh

Aged(j, a, b) == [j EXCEPT !.projFresh = a, !.chatFresh = b]

LEMMA AgedDims ==
  ASSUME NEW j \in Jobs, NEW p, NEW c, NEW a \in BOOLEAN, NEW b \in BOOLEAN,
         a => j.projFresh /\ ~p, b => j.chatFresh /\ ~c
  PROVE  Aged(j, a, b) \in Jobs /\ Dims(j, Aged(j, a, b), p, c)
<1> DEFINE k == Aged(j, a, b)
<1>1. k \in Jobs
  BY DEF Jobs, Aged
<1>2. /\ k.step = j.step /\ k.proj = j.proj /\ k.chat = j.chat /\ k.doc = j.doc
      /\ k.card = j.card /\ k.count = j.count /\ k.asks = j.asks /\ k.keys = j.keys
  BY DEF Jobs, Aged
<1>3. (k.projFresh => a) /\ (k.chatFresh => b)
  BY DEF Jobs, Aged
<1> HIDE DEF k
<1>4. Dims(j, k, p, c)
  BY <1>1, <1>2, <1>3 DEF Dims
<1> QED BY <1>1, <1>4 DEF k

LEMMA OthersDim ==
  ASSUME job \in [Handlers -> Jobs], NEW r \in Handlers, NEW n \in Jobs,
         NEW p \in BOOLEAN, NEW c \in BOOLEAN, job' = Others(r, n, p, c)
  PROVE  /\ job' \in [Handlers -> Jobs] /\ job'[r] = n
         /\ \A x \in Handlers \ {r} : Dims(job[x], job'[x], p, c)
<1>1. job' = [x \in Handlers |->
                IF x = r THEN n ELSE IF job[x].step = "none" THEN job[x]
                ELSE [job[x] EXCEPT !.projFresh = @ /\ ~p, !.chatFresh = @ /\ ~c]]
  BY DEF Others, At
<1>2. job'[r] = n
  BY <1>1
<1>3. ASSUME NEW x \in Handlers \ {r} PROVE job'[x] \in Jobs /\ Dims(job[x], job'[x], p, c)
  <2>1. PICK j \in Jobs : j = job[x]
    OBVIOUS
  <2>2. CASE j.step = "none"
    <3>1. job'[x] = j
      BY <1>1, <2>1, <2>2
    <3> QED BY <2>1, <2>2, <3>1 DEF Dims
  <2>3. CASE j.step # "none"
    <3>1. PICK a \in BOOLEAN, b \in BOOLEAN : a = (j.projFresh /\ ~p) /\ b = (j.chatFresh /\ ~c)
      OBVIOUS
    <3>2. job'[x] = Aged(j, a, b)
      BY <1>1, <2>1, <2>3, <3>1 DEF Aged
    <3>3. (a => j.projFresh /\ ~p) /\ (b => j.chatFresh /\ ~c)
      BY <3>1
    <3>4. Aged(j, a, b) \in Jobs /\ Dims(j, Aged(j, a, b), p, c)
      BY <3>3, AgedDims
    <3> QED BY <2>1, <3>2, <3>4
  <2> QED BY <2>2, <2>3
<1>4. \A x \in Handlers : job'[x] \in Jobs
  BY <1>2, <1>3
<1>5. job' \in [Handlers -> Jobs]
  BY <1>1, <1>4
<1> QED BY <1>2, <1>3, <1>5

LEMMA GotoDimsNothing ==
  ASSUME job \in [Handlers -> Jobs], NEW r \in Handlers, NEW n, Goto(r, n)
  PROVE  job' = Others(r, n, FALSE, FALSE)
<1>1. job' = [job EXCEPT ![r] = n]
  BY DEF Goto
<1>2. ASSUME NEW x \in Handlers \ {r}
      PROVE  [job[x] EXCEPT !.projFresh = @ /\ ~FALSE, !.chatFresh = @ /\ ~FALSE] = job[x]
  <2>1. PICK j \in Jobs : j = job[x]
    OBVIOUS
  <2>2. j.projFresh \in BOOLEAN /\ j.chatFresh \in BOOLEAN
    BY DEF Jobs
  <2>3. [j EXCEPT !.projFresh = @ /\ ~FALSE, !.chatFresh = @ /\ ~FALSE] = j
    <3>1. (j.projFresh /\ ~FALSE) = j.projFresh /\ (j.chatFresh /\ ~FALSE) = j.chatFresh
      BY <2>2
    <3> QED BY <3>1 DEF Jobs
  <2> QED BY <2>1, <2>3
<1> QED BY <1>1, <1>2 DEF Others

(* What a step of r may do to the objects, p and c saying which it put.    *)
Effects(p, c) ==
  /\ ~p => proj' = proj
  /\ ~c => chat' = chat
  /\ gone \subseteq gone' /\ asked <= asked' /\ (torn => torn')
  /\ proj = Nothing => proj' = Nothing \/ torn'

LEMMA DimmedIsOk ==
  ASSUME NEW j, NEW k, NEW p, NEW c, Dims(j, k, p, c), Effects(p, c), JobOK(j), Freshly(j),
         asked \in Nat, asked' \in Nat
  PROVE  JobOK(k)' /\ Freshly(k)'
<1>1. \A x \in 1..asked : x \in 1..asked'
  BY DEF Effects
<1>2. (j.proj # Nothing => IsProject(j.proj)') /\ IsChat(j.chat)'
  BY <1>1 DEF JobOK, IsProject, IsChat
<1>3. JobOK(k)'
  BY <1>1, <1>2 DEF JobOK, Dims, Effects
<1>4. k.step \in HoldsProject /\ k.projFresh => j.projFresh /\ proj' = proj /\ ~p
  BY DEF Dims, Effects, HoldsProject, Chatting, Popper
<1>5. k.chatFresh /\ k.step # "none" => j.chatFresh /\ chat' = chat
  BY DEF Dims, Effects
<1>6. k.step = j.step /\ k.proj = j.proj /\ k.chat = j.chat /\ k.doc = j.doc
      /\ k.card = j.card /\ k.asks = j.asks /\ gone \subseteq gone'
  BY DEF Dims, Effects
<1>7. ASSUME k.step \in HoldsProject, k.projFresh
      PROVE  j.step \in HoldsProject /\ j.projFresh /\ proj' = proj
  BY <1>4, <1>6, <1>7
<1>8. (k.step \in HoldsProject /\ k.projFresh =>
       /\ proj # Nothing /\ k.proj.budget = proj.budget
       /\ k.step # "save" => k.proj.focus = proj.focus
       /\ k.step # "listed" => k.proj.docs = proj.docs
       /\ k.step = "listed" => k.proj.docs \ {k.doc} = proj.docs \ {k.doc}
       /\ k.step \in Chatting => ToSet(proj.queue) \subseteq gone \cup k.asks
       /\ k.step \in Popper => /\ proj.queue # <<>> /\ k.card = Head(proj.queue)
                               /\ k.proj.queue = Tail(proj.queue)
       /\ k.step \in {"save", "listed"} => k.proj.queue = proj.queue)'
  BY <1>6, <1>7 DEF Freshly
<1>9. (k.chatFresh =>
       /\ k.step \in {"project", "close"} => k.chat.log = chat.log
       /\ k.step \in Chatting => k.chat.log = Append(chat.log, FromUser)
       /\ k.step = "savechat" => \E x \in {PlainText} \cup Cards : k.chat.log = Append(Append(chat.log, FromUser), x)
       /\ k.step = "popchat" => k.chat.log = Append(Append(chat.log, FromUser), k.card))'
  BY <1>5, <1>6 DEF Freshly, Chatting
<1>10. Freshly(k)'
  BY <1>8, <1>9 DEF Freshly
<1> QED BY <1>3, <1>10

(* A step of r keeps the invariant when r's own next record keeps it.      *)
Does(r, n, p, c) ==
  /\ job' = Others(r, n, p, c) /\ n \in Jobs /\ p \in BOOLEAN /\ c \in BOOLEAN /\ Effects(p, c)

LEMMA TurnMoves ==
  ASSUME TurnInv, NEW r \in Handlers, NEW n, NEW p, NEW c, Does(r, n, p, c),
         asked' \in 0..MaxAsked, begun' \in 0..MaxHandled, blobs' \subseteq Documents,
         count' \in [PracticeIds -> 0..MaxCount], gone' \subseteq 1..asked', torn' \in BOOLEAN,
         (proj # Nothing => IsProject(proj))', IsChat(chat)', JobOK(n)', Freshly(n)'
  PROVE  TurnInv'
<1>1. /\ job' \in [Handlers -> Jobs] /\ job'[r] = n
      /\ \A x \in Handlers \ {r} : Dims(job[x], job'[x], p, c)
  BY OthersDim DEF TurnInv, Does
<1>2. asked \in Nat /\ asked' \in Nat
  BY SizesAssumption DEF TurnInv
<1>3. ASSUME NEW x \in Handlers PROVE JobOK(job[x])' /\ Freshly(job[x])'
  <2>1. CASE x = r
    BY <1>1, <2>1
  <2>2. CASE x # r
    <3>1. PICK j, k : j = job[x] /\ k = job'[x]
      OBVIOUS
    <3>2. JobOK(j) /\ Freshly(j) /\ Dims(j, k, p, c) /\ Effects(p, c)
      BY <1>1, <2>2, <3>1 DEF TurnInv, Does
    <3>3. JobOK(k)' /\ Freshly(k)'
      BY <1>2, <3>2, DimmedIsOk
    <3> QED BY <3>1, <3>3
  <2> QED BY <2>1, <2>2
<1> QED BY <1>1, <1>3 DEF TurnInv

(* Two puts that belong together are both made, or the project is torn:    *)
(* what is lost stays lost.                                                *)
Honest(r, n, p, c) ==
  /\ Doomed(job[r]) => torn' \/ proj' = Nothing \/ Doomed(n)
  /\ At(r, "popproject") => torn' \/ p
  /\ At(r, "savechat") => torn' \/ c

LEMMA LostStays ==
  ASSUME TurnInv, NEW r \in Handlers, NEW n, NEW p, NEW c, Does(r, n, p, c), Honest(r, n, p, c), Lost
  PROVE  Lost'
<1>1. /\ job' \in [Handlers -> Jobs] /\ job'[r] = n
      /\ \A x \in Handlers \ {r} : Dims(job[x], job'[x], p, c)
  BY OthersDim DEF TurnInv, Does
<1>2. (torn => torn') /\ (proj = Nothing => proj' = Nothing \/ torn')
  BY DEF Does, Effects
<1>3. ASSUME ~torn', proj' # Nothing, NEW x \in Handlers, Doomed(job[x]) PROVE Doomed(job'[x])
  <2>1. CASE x = r
    BY <1>1, <1>3, <2>1 DEF Honest
  <2>2. CASE x # r
    BY <1>1, <1>3, <2>2 DEF Dims, Doomed
  <2> QED BY <2>1, <2>2
<1>4. ASSUME ~torn', proj' # Nothing, NEW x \in Handlers, NEW y \in Handlers, x # y,
             job[x].step = job[y].step, job[x].step \in {"popproject", "savechat"}
      PROVE  Lost'
  <2>1. CASE x # r /\ y # r
    <3>1. job'[x].step = job'[y].step /\ job'[x].step \in {"popproject", "savechat"}
      BY <1>1, <1>4, <2>1 DEF Dims
    <3> QED BY <1>4, <3>1 DEF Lost, Crowded
  <2>2. ASSUME NEW z \in Handlers \ {r}, job[z].step = job[r].step,
               job[r].step \in {"popproject", "savechat"}
        PROVE  Lost'
    <3>1. Dims(job[z], job'[z], p, c)
      BY <1>1, <2>2
    <3>2. (job[r].step = "popproject" => p) /\ (job[r].step = "savechat" => c)
      BY <1>4 DEF Honest, At
    <3>3. Doomed(job'[z])
      BY <2>2, <3>1, <3>2 DEF Dims, Doomed
    <3> QED BY <3>3 DEF Lost
  <2>3. CASE x = r
    BY <1>4, <2>2, <2>3
  <2>4. CASE y = r
    BY <1>4, <2>2, <2>4
  <2> QED BY <2>1, <2>3, <2>4
<1>5. ASSUME NEW x \in Handlers, Doomed(job'[x]) PROVE Lost'
  BY <1>5 DEF Lost
<1>6. ASSUME torn' \/ proj' = Nothing PROVE Lost'
  BY <1>6 DEF Lost
<1> QED BY <1>2, <1>3, <1>4, <1>5, <1>6 DEF Lost, Crowded

(* A step that shows and asks nothing leaves the cards as they are.        *)
LEMMA CardsRest ==
  ASSUME TurnInv, CardsInv, NEW r \in Handlers, NEW n, NEW p, NEW c, Does(r, n, p, c),
         chat'.log = chat.log, proj'.queue = proj.queue, asked' = asked,
         job[r].step \notin {"popproject", "savechat"}, n.step \notin {"popproject", "savechat"},
         Pending(job[r]) \subseteq Pending(n) \cup gone',
         n.step \in Chatting =>
           \/ n.proj.queue = << >>
           \/ job[r].step \in Chatting /\ (n.projFresh => job[r].projFresh)
                /\ n.proj.queue = job[r].proj.queue
  PROVE  CardsInv'
<1>1. /\ job'[r] = n /\ \A x \in Handlers \ {r} : Dims(job[x], job'[x], p, c)
  BY OthersDim DEF TurnInv, Does
<1>2. gone \subseteq gone'
  BY DEF Does, Effects
<1>3. ASSUME NEW x \in Handlers
      PROVE  /\ job'[x].step = "savechat" => job[x].step = "savechat" /\ job'[x].chat = job[x].chat
             /\ job'[x].step = "popproject" <=> job[x].step = "popproject"
             /\ Pending(job[x]) \subseteq Pending(job'[x]) \cup gone'
             /\ job'[x].step \in Chatting /\ job'[x].projFresh =>
                  \/ job'[x].proj.queue = << >>
                  \/ job[x].step \in Chatting /\ job[x].projFresh
                       /\ job'[x].proj.queue = job[x].proj.queue
  <2>1. CASE x = r
    BY <1>1, <2>1 DEF Pending
  <2>2. CASE x # r
    BY <1>1, <2>2 DEF Dims, Pending
  <2> QED BY <2>1, <2>2
<1>4. Popping' <=> Popping
  BY <1>3 DEF Popping, At
<1>5. Waiting' = Waiting
  BY <1>4 DEF Waiting
<1>6. \A s : Ahead(s, << >>)
  BY DEF Ahead, ToSet
<1>7. InOrder(chat.log)' /\ InOrder(Waiting)' /\ Ahead(chat.log, Waiting)'
  <2>1. InOrder(chat'.log) /\ InOrder(Waiting') /\ Ahead(chat'.log, Waiting')
    BY <1>5 DEF CardsInv
  <2> QED BY <2>1 DEF InOrder, Ahead
<1>8. ASSUME NEW d \in 1..asked'
      PROVE  d \in ToSet(chat'.log) \cup ToSet(Waiting') \cup gone' \/ \E x \in Handlers : d \in Pending(job'[x])
  <2>1. d \in ToSet(chat.log) \cup ToSet(Waiting) \cup gone \/ \E x \in Handlers : d \in Pending(job[x])
    BY DEF CardsInv
  <2> QED BY <1>2, <1>3, <1>5, <2>1
<1>9. ASSUME NEW x \in Handlers, At(x, "savechat")'
      PROVE  ~Popping' /\ InOrder(job'[x].chat.log) /\ Ahead(job'[x].chat.log, proj'.queue)
  BY <1>3, <1>4, <1>9 DEF CardsInv, At
<1>10. ASSUME NEW x \in Handlers, job'[x].step \in Chatting, job'[x].projFresh
       PROVE  /\ ~Popping' => Ahead(chat'.log, job'[x].proj.queue)
              /\ \A s \in Handlers : At(s, "savechat")' => Ahead(job'[s].chat.log, job'[x].proj.queue)
  <2>1. CASE job'[x].proj.queue = << >>
    BY <1>6, <2>1
  <2>2. CASE job[x].step \in Chatting /\ job[x].projFresh /\ job'[x].proj.queue = job[x].proj.queue
    BY <1>3, <1>4, <2>2 DEF CardsInv, At
  <2> QED BY <1>3, <1>10, <2>1, <2>2
<1> QED BY <1>7, <1>8, <1>9, <1>10 DEF CardsInv

(* A step that files nothing leaves the documents as they are.             *)
LEMMA FilesRest ==
  ASSUME TurnInv, FilesInv, NEW r \in Handlers, NEW n, NEW p, NEW c, Does(r, n, p, c),
         proj'.docs = proj.docs, blobs' = blobs, job[r].step \notin Filing, n.step \notin Filing
  PROVE  FilesInv'
<1>1. /\ job'[r] = n /\ \A x \in Handlers \ {r} : Dims(job[x], job'[x], p, c)
  BY OthersDim DEF TurnInv, Does
<1>2. ASSUME NEW x \in Handlers
      PROVE  /\ job'[x].step \in Filing <=> job[x].step \in Filing
             /\ job'[x].step \in Filing => job'[x].step = job[x].step /\ job'[x].doc = job[x].doc
                                           /\ job'[x].proj = job[x].proj
  BY <1>1 DEF Dims
<1>3. ASSUME NEW d \in Documents
      PROVE  (d \in blobs' <=> d \in proj'.docs) \/ \E x \in Handlers : job'[x].step \in Filing /\ job'[x].doc = d
  BY <1>2 DEF FilesInv
<1>4. ASSUME NEW x \in Handlers
      PROVE  /\ job'[x].step = "document" => job'[x].doc \in blobs' \ proj'.docs
             /\ job'[x].step = "removed" => job'[x].doc \notin blobs'
             /\ job'[x].step = "listed" => \/ job'[x].doc \in (blobs' \cap job'[x].proj.docs) \ proj'.docs
                                           \/ job'[x].doc \notin blobs' \cup job'[x].proj.docs
  BY <1>2 DEF FilesInv, At, Filing
<1>5. ASSUME NEW x \in Handlers, NEW y \in Handlers, job'[x].step \in Filing, job'[y].step \in Filing,
             job'[x].doc = job'[y].doc, job'[x].doc \in blobs'
      PROVE  x = y
  BY <1>2, <1>5 DEF FilesInv
<1> QED BY <1>3, <1>4, <1>5 DEF FilesInv, At

\* The inductive invariant.
TurnsSound == TurnInv /\ (~Lost => CardsInv /\ FilesInv)

(* A request goes on without a put of the project or the conversation.     *)
Goes(r, n) ==
  /\ Goto(r, n) /\ n \in Jobs /\ UNCHANGED <<proj, chat>>
  /\ asked' \in 0..MaxAsked /\ asked <= asked'
  /\ count' \in [PracticeIds -> 0..MaxCount] /\ begun' \in 0..MaxHandled
  /\ blobs' \subseteq Documents /\ gone \subseteq gone' /\ gone' \subseteq 1..asked'
  /\ torn' \in BOOLEAN /\ (torn => torn')

LEMMA GoesOn ==
  ASSUME TurnInv, NEW r \in Handlers, NEW n, Goes(r, n), JobOK(n)', Freshly(n)'
  PROVE  Does(r, n, FALSE, FALSE) /\ TurnInv'
<1>1. job' = Others(r, n, FALSE, FALSE)
  BY GotoDimsNothing DEF TurnInv, Goes
<1>2. Does(r, n, FALSE, FALSE)
  BY <1>1 DEF Does, Effects, Goes
<1>3. \A x \in 1..asked : x \in 1..asked'
  BY SizesAssumption DEF Goes, TurnInv
<1>4. (proj # Nothing => IsProject(proj))' /\ IsChat(chat)'
  BY <1>3 DEF Goes, TurnInv, IsProject, IsChat
<1>5. /\ asked' \in 0..MaxAsked /\ begun' \in 0..MaxHandled /\ blobs' \subseteq Documents
      /\ count' \in [PracticeIds -> 0..MaxCount] /\ gone' \subseteq 1..asked' /\ torn' \in BOOLEAN
  BY DEF Goes
<1> QED BY <1>2, <1>4, <1>5, TurnMoves

(* Between the puts of a request there is nothing to abandon.              *)
AtWork == {"popproject", "savechat", "delete"} \cup Filing

LEMMA QuietGoes ==
  ASSUME TurnsSound, NEW r \in Handlers, NEW n, Goes(r, n), JobOK(n)', Freshly(n)',
         asked' = asked, blobs' = blobs, n.step \notin AtWork \ {"delete"},
         ~torn' => job[r].step \notin AtWork,
         ~torn' => Pending(job[r]) \subseteq Pending(n) \cup gone',
         n.step \in Chatting =>
           \/ n.proj.queue = << >>
           \/ job[r].step \in Chatting /\ (n.projFresh => job[r].projFresh)
                /\ n.proj.queue = job[r].proj.queue
  PROVE  TurnsSound'
<1>1. TurnInv /\ TurnInv' /\ Does(r, n, FALSE, FALSE)
  BY GoesOn DEF TurnsSound
<1>2. Honest(r, n, FALSE, FALSE)
  BY DEF Honest, Doomed, AtWork, Filing, At
<1>3. Lost => Lost'
  BY <1>1, <1>2, LostStays
<1>4. ASSUME ~Lost' PROVE CardsInv' /\ FilesInv'
  <2>1. CardsInv /\ FilesInv /\ ~torn'
    BY <1>3, <1>4 DEF TurnsSound, Lost
  <2>2. /\ job[r].step \notin {"popproject", "savechat"} /\ job[r].step \notin Filing
        /\ n.step \notin {"popproject", "savechat"} /\ n.step \notin Filing
    BY <2>1 DEF AtWork, Filing
  <2>3. chat'.log = chat.log /\ proj'.queue = proj.queue /\ proj'.docs = proj.docs
    BY DEF Goes
  <2>4. CardsInv'
    BY <1>1, <2>1, <2>2, <2>3, CardsRest
  <2>5. FilesInv'
    BY <1>1, <2>1, <2>2, <2>3, FilesRest
  <2> QED BY <2>4, <2>5
<1> QED BY <1>1, <1>4 DEF TurnsSound

LEMMA IdleJobIs ==
  /\ IdleJob \in Jobs /\ NoChat \in Chats /\ NoChat.log = << >> /\ NoChat.open = {}
  /\ IdleJob.step = "none" /\ IdleJob.proj = Nothing /\ IdleJob.chat = NoChat /\ IdleJob.asks = {}
<1>1. NoChat \in Chats /\ NoChat.log = << >> /\ NoChat.open = {}
  BY DEF NoChat, Chats
<1>2. /\ "none" \in Steps /\ "none" \in Substates \cup {"none"} /\ Nothing \in Counts
      /\ {} \in SUBSET Cards /\ {} \in SUBSET Keys
  BY DEF Steps, Counts
<1>3. IdleJob \in Jobs
  BY <1>1, <1>2 DEF IdleJob, Jobs
<1> QED BY <1>1, <1>3 DEF IdleJob

LEMMA NoChatIsOk == IsChat(NoChat)
BY IdleJobIs DEF IsChat, ToSet

LEMMA IdleJobIsOk == JobOK(IdleJob) /\ Freshly(IdleJob)
<1>1. /\ IdleJob.step \notin HoldsProject /\ IdleJob.step \notin Chatting /\ IdleJob.step \notin Filing
      /\ IdleJob.step \notin Popper /\ IdleJob.step \notin {"generate", "delete", "project", "close", "savechat", "popchat"}
  BY IdleJobIs DEF HoldsProject, Chatting, Popper, Filing
<1>2. JobOK(IdleJob)
  BY <1>1, IdleJobIs, NoChatIsOk DEF JobOK
<1>3. Freshly(IdleJob)
  BY <1>1 DEF Freshly
<1> QED BY <1>2, <1>3

LEMMA SendKeeps ==
  ASSUME TurnsSound, NEW r \in Handlers, Send(r) \/ Forward(r)
  PROVE  TurnsSound'
<1>1. PICK n : n = [IdleJob EXCEPT !.step = "project", !.chat = chat]
  OBVIOUS
<1>2. TurnInv /\ IsChat(chat) /\ chat \in Chats
  BY DEF TurnsSound, TurnInv, IsChat
<1>3. n \in Jobs /\ n.step = "project" /\ n.proj = Nothing /\ n.chat = chat /\ n.asks = {}
  BY <1>1, <1>2, IdleJobIs DEF Jobs, Steps
<1>4. /\ Goto(r, n) /\ UNCHANGED <<proj, chat, blobs, count, asked, gone, torn>>
      /\ begun' = begun \/ (begun < MaxHandled /\ begun' = begun + 1)
      /\ job[r].step \in {"none", "forward"}
  <2>1. CASE Send(r)
    BY <1>1, <2>1 DEF Send, Take, At
  <2>2. CASE Forward(r)
    BY <1>1, <2>2 DEF Forward, At
  <2> QED BY <2>1, <2>2
<1>5. begun' \in 0..MaxHandled
  BY <1>2, <1>4, SizesAssumption DEF TurnInv
<1>6. asked \in Nat /\ asked \in 0..MaxAsked /\ asked <= asked
  BY <1>2, SizesAssumption DEF TurnInv
<1>7. Goes(r, n)
  BY <1>2, <1>3, <1>4, <1>5, <1>6 DEF Goes, TurnInv
<1>8. JobOK(n)'
  BY <1>2, <1>3, <1>4 DEF JobOK, IsChat, HoldsProject, Chatting, Popper, Filing
<1>9. Freshly(n)'
  BY <1>3, <1>4 DEF Freshly, HoldsProject, Chatting, Popper
<1>10. Pending(job[r]) = {} /\ job[r].step \notin AtWork /\ n.step \notin AtWork /\ n.step \notin Chatting
  BY <1>3, <1>4 DEF Pending, Chatting, AtWork, Filing
<1> QED BY <1>4, <1>7, <1>8, <1>9, <1>10, QuietGoes

LEMMA Numbers ==
  ASSUME TurnInv
  PROVE  asked \in Nat /\ asked \in 0..MaxAsked /\ asked <= asked /\ begun \in 0..MaxHandled /\ MaxAsked \in Nat
BY SizesAssumption DEF TurnInv

LEMMA UserSays ==
  ASSUME NEW c, IsChat(c)
  PROVE  IsChat([c EXCEPT !.log = Append(@, FromUser)])
<1>1. c \in Chats /\ c.log \in Seq({FromUser, PlainText} \cup Cards)
  BY DEF IsChat, Chats
<1>2. PICK l : l = Append(c.log, FromUser)
  OBVIOUS
<1>3. l \in Seq({FromUser, PlainText} \cup Cards) /\ ToSet(l) = ToSet(c.log) \cup {FromUser}
  BY <1>1, <1>2, LineAdded
<1>4. PICK d : d = [c EXCEPT !.log = l]
  OBVIOUS
<1>5. d \in Chats /\ d.log = l /\ d.open = c.open
  BY <1>1, <1>3, <1>4 DEF Chats
<1>6. FromUser \notin Cards
  BY SizesAssumption DEF FromUser, Cards
<1>7. IsChat(d)
  BY <1>3, <1>5, <1>6 DEF IsChat
<1> QED BY <1>2, <1>4, <1>7

LEMMA EmptyQueue ==
  /\ ToSet(<< >>) = {} /\ InOrder(<< >>) /\ \A s : Ahead(s, << >>)
BY DEF ToSet, InOrder, Ahead

LEMMA FlushedIs ==
  ASSUME NEW p, IsProject(p)
  PROVE  /\ IsProject(Flushed(p)) /\ Flushed(p).queue = << >> /\ Flushed(p).focus = p.focus
         /\ Flushed(p).docs = p.docs /\ Flushed(p).budget = p.budget /\ Flushed(p) # Nothing
<1>1. p \in Projects
  BY DEF IsProject
<1>2. /\ Flushed(p) \in Projects /\ Flushed(p).queue = << >> /\ Flushed(p).focus = p.focus
      /\ Flushed(p).docs = p.docs /\ Flushed(p).budget = p.budget
  <2>1. << >> \in Seq(Cards)
    OBVIOUS
  <2> QED BY <1>1, <2>1 DEF Projects, Flushed
<1> QED BY <1>2, EmptyQueue, NothingAssumption DEF IsProject

LEMMA LoadProjectKeeps ==
  ASSUME TurnsSound, NEW r \in Handlers, LoadProject(r)
  PROVE  TurnsSound'
<1>1. PICK j, q : j = job[r] /\ q = Flushed(proj)
  OBVIOUS
<1>2. PICK c : c = [j.chat EXCEPT !.log = Append(@, FromUser)]
  OBVIOUS
<1>3. PICK n : n = [j EXCEPT !.step = "agent", !.proj = q, !.projFresh = TRUE,
                            !.tools = proj.focus, !.chat = c]
  OBVIOUS
<1>4. /\ Goto(r, n) /\ gone' = gone \cup ToSet(proj.queue) /\ proj # Nothing /\ j.step = "project"
      /\ UNCHANGED <<proj, chat, blobs, count, begun, asked, torn>>
  BY <1>1, <1>2, <1>3 DEF LoadProject, At
<1>5. TurnInv /\ JobOK(j) /\ Freshly(j) /\ j \in Jobs /\ IsProject(proj) /\ IsChat(j.chat)
  BY <1>1, <1>4 DEF TurnsSound, TurnInv, JobOK
<1>6. /\ IsChat(c) /\ c \in Chats /\ c.log = Append(j.chat.log, FromUser)
  BY <1>2, <1>5, UserSays DEF IsChat, Chats
<1>7. /\ IsProject(q) /\ q \in Projects /\ q.queue = << >> /\ q.focus = proj.focus
      /\ q.docs = proj.docs /\ q.budget = proj.budget /\ q # Nothing /\ proj.focus \in Substates
  BY <1>1, <1>5, FlushedIs DEF IsProject, Projects
<1>8. /\ n \in Jobs /\ n.step = "agent" /\ n.proj = q /\ n.chat = c /\ n.asks = j.asks
      /\ n.chatFresh = j.chatFresh
  BY <1>3, <1>5, <1>6, <1>7 DEF Jobs, Steps, HoldsProject, Chatting
<1>9. gone \subseteq gone' /\ gone' \subseteq 1..asked
  BY <1>4, <1>5 DEF TurnInv, IsProject
<1>10. Goes(r, n)
  BY <1>4, <1>5, <1>8, <1>9, Numbers DEF Goes, TurnInv
<1>11. j.asks = {}
  BY <1>4, <1>5 DEF JobOK
<1>12. JobOK(n)'
  BY <1>4, <1>6, <1>7, <1>8, <1>11, EmptyQueue DEF JobOK, IsChat, IsProject, Filing, Popper
<1>13. Freshly(n)'
  <2>1. j.chatFresh => c.log = Append(chat.log, FromUser)
    BY <1>4, <1>5, <1>6 DEF Freshly
  <2>2. ToSet(proj.queue) \subseteq gone'
    BY <1>4
  <2> QED BY <1>4, <1>7, <1>8, <2>1, <2>2 DEF Freshly, Popper
<1>14. Pending(job[r]) = {} /\ job[r].step \notin AtWork /\ n.step \notin AtWork
  BY <1>1, <1>4, <1>8 DEF Pending, Chatting, AtWork, Filing
<1> QED BY <1>4, <1>7, <1>8, <1>10, <1>12, <1>13, <1>14, QuietGoes

(* The practice that gets its questions had none.                          *)
LEMMA TotalGrows ==
  ASSUME NEW c \in [PracticeIds -> 0..MaxCount], NEW p \in PracticeIds, NEW n \in 0..MaxCount, c[p] = 0
  PROVE  /\ Total(c) \in Nat /\ Total([c EXCEPT ![p] = n]) \in Nat
         /\ Total([c EXCEPT ![p] = n]) <= Total(c) + n
<1>1. PICK d : d = [c EXCEPT ![p] = n]
  OBVIOUS
<1>2. d[p] = n /\ \A q \in PracticeIds \ {p} : d[q] = c[q]
  BY <1>1
<1> DEFINE All == PracticeIds \X (1..MaxCount)
           S == {q \in All : q[2] <= c[q[1]]}
           T == {q \in All : q[2] <= d[q[1]]}
           U == {p} \X (1..n)
<1>3. IsFiniteSet(All)
  <2>1. 1 \in Int /\ MaxCount \in Int
    BY SizesAssumption
  <2>2. IsFiniteSet(1..MaxCount)
    BY <2>1, FS_Interval
  <2> QED BY <2>2, SizesAssumption, FS_Product
<1>4. IsFiniteSet(S) /\ IsFiniteSet(T)
  BY <1>3, FS_Subset
<1>5. IsFiniteSet(U) /\ Cardinality(U) = n
  <2>1. n \in Nat /\ IsFiniteSet(1..n) /\ Cardinality(1..n) = n
    <3>1. 1 \in Int /\ n \in Int /\ n \in Nat
      BY SizesAssumption
    <3>2. IsFiniteSet(1..n) /\ Cardinality(1..n) = IF 1 > n THEN 0 ELSE n - 1 + 1
      BY <3>1, FS_Interval
    <3> QED BY <3>1, <3>2
  <2>2. IsFiniteSet({p}) /\ Cardinality({p}) = 1
    BY FS_Singleton
  <2>3. IsFiniteSet(U) /\ Cardinality(U) = Cardinality({p}) * Cardinality(1..n)
    BY <2>1, <2>2, FS_Product
  <2> QED BY <2>1, <2>2, <2>3
<1>6. T \subseteq S \cup U
  <2>1. ASSUME NEW q \in PracticeIds, NEW i \in 1..MaxCount, i <= d[q] PROVE i <= c[q] \/ (q = p /\ i \in 1..n)
    <3>1. CASE q = p
      <4>1. i <= n /\ i >= 1 /\ i \in Nat /\ n \in Nat
        BY <1>2, <2>1, <3>1, SizesAssumption
      <4> QED BY <3>1, <4>1
    <3>2. CASE q # p
      BY <1>2, <2>1, <3>2
    <3> QED BY <3>1, <3>2
  <2> QED BY <2>1
<1>7. IsFiniteSet(S \cup U) /\ Cardinality(S \cup U) = Cardinality(S) + Cardinality(U) - Cardinality(S \cap U)
  BY <1>4, <1>5, FS_Union
<1>8. IsFiniteSet(S \cap U)
  BY <1>4, FS_Subset
<1>9. Cardinality(S) \in Nat /\ Cardinality(T) \in Nat /\ Cardinality(S \cap U) \in Nat
  BY <1>4, <1>8, FS_CardinalityType
<1>10. Cardinality(T) <= Cardinality(S \cup U)
  BY <1>6, <1>7, FS_Subset
<1>11. Total(c) = Cardinality(S) /\ Total(d) = Cardinality(T)
  BY DEF Total
<1> QED BY <1>1, <1>5, <1>7, <1>9, <1>10, <1>11

LEMMA GenerateQuestionsKeeps ==
  ASSUME TurnsSound, NEW r \in Handlers, GenerateQuestions(r)
  PROVE  TurnsSound'
<1>1. PICK j : j = job[r]
  OBVIOUS
<1>2. PICK p \in PracticeIds, m \in 0..MaxCount :
         count[p] = 0 /\ WithinBudget(j.proj, count, m)
         /\ Goto(r, [j EXCEPT !.step = "generate", !.count = [count EXCEPT ![p] = m]])
  BY <1>1 DEF GenerateQuestions
<1>3. PICK d : d = [count EXCEPT ![p] = m]
  OBVIOUS
<1>4. PICK n : n = [j EXCEPT !.step = "generate", !.count = d]
  OBVIOUS
<1>5. Goto(r, n) /\ j.step = "agent" /\ UNCHANGED <<proj, chat, blobs, count, begun, asked, gone, torn>>
  BY <1>1, <1>2, <1>3, <1>4 DEF GenerateQuestions, Offered, At
<1>6. /\ TurnInv /\ JobOK(j) /\ Freshly(j) /\ j \in Jobs /\ IsChat(j.chat) /\ count \in [PracticeIds -> 0..MaxCount]
      /\ IsProject(j.proj) /\ j.proj # Nothing
  BY <1>1, <1>5 DEF TurnsSound, TurnInv, JobOK, HoldsProject, Chatting
<1>7. d \in [PracticeIds -> 0..MaxCount]
  BY <1>3, <1>6
<1>8. /\ n \in Jobs /\ n.step = "generate" /\ n.proj = j.proj /\ n.chat = j.chat /\ n.asks = j.asks
      /\ n.count = d /\ n.projFresh = j.projFresh /\ n.chatFresh = j.chatFresh
  BY <1>4, <1>6, <1>7 DEF Jobs, Steps, HoldsProject, Chatting, Counts
<1>9. Goes(r, n)
  BY <1>5, <1>6, <1>8, Numbers DEF Goes, TurnInv
<1>10. j.proj.budget # Nothing => Total(d) <= j.proj.budget.max
  <2> HAVE j.proj.budget # Nothing
  <2>1. j.proj.budget \in Budgets /\ j.proj.budget.max \in Nat
    BY <1>6, BudgetAssumption DEF IsProject, Projects
  <2>2. Total(count) \in Nat /\ Total(d) \in Nat /\ Total(d) <= Total(count) + m
    BY <1>2, <1>3, <1>6, TotalGrows
  <2>3. Total(count) + m <= j.proj.budget.max /\ m \in Nat
    BY <1>2, SizesAssumption DEF WithinBudget
  <2> QED BY <2>1, <2>2, <2>3
<1>11. JobOK(n)'
  BY <1>5, <1>6, <1>7, <1>8, <1>10 DEF JobOK, IsChat, IsProject, Chatting, Filing, Popper
<1>12. Freshly(n)'
  BY <1>5, <1>6, <1>8 DEF Freshly, HoldsProject, Chatting, Popper
<1>13. /\ Pending(job[r]) = j.asks /\ Pending(n) = j.asks /\ job[r].step \notin AtWork /\ n.step \notin AtWork
       /\ job[r].step \in Chatting
  BY <1>1, <1>5, <1>8 DEF Pending, Chatting, AtWork, Filing
<1> QED BY <1>1, <1>5, <1>8, <1>9, <1>11, <1>12, <1>13, QuietGoes

LEMMA SaveDraftKeeps ==
  ASSUME TurnsSound, NEW r \in Handlers, SaveDraft(r)
  PROVE  TurnsSound'
<1>1. PICK j : j = job[r]
  OBVIOUS
<1>2. PICK n : n = [j EXCEPT !.step = "generated"]
  OBVIOUS
<1>3. /\ Goto(r, n) /\ count' = j.count /\ j.step = "generate"
      /\ UNCHANGED <<proj, chat, blobs, begun, asked, gone, torn>>
  BY <1>1, <1>2 DEF SaveDraft, At
<1>4. /\ TurnInv /\ JobOK(j) /\ Freshly(j) /\ j \in Jobs /\ IsChat(j.chat)
      /\ IsProject(j.proj) /\ j.proj # Nothing /\ j.count \in [PracticeIds -> 0..MaxCount]
  BY <1>1, <1>3 DEF TurnsSound, TurnInv, JobOK, HoldsProject, Chatting
<1>5. /\ n \in Jobs /\ n.step = "generated" /\ n.proj = j.proj /\ n.chat = j.chat /\ n.asks = j.asks
      /\ n.projFresh = j.projFresh /\ n.chatFresh = j.chatFresh
  BY <1>2, <1>4 DEF Jobs, Steps, HoldsProject, Chatting
<1>6. Goes(r, n)
  BY <1>3, <1>4, <1>5, Numbers DEF Goes, TurnInv
<1>7. JobOK(n)'
  BY <1>3, <1>4, <1>5 DEF JobOK, IsChat, IsProject, Chatting, Filing, Popper
<1>8. Freshly(n)'
  BY <1>3, <1>4, <1>5 DEF Freshly, HoldsProject, Chatting, Popper
<1>9. /\ Pending(job[r]) = j.asks /\ Pending(n) = j.asks /\ job[r].step \notin AtWork /\ n.step \notin AtWork
      /\ job[r].step \in Chatting
  BY <1>1, <1>3, <1>5 DEF Pending, Chatting, AtWork, Filing
<1> QED BY <1>1, <1>3, <1>5, <1>6, <1>7, <1>8, <1>9, QuietGoes

LEMMA RespondKeeps ==
  ASSUME TurnsSound, NEW r \in Handlers, Respond(r)
  PROVE  TurnsSound'
<1>1. PICK q \in 1..asked :
         /\ Take(r, [IdleJob EXCEPT !.step = "close", !.chat = [chat EXCEPT !.open = @ \ {q}]])
         /\ UNCHANGED <<proj, chat, blobs, count, asked, gone, torn>>
  BY DEF Respond
<1>2. PICK c : c = [chat EXCEPT !.open = @ \ {q}]
  OBVIOUS
<1>3. PICK n : n = [IdleJob EXCEPT !.step = "close", !.chat = c]
  OBVIOUS
<1>4. /\ Goto(r, n) /\ job[r].step = "none" /\ begun < MaxHandled /\ begun' = begun + 1
      /\ UNCHANGED <<proj, chat, blobs, count, asked, gone, torn>>
  BY <1>1, <1>2, <1>3 DEF Take, At
<1>5. TurnInv /\ IsChat(chat)
  BY DEF TurnsSound, TurnInv
<1>6. c \in Chats /\ c.log = chat.log /\ c.open \subseteq chat.open /\ IsChat(c)
  BY <1>2, <1>5 DEF IsChat, Chats
<1>7. n \in Jobs /\ n.step = "close" /\ n.proj = Nothing /\ n.chat = c /\ n.asks = {}
  BY <1>3, <1>6, IdleJobIs DEF Jobs, Steps
<1>8. begun' \in 0..MaxHandled
  BY <1>4, <1>5, SizesAssumption DEF TurnInv
<1>9. Goes(r, n)
  BY <1>4, <1>5, <1>7, <1>8, Numbers DEF Goes, TurnInv
<1>10. JobOK(n)'
  BY <1>4, <1>6, <1>7 DEF JobOK, IsChat, HoldsProject, Chatting, Popper, Filing
<1>11. Freshly(n)'
  BY <1>4, <1>6, <1>7 DEF Freshly, HoldsProject, Chatting, Popper
<1>12. Pending(job[r]) = {} /\ job[r].step \notin AtWork /\ n.step \notin AtWork /\ n.step \notin Chatting
  BY <1>4, <1>7 DEF Pending, Chatting, AtWork, Filing
<1> QED BY <1>4, <1>9, <1>10, <1>11, <1>12, QuietGoes

LEMMA UpdatePhaseKeeps ==
  ASSUME TurnsSound, NEW r \in Handlers, UpdatePhase(r)
  PROVE  TurnsSound'
<1>1. PICK f \in Substates : Take(r, [IdleJob EXCEPT !.step = "save", !.proj = [proj EXCEPT !.focus = f]])
  BY DEF UpdatePhase
<1>2. PICK q : q = [proj EXCEPT !.focus = f]
  OBVIOUS
<1>3. PICK n : n = [IdleJob EXCEPT !.step = "save", !.proj = q]
  OBVIOUS
<1>4. /\ Goto(r, n) /\ job[r].step = "none" /\ begun < MaxHandled /\ begun' = begun + 1 /\ proj # Nothing
      /\ UNCHANGED <<proj, chat, blobs, count, asked, gone, torn>>
  BY <1>1, <1>2, <1>3 DEF Take, At, UpdatePhase
<1>5. TurnInv /\ IsProject(proj)
  BY <1>4 DEF TurnsSound, TurnInv
<1>6. q \in Projects /\ q.queue = proj.queue /\ q.docs = proj.docs /\ q.budget = proj.budget /\ IsProject(q) /\ q # Nothing
  BY <1>2, <1>5, NothingAssumption DEF IsProject, Projects
<1>7. n \in Jobs /\ n.step = "save" /\ n.proj = q /\ n.chat = NoChat /\ n.asks = {}
  BY <1>3, <1>6, IdleJobIs DEF Jobs, Steps, HoldsProject
<1>8. begun' \in 0..MaxHandled
  BY <1>4, <1>5, SizesAssumption DEF TurnInv
<1>9. Goes(r, n)
  BY <1>4, <1>5, <1>7, <1>8, Numbers DEF Goes, TurnInv
<1>10. JobOK(n)'
  BY <1>4, <1>6, <1>7, NoChatIsOk DEF JobOK, IsChat, IsProject, HoldsProject, Chatting, Popper, Filing
<1>11. Freshly(n)'
  BY <1>4, <1>6, <1>7 DEF Freshly, HoldsProject, Chatting, Popper
<1>12. Pending(job[r]) = {} /\ job[r].step \notin AtWork /\ n.step \notin AtWork /\ n.step \notin Chatting
  BY <1>4, <1>7 DEF Pending, Chatting, AtWork, Filing
<1> QED BY <1>4, <1>9, <1>10, <1>11, <1>12, QuietGoes

LEMMA PoppedIs ==
  ASSUME NEW p, IsProject(p), p.queue # << >>
  PROVE  /\ IsProject(Popped(p)) /\ Popped(p).queue = Tail(p.queue) /\ Popped(p).focus = p.focus
         /\ Popped(p).docs = p.docs /\ Popped(p).budget = p.budget /\ Popped(p) # Nothing
         /\ Head(p.queue) \in 1..asked /\ Head(p.queue) \in Cards
<1>1. p \in Projects /\ p.queue \in Seq(Cards)
  BY DEF IsProject, Projects
<1>2. /\ Head(p.queue) \in Cards /\ Tail(p.queue) \in Seq(Cards)
      /\ ToSet(p.queue) = {Head(p.queue)} \cup ToSet(Tail(p.queue))
  BY <1>1, HeadAndTail
<1>3. PICK t : t = Tail(p.queue)
  OBVIOUS
<1>4. Popped(p) = [p EXCEPT !.queue = t]
  BY <1>3 DEF Popped
<1>5. /\ Popped(p) \in Projects /\ Popped(p).queue = t /\ Popped(p).focus = p.focus
      /\ Popped(p).docs = p.docs /\ Popped(p).budget = p.budget
  BY <1>1, <1>2, <1>3, <1>4 DEF Projects
<1> QED BY <1>2, <1>3, <1>5, NothingAssumption DEF IsProject

LEMMA AdvanceOrForwardKeeps ==
  ASSUME TurnsSound, NEW r \in Handlers, AdvanceOrForward(r)
  PROVE  TurnsSound'
<1>1. /\ job[r].step = "advance" /\ proj # Nothing
      /\ UNCHANGED <<proj, chat, blobs, count, begun, asked, gone, torn>>
  BY DEF AdvanceOrForward, At
<1>2. TurnInv /\ IsProject(proj)
  BY <1>1 DEF TurnsSound, TurnInv
<1>3. Pending(job[r]) = {} /\ job[r].step \notin AtWork
  BY <1>1 DEF Pending, Chatting, AtWork, Filing
<1>4. CASE proj.queue = << >>
  <2>1. PICK n : n = [IdleJob EXCEPT !.step = "forward"]
    OBVIOUS
  <2>2. Goto(r, n)
    BY <1>4, <2>1 DEF AdvanceOrForward
  <2>3. n \in Jobs /\ n.step = "forward" /\ n.proj = Nothing /\ n.chat = NoChat /\ n.asks = {}
    BY <2>1, IdleJobIs DEF Jobs, Steps
  <2>4. Goes(r, n)
    BY <1>1, <1>2, <2>2, <2>3, Numbers DEF Goes, TurnInv
  <2>5. JobOK(n)'
    BY <1>1, <2>3, NoChatIsOk DEF JobOK, IsChat, HoldsProject, Chatting, Popper, Filing
  <2>6. Freshly(n)'
    BY <2>3 DEF Freshly, HoldsProject, Chatting, Popper
  <2>7. n.step \notin AtWork /\ n.step \notin Chatting
    BY <2>3 DEF Chatting, AtWork, Filing
  <2> QED BY <1>1, <1>3, <2>4, <2>5, <2>6, <2>7, QuietGoes
<1>5. CASE proj.queue # << >>
  <2>1. PICK q, h : q = Popped(proj) /\ h = Head(proj.queue)
    OBVIOUS
  <2>2. PICK n : n = [IdleJob EXCEPT !.step = "popped", !.proj = q, !.card = h]
    OBVIOUS
  <2>3. Goto(r, n)
    BY <1>5, <2>1, <2>2 DEF AdvanceOrForward
  <2>4. /\ IsProject(q) /\ q \in Projects /\ q.queue = Tail(proj.queue) /\ q.focus = proj.focus
        /\ q.docs = proj.docs /\ q.budget = proj.budget /\ q # Nothing /\ h \in 1..asked /\ h \in Cards
    BY <1>2, <1>5, <2>1, PoppedIs DEF IsProject
  <2>5. n \in Jobs /\ n.step = "popped" /\ n.proj = q /\ n.chat = NoChat /\ n.asks = {} /\ n.card = h
    BY <2>2, <2>4, IdleJobIs DEF Jobs, Steps, HoldsProject, Popper
  <2>6. Goes(r, n)
    BY <1>1, <1>2, <2>3, <2>5, Numbers DEF Goes, TurnInv
  <2>7. JobOK(n)'
    BY <1>1, <2>4, <2>5, NoChatIsOk DEF JobOK, IsChat, IsProject, HoldsProject, Chatting, Popper, Filing
  <2>8. Freshly(n)'
    BY <1>1, <1>5, <2>1, <2>4, <2>5 DEF Freshly, HoldsProject, Chatting, Popper
  <2>9. n.step \notin AtWork /\ n.step \notin Chatting
    BY <2>5 DEF Chatting, AtWork, Filing
  <2> QED BY <1>1, <1>3, <2>6, <2>7, <2>8, <2>9, QuietGoes
<1> QED BY <1>4, <1>5

LEMMA ShownIs ==
  ASSUME NEW c, IsChat(c), NEW q \in 1..asked, asked \in 0..MaxAsked
  PROVE  IsChat(Shown(c, q)) /\ Shown(c, q).log = Append(c.log, q)
<1>1. c \in Chats /\ c.log \in Seq({FromUser, PlainText} \cup Cards) /\ c.open \in SUBSET Cards
  BY DEF IsChat, Chats
<1>2. q \in Cards
  BY SizesAssumption DEF Cards
<1>3. PICK l, o : l = Append(c.log, q) /\ o = c.open \cup {q}
  OBVIOUS
<1>4. l \in Seq({FromUser, PlainText} \cup Cards) /\ ToSet(l) = ToSet(c.log) \cup {q}
  BY <1>1, <1>2, <1>3, LineAdded
<1>5. Shown(c, q) = [log |-> l, open |-> o]
  BY <1>3 DEF Shown
<1>6. Shown(c, q) \in Chats /\ Shown(c, q).log = l /\ Shown(c, q).open = o
  BY <1>1, <1>2, <1>3, <1>4, <1>5 DEF Chats
<1>7. ToSet(l) \cap Cards \subseteq 1..asked /\ o \subseteq ToSet(l)
  BY <1>3, <1>4 DEF IsChat
<1> QED BY <1>3, <1>6, <1>7 DEF IsChat

LEMMA ShowNextKeeps ==
  ASSUME TurnsSound, NEW r \in Handlers, ShowNext(r)
  PROVE  TurnsSound'
<1>1. PICK j : j = job[r]
  OBVIOUS
<1>2. PICK u : u = [chat EXCEPT !.log = Append(@, FromUser)]
  OBVIOUS
<1>3. PICK c : c = Shown(u, j.card)
  OBVIOUS
<1>4. PICK n : n = [j EXCEPT !.step = "popchat", !.chatFresh = TRUE, !.chat = c]
  OBVIOUS
<1>5. /\ Goto(r, n) /\ j.step = "popped" /\ UNCHANGED <<proj, chat, blobs, count, begun, asked, gone, torn>>
  BY <1>1, <1>2, <1>3, <1>4 DEF ShowNext, At
<1>6. /\ TurnInv /\ JobOK(j) /\ Freshly(j) /\ j \in Jobs /\ IsChat(chat) /\ j.card \in 1..asked
      /\ IsProject(j.proj) /\ j.proj # Nothing /\ asked \in 0..MaxAsked
  BY <1>1, <1>5 DEF TurnsSound, TurnInv, JobOK, HoldsProject, Popper
<1>7. IsChat(u) /\ u.log = Append(chat.log, FromUser)
  BY <1>2, <1>6, UserSays DEF IsChat, Chats
<1>8. IsChat(c) /\ c \in Chats /\ c.log = Append(u.log, j.card)
  BY <1>3, <1>6, <1>7, ShownIs DEF IsChat
<1>9. /\ n \in Jobs /\ n.step = "popchat" /\ n.proj = j.proj /\ n.chat = c /\ n.asks = j.asks
      /\ n.card = j.card /\ n.projFresh = j.projFresh
  BY <1>4, <1>6, <1>8 DEF Jobs, Steps, HoldsProject, Popper
<1>10. Goes(r, n)
  BY <1>5, <1>6, <1>9, Numbers DEF Goes, TurnInv
<1>11. JobOK(n)'
  BY <1>5, <1>6, <1>8, <1>9 DEF JobOK, IsChat, IsProject, Chatting, Filing, Popper, HoldsProject
<1>12. Freshly(n)'
  BY <1>5, <1>6, <1>7, <1>8, <1>9 DEF Freshly, HoldsProject, Chatting, Popper
<1>13. Pending(job[r]) = {} /\ job[r].step \notin AtWork /\ n.step \notin AtWork /\ n.step \notin Chatting
  BY <1>1, <1>5, <1>9 DEF Pending, Chatting, AtWork, Filing
<1> QED BY <1>5, <1>10, <1>11, <1>12, <1>13, QuietGoes

LEMMA DeleteProjectKeeps ==
  ASSUME TurnsSound, NEW r \in Handlers, DeleteProject(r)
  PROVE  TurnsSound'
<1>1. PICK k : k = blobs \cup {"project", "chat"}
  OBVIOUS
<1>2. PICK n : n = [IdleJob EXCEPT !.step = "delete", !.keys = k]
  OBVIOUS
<1>3. /\ Goto(r, n) /\ job[r].step = "none" /\ begun < MaxHandled /\ begun' = begun + 1
      /\ UNCHANGED <<proj, chat, blobs, count, asked, gone, torn>>
  BY <1>1, <1>2 DEF DeleteProject, Take, At
<1>4. TurnInv /\ blobs \subseteq Documents
  BY DEF TurnsSound, TurnInv
<1>5. /\ n \in Jobs /\ n.step = "delete" /\ n.proj = Nothing /\ n.chat = NoChat /\ n.asks = {} /\ n.keys = k
  BY <1>1, <1>2, <1>4, IdleJobIs DEF Jobs, Steps, Keys
<1>6. begun' \in 0..MaxHandled
  BY <1>3, <1>4, SizesAssumption DEF TurnInv
<1>7. Goes(r, n)
  BY <1>3, <1>4, <1>5, <1>6, Numbers DEF Goes, TurnInv
<1>8. JobOK(n)'
  BY <1>1, <1>3, <1>5, NoChatIsOk DEF JobOK, IsChat, HoldsProject, Chatting, Popper, Filing
<1>9. Freshly(n)'
  BY <1>5 DEF Freshly, HoldsProject, Chatting, Popper
<1>10. Pending(job[r]) = {} /\ job[r].step \notin AtWork /\ n.step \notin AtWork \ {"delete"} /\ n.step \notin Chatting
  BY <1>3, <1>5 DEF Pending, Chatting, AtWork, Filing
<1> QED BY <1>3, <1>7, <1>8, <1>9, <1>10, QuietGoes

LEMMA AbandonKeeps ==
  ASSUME TurnsSound, NEW r \in Handlers, Abandon(r)
  PROVE  TurnsSound'
<1>1. PICK j : j = job[r]
  OBVIOUS
<1>2. PICK n : n = IdleJob
  OBVIOUS
<1>3. /\ Goto(r, n) /\ gone' = gone \cup j.asks
      /\ torn' = (torn \/ j.step \in {"savechat", "popproject", "document", "removed", "listed", "delete"})
      /\ UNCHANGED <<proj, chat, blobs, count, begun, asked>>
  BY <1>1, <1>2 DEF Abandon
<1>4. TurnInv /\ j.asks \subseteq 1..asked
  BY <1>1 DEF TurnsSound, TurnInv, JobOK
<1>5. gone \subseteq gone' /\ gone' \subseteq 1..asked /\ torn' \in BOOLEAN /\ (torn => torn')
  BY <1>3, <1>4 DEF TurnInv
<1>6. n \in Jobs /\ n.step = "none"
  BY <1>2, IdleJobIs
<1>7. Goes(r, n)
  BY <1>3, <1>4, <1>5, <1>6, Numbers DEF Goes, TurnInv
<1>8. JobOK(n)'
  BY <1>2, <1>3, <1>6, IdleJobIs, NoChatIsOk DEF JobOK, IsChat, HoldsProject, Chatting, Popper, Filing
<1>9. Freshly(n)'
  BY <1>2, <1>6, IdleJobIs DEF Freshly, HoldsProject, Chatting, Popper
<1>10. /\ ~torn' => job[r].step \notin AtWork
       /\ n.step \notin AtWork /\ n.step \notin Chatting
  BY <1>1, <1>3, <1>6 DEF Chatting, AtWork, Filing
<1>11. ~torn' => Pending(job[r]) \subseteq Pending(n) \cup gone'
  BY <1>1, <1>3, <1>5 DEF Pending
<1> QED BY <1>3, <1>7, <1>8, <1>9, <1>10, <1>11, QuietGoes

LEMMA AheadOfMore ==
  ASSUME NEW s, NEW t \in Seq(Cards), NEW a \in Nat, a + 1 \in Cards, Ahead(s, t),
         ToSet(s) \cap Cards \subseteq 1..a
  PROVE  Ahead(s, Append(t, a + 1))
<1>1. ToSet(Append(t, a + 1)) = ToSet(t) \cup {a + 1}
  BY LineAdded
<1>2. \A x \in ToSet(s) \cap Cards : x < a + 1
  OBVIOUS
<1> QED BY <1>1, <1>2 DEF Ahead

LEMMA AskClarifyingQuestionKeeps ==
  ASSUME TurnsSound, NEW r \in Handlers, AskClarifyingQuestion(r)
  PROVE  TurnsSound'
<1>1. PICK j, a : j = job[r] /\ a = asked
  OBVIOUS
<1>2. PICK l : l = Append(j.proj.queue, a + 1)
  OBVIOUS
<1>3. PICK p : p = [j.proj EXCEPT !.queue = l]
  OBVIOUS
<1>4. PICK n : n = [j EXCEPT !.proj = p, !.asks = @ \cup {a + 1}]
  OBVIOUS
<1>5. /\ Goto(r, n) /\ j.step = "agent" /\ asked < MaxAsked /\ asked' = a + 1
      /\ UNCHANGED <<proj, chat, blobs, count, begun, gone, torn>>
  BY <1>1, <1>2, <1>3, <1>4 DEF AskClarifyingQuestion, Offered, At
<1>6. /\ TurnInv /\ JobOK(j) /\ Freshly(j) /\ j \in Jobs /\ IsProject(j.proj) /\ j.proj \in Projects
      /\ IsChat(j.chat) /\ j.asks \subseteq 1..a /\ a \in Nat /\ a + 1 \in Cards /\ MaxAsked \in Nat
  BY <1>1, <1>5, Numbers DEF TurnsSound, TurnInv, JobOK, HoldsProject, Chatting, IsProject, Cards
<1>7. j.proj.queue \in Seq(Cards) /\ ToSet(j.proj.queue) = j.asks /\ InOrder(j.proj.queue)
      /\ Ahead(j.chat.log, j.proj.queue)
  BY <1>5, <1>6 DEF JobOK, Projects, Chatting
<1>8. l \in Seq(Cards) /\ ToSet(l) = j.asks \cup {a + 1}
  BY <1>2, <1>6, <1>7, LineAdded
<1>9. InOrder(l)
  <2>1. \A y \in ToSet(j.proj.queue) \cap Cards : y < a + 1
    BY <1>6, <1>7
  <2> QED BY <1>2, <1>6, <1>7, <2>1, OrderKept
<1>10. /\ p \in Projects /\ p.queue = l /\ p.focus = j.proj.focus /\ p.docs = j.proj.docs
       /\ p.budget = j.proj.budget /\ p # Nothing
  BY <1>3, <1>6, <1>8, NothingAssumption DEF Projects
<1>11. /\ n \in Jobs /\ n.step = "agent" /\ n.proj = p /\ n.chat = j.chat /\ n.asks = j.asks \cup {a + 1}
       /\ n.projFresh = j.projFresh /\ n.chatFresh = j.chatFresh
  BY <1>4, <1>5, <1>6, <1>10 DEF Jobs
<1>12. \A x \in 1..a : x \in 1..(a + 1)
  BY <1>6
<1>13. Goes(r, n)
  BY <1>1, <1>5, <1>6, <1>11, <1>12 DEF Goes, TurnInv, Cards
<1>14. Ahead(j.chat.log, l)
  BY <1>1, <1>2, <1>6, <1>7, AheadOfMore DEF IsChat
<1>15. JobOK(n)'
  <2>1. IsProject(p)' /\ IsChat(j.chat)' /\ n.asks \subseteq 1..asked'
    BY <1>1, <1>5, <1>6, <1>8, <1>10, <1>11, <1>12 DEF IsProject, IsChat
  <2> QED BY <1>8, <1>9, <1>10, <1>11, <1>14, <2>1 DEF JobOK, Filing, Popper
<1>16. Freshly(n)'
  BY <1>5, <1>6, <1>10, <1>11 DEF Freshly, HoldsProject, Chatting, Popper
<1>17. TurnInv' /\ Does(r, n, FALSE, FALSE)
  BY <1>6, <1>13, <1>15, <1>16, GoesOn
<1>18. Honest(r, n, FALSE, FALSE)
  BY <1>1, <1>5 DEF Honest, Doomed, At
<1>19. Lost => Lost'
  BY <1>6, <1>17, <1>18, LostStays
<1>20. ASSUME ~Lost' PROVE CardsInv' /\ FilesInv'
  <2>1. CardsInv /\ FilesInv
    BY <1>19, <1>20 DEF TurnsSound
  <2>2. FilesInv'
    BY <1>1, <1>5, <1>6, <1>11, <1>17, <2>1, FilesRest DEF Filing
  <2>3. /\ job'[r] = n /\ \A x \in Handlers \ {r} : job'[x] = job[x]
    BY <1>5, <1>6 DEF Goto, TurnInv
  <2>4. Popping' <=> Popping
    BY <1>1, <1>5, <1>11, <2>3 DEF Popping, At
  <2>5. Waiting' = Waiting
    BY <1>5, <2>4 DEF Waiting
  <2>6. InOrder(chat.log)' /\ InOrder(Waiting)' /\ Ahead(chat.log, Waiting)'
    <3>1. InOrder(chat'.log) /\ InOrder(Waiting') /\ Ahead(chat'.log, Waiting')
      BY <1>5, <2>1, <2>5 DEF CardsInv
    <3> QED BY <3>1 DEF InOrder, Ahead
  <2>7. ASSUME NEW d \in 1..asked'
        PROVE  d \in ToSet(chat'.log) \cup ToSet(Waiting') \cup gone' \/ \E x \in Handlers : d \in Pending(job'[x])
    <3>1. CASE d = a + 1
      BY <1>11, <2>3, <3>1 DEF Pending, Chatting
    <3>2. CASE d # a + 1
      <4>1. d \in 1..asked
        BY <1>1, <1>5, <1>6, <3>2
      <4>2. d \in ToSet(chat.log) \cup ToSet(Waiting) \cup gone \/ \E x \in Handlers : d \in Pending(job[x])
        BY <2>1, <4>1 DEF CardsInv
      <4>3. \A x \in Handlers : Pending(job[x]) \subseteq Pending(job'[x])
        BY <1>1, <1>5, <1>11, <2>3 DEF Pending, Chatting
      <4> QED BY <1>5, <2>5, <4>2, <4>3
    <3> QED BY <3>1, <3>2
  <2>8. ASSUME NEW x \in Handlers, At(x, "savechat")'
        PROVE  /\ ~Popping' /\ InOrder(job'[x].chat.log) /\ Ahead(job'[x].chat.log, proj'.queue)
               /\ At(x, "savechat") /\ job'[x] = job[x]
    BY <1>5, <1>11, <2>1, <2>3, <2>4, <2>8 DEF CardsInv, At
  <2>9. ASSUME NEW x \in Handlers, job'[x].step \in Chatting, job'[x].projFresh
        PROVE  /\ ~Popping' => Ahead(chat'.log, job'[x].proj.queue)
               /\ \A s \in Handlers : At(s, "savechat")' => Ahead(job'[s].chat.log, job'[x].proj.queue)
    <3>1. CASE x # r
      BY <1>5, <2>1, <2>3, <2>4, <2>8, <2>9, <3>1 DEF CardsInv
    <3>2. CASE x = r
      <4>1. /\ ~Popping => Ahead(chat.log, j.proj.queue)
            /\ \A s \in Handlers : At(s, "savechat") => Ahead(job[s].chat.log, j.proj.queue)
        BY <1>1, <1>5, <1>11, <2>1, <2>3, <2>9, <3>2 DEF CardsInv, Chatting
      <4>2. ToSet(chat.log) \cap Cards \subseteq 1..a
        BY <1>1, <1>6 DEF TurnInv, IsChat
      <4>3. \A s \in Handlers : ToSet(job[s].chat.log) \cap Cards \subseteq 1..a
        BY <1>1, <1>6 DEF TurnInv, JobOK, IsChat
      <4>4. ~Popping => Ahead(chat.log, l)
        BY <1>2, <1>6, <1>7, <4>1, <4>2, AheadOfMore
      <4>5. ASSUME NEW s \in Handlers, At(s, "savechat")' PROVE Ahead(job'[s].chat.log, l)
        <5>1. PICK h : h = job[s].chat.log
          OBVIOUS
        <5>2. Ahead(h, j.proj.queue) /\ ToSet(h) \cap Cards \subseteq 1..a /\ job'[s].chat.log = h
          BY <2>8, <4>1, <4>3, <4>5, <5>1
        <5>3. Ahead(h, Append(j.proj.queue, a + 1))
          BY <1>6, <1>7, <5>2, AheadOfMore
        <5> QED BY <1>2, <5>2, <5>3
      <4> QED BY <1>5, <1>10, <1>11, <2>3, <2>4, <3>2, <4>4, <4>5
    <3> QED BY <3>1, <3>2
  <2>10. CardsInv'
    BY <2>6, <2>7, <2>8, <2>9 DEF CardsInv
  <2> QED BY <2>2, <2>10
<1> QED BY <1>17, <1>20 DEF TurnsSound

(* A put of the project.                                                   *)
LEMMA ProjectPut ==
  ASSUME TurnsSound, NEW r \in Handlers, NEW q, NEW n \in Jobs, PutProject(r, q, n),
         UNCHANGED <<chat, blobs, count, begun, asked, gone>>,
         IsProject(q), q # Nothing, job[r].step \in HoldsProject, JobOK(n)', Freshly(n)'
  PROVE  /\ TurnInv' /\ Does(r, n, TRUE, FALSE) /\ proj' = q
         /\ job'[r] = n /\ \A x \in Handlers \ {r} : Dims(job[x], job'[x], TRUE, FALSE)
         /\ ~Lost' => /\ CardsInv /\ FilesInv /\ job[r].projFresh
                      /\ \A x \in Handlers \ {r} : job[x].step \notin {"popproject", "listed"}
<1>1. /\ proj' = q /\ job' = Others(r, n, TRUE, FALSE) /\ torn' = (torn \/ ~job[r].projFresh)
  BY DEF PutProject
<1>2. TurnInv /\ job[r].projFresh \in BOOLEAN /\ Freshly(job[r]) /\ torn \in BOOLEAN
  BY DEF TurnsSound, TurnInv, Jobs
<1>3. proj = Nothing => torn'
  BY <1>1, <1>2 DEF Freshly
<1>4. Effects(TRUE, FALSE)
  BY <1>1, <1>2, <1>3, Numbers DEF Effects
<1>5. Does(r, n, TRUE, FALSE)
  BY <1>1, <1>4 DEF Does
<1>6. (proj # Nothing => IsProject(proj))' /\ IsChat(chat)' /\ torn' \in BOOLEAN
  BY <1>1, <1>2 DEF TurnInv, IsProject, IsChat
<1>7. TurnInv'
  <2>1. /\ asked' \in 0..MaxAsked /\ begun' \in 0..MaxHandled /\ blobs' \subseteq Documents
        /\ count' \in [PracticeIds -> 0..MaxCount] /\ gone' \subseteq 1..asked'
    BY <1>2 DEF TurnInv
  <2> QED BY <1>2, <1>5, <1>6, <2>1, TurnMoves
<1>8. /\ job'[r] = n /\ \A x \in Handlers \ {r} : Dims(job[x], job'[x], TRUE, FALSE)
  BY <1>1, <1>2, OthersDim DEF TurnInv
<1>9. Honest(r, n, TRUE, FALSE)
  BY <1>1, <1>2 DEF Honest, Doomed, At, HoldsProject, Chatting, Popper
<1>10. Lost => Lost'
  BY <1>2, <1>5, <1>9, LostStays
<1>11. ASSUME ~Lost' PROVE job[r].projFresh
  BY <1>1, <1>2, <1>11 DEF Lost
<1>12. ASSUME ~Lost', NEW x \in Handlers \ {r} PROVE job[x].step \notin {"popproject", "listed"}
  BY <1>8, <1>12 DEF Lost, Doomed, Dims
<1> QED BY <1>1, <1>5, <1>7, <1>8, <1>10, <1>11, <1>12 DEF TurnsSound

(* A tool of a turn saves the copy: its queue is what now waits.           *)
LEMMA TurnSaves ==
  ASSUME TurnsSound, NEW r \in Handlers, NEW q, NEW n \in Jobs, PutProject(r, q, n),
         UNCHANGED <<chat, blobs, count, begun, asked, gone>>,
         IsProject(q), q # Nothing, job[r].step \in Chatting, n.step \in Chatting,
         n.proj = q, n.asks = job[r].asks, JobOK(n)', Freshly(n)',
         q.queue = job[r].proj.queue, q.docs = job[r].proj.docs
  PROVE  TurnsSound'
<1>1. PICK j : j = job[r]
  OBVIOUS
<1>2. j.step \in HoldsProject /\ j.step \notin Filing /\ n.step \notin Filing
      /\ j.step \notin {"popproject", "savechat"} /\ n.step \notin {"popproject", "savechat"}
  BY <1>1 DEF HoldsProject, Chatting, Filing
<1>3. /\ TurnInv' /\ Does(r, n, TRUE, FALSE) /\ proj' = q
      /\ job'[r] = n /\ \A x \in Handlers \ {r} : Dims(job[x], job'[x], TRUE, FALSE)
      /\ ~Lost' => /\ CardsInv /\ FilesInv /\ j.projFresh
                   /\ \A x \in Handlers \ {r} : job[x].step \notin {"popproject", "listed"}
  BY <1>1, <1>2, ProjectPut
<1>4. TurnInv /\ JobOK(j) /\ Freshly(j)
  BY <1>1 DEF TurnsSound, TurnInv
<1>5. ASSUME ~Lost' PROVE CardsInv' /\ FilesInv'
  <2>1. /\ CardsInv /\ FilesInv /\ j.projFresh
        /\ \A x \in Handlers \ {r} : job[x].step \notin {"popproject", "listed"}
    BY <1>3, <1>5
  <2>2. q.docs = proj.docs /\ ToSet(proj.queue) \subseteq gone \cup j.asks
    BY <1>1, <1>2, <1>4, <2>1 DEF Freshly, Chatting
  <2>3. ToSet(q.queue) = j.asks /\ InOrder(q.queue)
    BY <1>1, <1>4 DEF JobOK
  <2>4. FilesInv'
    BY <1>1, <1>2, <1>3, <1>4, <2>1, <2>2, FilesRest
  <2>5. ~Popping
    BY <1>1, <1>2, <2>1 DEF Popping, At
  <2>6. ~Popping'
    BY <1>2, <1>3, <2>1 DEF Popping, At, Dims
  <2>7. Waiting = proj.queue /\ Waiting' = q.queue
    BY <1>3, <2>5, <2>6 DEF Waiting
  <2>8. /\ Ahead(chat.log, q.queue)
        /\ \A s \in Handlers : At(s, "savechat") => Ahead(job[s].chat.log, q.queue)
    BY <1>1, <2>1, <2>5 DEF CardsInv
  <2>9. InOrder(chat.log)' /\ InOrder(Waiting)' /\ Ahead(chat.log, Waiting)'
    <3>1. InOrder(chat'.log) /\ InOrder(Waiting') /\ Ahead(chat'.log, Waiting')
      BY <2>1, <2>3, <2>7, <2>8 DEF CardsInv
    <3> QED BY <3>1 DEF InOrder, Ahead
  <2>10. ASSUME NEW d \in 1..asked'
         PROVE  d \in ToSet(chat'.log) \cup ToSet(Waiting') \cup gone' \/ \E x \in Handlers : d \in Pending(job'[x])
    <3>1. d \in ToSet(chat.log) \cup ToSet(proj.queue) \cup gone \/ \E x \in Handlers : d \in Pending(job[x])
      BY <2>1, <2>7 DEF CardsInv
    <3>2. \A x \in Handlers \ {r} : Pending(job[x]) = Pending(job'[x])
      BY <1>3 DEF Dims, Pending
    <3>3. Pending(job[r]) = ToSet(Waiting')
      BY <1>1, <2>3, <2>7 DEF Pending
    <3> QED BY <2>2, <2>3, <2>7, <3>1, <3>2, <3>3
  <2>11. ASSUME NEW x \in Handlers, At(x, "savechat")'
         PROVE  /\ ~Popping' /\ InOrder(job'[x].chat.log) /\ Ahead(job'[x].chat.log, proj'.queue)
    <3>1. x # r
      BY <1>2, <1>3, <2>11 DEF At
    <3>2. At(x, "savechat") /\ job'[x].chat = job[x].chat
      BY <1>3, <2>11, <3>1 DEF At, Dims
    <3> QED BY <1>3, <2>1, <2>6, <2>8, <3>2 DEF CardsInv
  <2>12. ASSUME NEW x \in Handlers, job'[x].step \in Chatting, job'[x].projFresh
         PROVE  /\ ~Popping' => Ahead(chat'.log, job'[x].proj.queue)
                /\ \A s \in Handlers : At(s, "savechat")' => Ahead(job'[s].chat.log, job'[x].proj.queue)
    <3>1. x = r
      BY <1>3, <2>12 DEF Dims, Chatting
    <3> QED BY <1>3, <2>8, <2>11, <3>1
  <2>13. CardsInv'
    BY <2>9, <2>10, <2>11, <2>12 DEF CardsInv
  <2> QED BY <2>4, <2>13
<1> QED BY <1>3, <1>5 DEF TurnsSound

(* The copy a tool saves is the one it keeps.                              *)
LEMMA ToolSaves ==
  ASSUME TurnsSound, NEW r \in Handlers, NEW q, NEW n \in Jobs, PutProject(r, q, n),
         UNCHANGED <<chat, blobs, count, begun, asked, gone>>,
         q \in Projects, q.queue = job[r].proj.queue, q.docs = job[r].proj.docs,
         job[r].step \in {"agent", "generated"}, n.step = "agent", n.proj = q, n.chat = job[r].chat,
         n.asks = job[r].asks, n.chatFresh = job[r].chatFresh
  PROVE  TurnsSound'
<1>1. PICK j : j = job[r]
  OBVIOUS
<1>2. TurnInv /\ JobOK(j) /\ Freshly(j) /\ j.step \in Chatting /\ n.step \in Chatting
  BY <1>1 DEF TurnsSound, TurnInv, Chatting
<1>3. /\ ToSet(q.queue) = j.asks /\ InOrder(q.queue) /\ Ahead(j.chat.log, q.queue)
      /\ j.asks \subseteq 1..asked /\ IsChat(j.chat)
  BY <1>1, <1>2 DEF JobOK
<1>4. IsProject(q) /\ q # Nothing
  BY <1>3, NothingAssumption DEF IsProject
<1>5. JobOK(n)'
  BY <1>1, <1>3, <1>4 DEF JobOK, IsProject, IsChat, Filing, Popper
<1>6. proj' = q
  BY DEF PutProject
<1>7. Freshly(n)'
  <2>1. n.chatFresh => n.chat.log = Append(chat.log, FromUser)
    BY <1>1, <1>2 DEF Freshly
  <2> QED BY <1>1, <1>2, <1>3, <1>4, <1>6, <2>1 DEF Freshly, Popper
<1> QED BY <1>1, <1>2, <1>4, <1>5, <1>7, TurnSaves

LEMMA SwitchFocusKeeps ==
  ASSUME TurnsSound, NEW r \in Handlers, SwitchFocus(r)
  PROVE  TurnsSound'
<1>1. PICK j : j = job[r]
  OBVIOUS
<1>2. PICK f \in Substates : LET p == [j.proj EXCEPT !.focus = f] IN PutProject(r, p, [j EXCEPT !.proj = p])
  BY <1>1 DEF SwitchFocus
<1>3. PICK q : q = [j.proj EXCEPT !.focus = f]
  OBVIOUS
<1>4. PICK n : n = [j EXCEPT !.proj = q]
  OBVIOUS
<1>5. PutProject(r, q, n) /\ j.step = "agent" /\ UNCHANGED <<chat, blobs, count, begun, asked, gone>>
  BY <1>1, <1>2, <1>3, <1>4 DEF SwitchFocus, Offered, At
<1>6. j \in Jobs /\ j.proj \in Projects
  BY <1>1, <1>5 DEF TurnsSound, TurnInv, JobOK, HoldsProject, Chatting, IsProject
<1>7. q \in Projects /\ q.queue = j.proj.queue /\ q.docs = j.proj.docs
  BY <1>3, <1>6 DEF Projects
<1>8. /\ n \in Jobs /\ n.step = "agent" /\ n.proj = q /\ n.chat = j.chat /\ n.asks = j.asks
      /\ n.chatFresh = j.chatFresh
  BY <1>4, <1>5, <1>6, <1>7 DEF Jobs
<1> QED BY <1>1, <1>5, <1>7, <1>8, ToolSaves

LEMMA SetQuestionBudgetKeeps ==
  ASSUME TurnsSound, NEW r \in Handlers, SetQuestionBudget(r)
  PROVE  TurnsSound'
<1>1. PICK j : j = job[r]
  OBVIOUS
<1>2. PICK b \in Budgets : LET p == [j.proj EXCEPT !.budget = b] IN PutProject(r, p, [j EXCEPT !.proj = p])
  BY <1>1 DEF SetQuestionBudget
<1>3. PICK q : q = [j.proj EXCEPT !.budget = b]
  OBVIOUS
<1>4. PICK n : n = [j EXCEPT !.proj = q]
  OBVIOUS
<1>5. PutProject(r, q, n) /\ j.step = "agent" /\ UNCHANGED <<chat, blobs, count, begun, asked, gone>>
  BY <1>1, <1>2, <1>3, <1>4 DEF SetQuestionBudget, Offered, At
<1>6. j \in Jobs /\ j.proj \in Projects
  BY <1>1, <1>5 DEF TurnsSound, TurnInv, JobOK, HoldsProject, Chatting, IsProject
<1>7. q \in Projects /\ q.queue = j.proj.queue /\ q.docs = j.proj.docs
  BY <1>3, <1>6 DEF Projects
<1>8. /\ n \in Jobs /\ n.step = "agent" /\ n.proj = q /\ n.chat = j.chat /\ n.asks = j.asks
      /\ n.chatFresh = j.chatFresh
  BY <1>4, <1>5, <1>6, <1>7 DEF Jobs
<1> QED BY <1>1, <1>5, <1>7, <1>8, ToolSaves

LEMMA SaveGeneratedKeeps ==
  ASSUME TurnsSound, NEW r \in Handlers, SaveGenerated(r)
  PROVE  TurnsSound'
<1>1. PICK j, q : j = job[r] /\ q = j.proj
  OBVIOUS
<1>2. PICK n : n = [j EXCEPT !.step = "agent", !.count = Nothing]
  OBVIOUS
<1>3. PutProject(r, q, n) /\ j.step = "generated" /\ UNCHANGED <<chat, blobs, count, begun, asked, gone>>
  BY <1>1, <1>2 DEF SaveGenerated, At
<1>4. j \in Jobs /\ q \in Projects
  BY <1>1, <1>3 DEF TurnsSound, TurnInv, JobOK, HoldsProject, Chatting, IsProject
<1>5. /\ n \in Jobs /\ n.step = "agent" /\ n.proj = q /\ n.chat = j.chat /\ n.asks = j.asks
      /\ n.chatFresh = j.chatFresh
  BY <1>1, <1>2, <1>3, <1>4 DEF Jobs, Steps, HoldsProject, Chatting, Counts
<1> QED BY <1>1, <1>3, <1>4, <1>5, ToolSaves

LEMMA SaysPlain ==
  ASSUME NEW c, IsChat(c)
  PROVE  IsChat(Said(c)) /\ Said(c).log = Append(c.log, PlainText)
<1>1. c \in Chats /\ c.log \in Seq({FromUser, PlainText} \cup Cards)
  BY DEF IsChat, Chats
<1>2. PICK l : l = Append(c.log, PlainText)
  OBVIOUS
<1>3. l \in Seq({FromUser, PlainText} \cup Cards) /\ ToSet(l) = ToSet(c.log) \cup {PlainText}
  BY <1>1, <1>2, LineAdded
<1>4. PICK d : d = [c EXCEPT !.log = l]
  OBVIOUS
<1>5. d \in Chats /\ d.log = l /\ d.open = c.open
  BY <1>1, <1>3, <1>4 DEF Chats
<1>6. PlainText \notin Cards
  BY SizesAssumption DEF PlainText, Cards
<1>7. IsChat(d)
  BY <1>3, <1>5, <1>6 DEF IsChat
<1> QED BY <1>2, <1>4, <1>5, <1>7 DEF Said

(* The log a card is added to: it comes after every card shown before.     *)
LEMMA CardComesLast ==
  ASSUME NEW l \in Seq({FromUser, PlainText} \cup Cards), InOrder(l), NEW t \in Seq(Cards), InOrder(t),
         t # << >>, Ahead(l, t)
  PROVE  /\ InOrder(Append(l, Head(t))) /\ Ahead(Append(l, Head(t)), Tail(t)) /\ InOrder(Tail(t))
         /\ Ahead(l, Tail(t))
<1>1. /\ Head(t) \in Cards /\ ToSet(t) = {Head(t)} \cup ToSet(Tail(t)) /\ InOrder(Tail(t))
      /\ \A y \in ToSet(Tail(t)) \cap Cards : Head(t) < y
  BY HeadAndTail
<1>2. \A y \in ToSet(l) \cap Cards : y < Head(t)
  BY <1>1 DEF Ahead
<1>3. /\ Append(l, Head(t)) \in Seq({FromUser, PlainText} \cup Cards)
      /\ ToSet(Append(l, Head(t))) = ToSet(l) \cup {Head(t)}
  BY <1>1, LineAdded
<1>4. InOrder(Append(l, Head(t)))
  BY <1>1, <1>2, OrderKept
<1>5. Ahead(l, Tail(t))
  BY <1>1 DEF Ahead
<1>6. Ahead(Append(l, Head(t)), Tail(t))
  BY <1>1, <1>3, <1>5 DEF Ahead
<1> QED BY <1>1, <1>4, <1>5, <1>6

(* A line that is no card leaves the order as it is.                       *)
LEMMA LineComesLast ==
  ASSUME NEW l \in Seq({FromUser, PlainText} \cup Cards), InOrder(l), NEW x \in {FromUser, PlainText}
  PROVE  /\ InOrder(Append(l, x)) /\ Append(l, x) \in Seq({FromUser, PlainText} \cup Cards)
         /\ ToSet(Append(l, x)) = ToSet(l) \cup {x}
         /\ \A t : Ahead(l, t) => Ahead(Append(l, x), t)
<1>1. x \notin Cards
  BY SizesAssumption DEF FromUser, PlainText, Cards
<1>2. ToSet(Append(l, x)) = ToSet(l) \cup {x} /\ Append(l, x) \in Seq({FromUser, PlainText} \cup Cards)
  BY LineAdded
<1>3. InOrder(Append(l, x))
  BY <1>1, OrderKept
<1>4. \A t : Ahead(l, t) => Ahead(Append(l, x), t)
  BY <1>1, <1>2 DEF Ahead
<1> QED BY <1>2, <1>3, <1>4

(* What a turn says last, and the queue it leaves.                         *)
\* What the conversation of a turn becomes when it ends.
Closing(p, k) == IF p.queue = << >> THEN Said(k) ELSE Shown(k, Head(p.queue))

LEMMA TurnEnds ==
  ASSUME NEW p, IsProject(p), p # Nothing, NEW k, IsChat(k), asked \in 0..MaxAsked
  PROVE  /\ IsProject(Popped(p)) /\ Popped(p) # Nothing /\ Popped(p).docs = p.docs
         /\ IsChat(Closing(p, k)) /\ \E x \in {PlainText} \cup Cards : Closing(p, k).log = Append(k.log, x)
         /\ ToSet(p.queue) \subseteq ToSet(Closing(p, k).log) \cup ToSet(Popped(p).queue)
         /\ InOrder(k.log) /\ InOrder(p.queue) /\ Ahead(k.log, p.queue) =>
              InOrder(Closing(p, k).log) /\ Ahead(Closing(p, k).log, Popped(p).queue)
         /\ InOrder(p.queue) => InOrder(Popped(p).queue)
         /\ \A l \in Seq({FromUser, PlainText} \cup Cards) : Ahead(l, p.queue) => Ahead(l, Popped(p).queue)
<1> DEFINE c == Closing(p, k)
<1>1. p \in Projects /\ p.queue \in Seq(Cards) /\ k.log \in Seq({FromUser, PlainText} \cup Cards)
  BY DEF IsProject, IsChat, Projects, Chats
<1>2. CASE p.queue = << >>
  <2>1. Popped(p) = p /\ c = Said(k)
    BY <1>2 DEF Popped, Closing
  <2>2. IsChat(c) /\ c.log = Append(k.log, PlainText)
    BY <2>1, SaysPlain
  <2>3. InOrder(k.log) => InOrder(c.log)
    BY <1>1, <2>2, LineComesLast
  <2>4. ToSet(p.queue) = {} /\ \A s : Ahead(s, p.queue)
    BY <1>2, EmptyQueue
  <2> QED BY <2>1, <2>2, <2>3, <2>4
<1>3. CASE p.queue # << >>
  <2>1. /\ IsProject(Popped(p)) /\ Popped(p).queue = Tail(p.queue) /\ Popped(p).docs = p.docs
        /\ Popped(p) # Nothing /\ Head(p.queue) \in 1..asked /\ Head(p.queue) \in Cards
    BY <1>3, PoppedIs
  <2>2. PICK h : h = Head(p.queue)
    OBVIOUS
  <2>3. c = Shown(k, h) /\ h \in 1..asked /\ h \in Cards
    BY <1>3, <2>1, <2>2 DEF Closing
  <2>4. IsChat(c) /\ c.log = Append(k.log, h)
    BY <2>3, ShownIs
  <2>5. ToSet(c.log) = ToSet(k.log) \cup {h}
    <3>1. h \in {FromUser, PlainText} \cup Cards
      BY <2>3
    <3>2. ToSet(Append(k.log, h)) = ToSet(k.log) \cup {h}
      BY <1>1, <3>1, LineAdded
    <3> QED BY <2>4, <3>2
  <2>6. /\ ToSet(p.queue) = {h} \cup ToSet(Tail(p.queue))
        /\ InOrder(p.queue) => InOrder(Tail(p.queue))
    BY <1>1, <1>3, <2>2, HeadAndTail
  <2>7. \A l \in Seq({FromUser, PlainText} \cup Cards) : Ahead(l, p.queue) => Ahead(l, Tail(p.queue))
    BY <2>6 DEF Ahead
  <2>8. InOrder(k.log) /\ InOrder(p.queue) /\ Ahead(k.log, p.queue) =>
          InOrder(c.log) /\ Ahead(c.log, Tail(p.queue))
    BY <1>1, <1>3, <2>2, <2>4, CardComesLast
  <2> QED BY <2>1, <2>3, <2>4, <2>5, <2>6, <2>7, <2>8
<1> QED BY <1>2, <1>3

LEMMA EndTurnKeeps ==
  ASSUME TurnsSound, NEW r \in Handlers, EndTurn(r)
  PROVE  TurnsSound'
<1>1. PICK j, q : j = job[r] /\ q = Popped(j.proj)
  OBVIOUS
<1>2. PICK c : c = IF j.proj.queue = << >> THEN Said(j.chat) ELSE Shown(j.chat, Head(j.proj.queue))
  OBVIOUS
<1>3. PICK n : n = [j EXCEPT !.step = "savechat", !.proj = q, !.chat = c]
  OBVIOUS
<1>4. PutProject(r, q, n) /\ j.step = "agent" /\ UNCHANGED <<chat, blobs, count, begun, asked, gone>>
  BY <1>1, <1>2, <1>3 DEF EndTurn, At
<1>5. /\ TurnInv /\ JobOK(j) /\ Freshly(j) /\ j \in Jobs /\ IsProject(j.proj) /\ j.proj # Nothing /\ IsChat(j.chat)
      /\ j.step \in Chatting /\ j.step \in HoldsProject /\ asked \in 0..MaxAsked
  BY <1>1, <1>4 DEF TurnsSound, TurnInv, JobOK, HoldsProject, Chatting
<1>6. /\ IsProject(q) /\ q # Nothing /\ q.docs = j.proj.docs
      /\ IsChat(c) /\ \E x \in {PlainText} \cup Cards : c.log = Append(j.chat.log, x)
      /\ ToSet(j.proj.queue) \subseteq ToSet(c.log) \cup ToSet(q.queue)
      /\ InOrder(j.chat.log) /\ InOrder(j.proj.queue) /\ Ahead(j.chat.log, j.proj.queue) =>
           InOrder(c.log) /\ Ahead(c.log, q.queue)
      /\ InOrder(j.proj.queue) => InOrder(q.queue)
      /\ \A l \in Seq({FromUser, PlainText} \cup Cards) : Ahead(l, j.proj.queue) => Ahead(l, q.queue)
  <2>1. PICK p, k : p = j.proj /\ k = j.chat
    OBVIOUS
  <2>2. /\ IsProject(p) /\ p # Nothing /\ IsChat(k) /\ asked \in 0..MaxAsked
        /\ c = Closing(p, k)
    BY <1>2, <1>5, <2>1 DEF Closing
  <2>3. /\ IsProject(Popped(p)) /\ Popped(p) # Nothing /\ Popped(p).docs = p.docs
        /\ IsChat(c) /\ \E x \in {PlainText} \cup Cards : c.log = Append(k.log, x)
        /\ ToSet(p.queue) \subseteq ToSet(c.log) \cup ToSet(Popped(p).queue)
        /\ InOrder(k.log) /\ InOrder(p.queue) /\ Ahead(k.log, p.queue) =>
             InOrder(c.log) /\ Ahead(c.log, Popped(p).queue)
        /\ InOrder(p.queue) => InOrder(Popped(p).queue)
        /\ \A l \in Seq({FromUser, PlainText} \cup Cards) : Ahead(l, p.queue) => Ahead(l, Popped(p).queue)
    BY <2>2, TurnEnds
  <2> QED BY <1>1, <2>1, <2>3
<1>7. /\ n \in Jobs /\ n.step = "savechat" /\ n.proj = q /\ n.chat = c /\ n.asks = j.asks
      /\ n.chatFresh = j.chatFresh
  <2>1. c \in Chats /\ q \in Projects
    BY <1>6 DEF IsChat, IsProject
  <2> QED BY <1>3, <1>5, <2>1 DEF Jobs, Steps
<1>8. JobOK(n)'
  BY <1>4, <1>5, <1>6, <1>7 DEF JobOK, IsProject, IsChat, HoldsProject, Chatting, Filing, Popper
<1>9. Freshly(n)'
  <2>1. j.chatFresh => j.chat.log = Append(chat.log, FromUser)
    BY <1>5 DEF Freshly
  <2> QED BY <1>4, <1>6, <1>7, <2>1 DEF Freshly, HoldsProject, Chatting, Popper
<1>10. /\ TurnInv' /\ Does(r, n, TRUE, FALSE) /\ proj' = q
       /\ job'[r] = n /\ \A x \in Handlers \ {r} : Dims(job[x], job'[x], TRUE, FALSE)
       /\ ~Lost' => /\ CardsInv /\ FilesInv /\ j.projFresh
                    /\ \A x \in Handlers \ {r} : job[x].step \notin {"popproject", "listed"}
  BY <1>1, <1>4, <1>5, <1>6, <1>7, <1>8, <1>9, ProjectPut
<1>11. ASSUME ~Lost' PROVE CardsInv' /\ FilesInv'
  <2>1. /\ CardsInv /\ FilesInv /\ j.projFresh
        /\ \A x \in Handlers \ {r} : job[x].step \notin {"popproject", "listed"}
    BY <1>10, <1>11
  <2>2. j.chatFresh
    BY <1>7, <1>10, <1>11 DEF Lost, Doomed
  <2>3. \A x \in Handlers \ {r} : job'[x].step # "savechat"
    BY <1>7, <1>10, <1>11 DEF Lost, Crowded
  <2>4. /\ q.docs = proj.docs /\ ToSet(proj.queue) \subseteq gone \cup j.asks
        /\ j.chat.log = Append(chat.log, FromUser)
    BY <1>4, <1>5, <1>6, <2>1, <2>2 DEF Freshly
  <2>5. ToSet(j.proj.queue) = j.asks /\ InOrder(j.proj.queue) /\ Ahead(j.chat.log, j.proj.queue)
    BY <1>5 DEF JobOK
  <2>6. FilesInv'
    BY <1>1, <1>4, <1>5, <1>7, <1>10, <2>1, <2>4, FilesRest DEF Filing
  <2>7. ~Popping
    BY <1>1, <1>4, <2>1 DEF Popping, At
  <2>8. ~Popping'
    BY <1>7, <1>10, <2>1 DEF Popping, At, Dims
  <2>9. Waiting = proj.queue /\ Waiting' = q.queue
    BY <1>10, <2>7, <2>8 DEF Waiting
  <2>10. chat.log \in Seq({FromUser, PlainText} \cup Cards) /\ InOrder(chat.log)
    BY <1>5, <2>1 DEF TurnInv, IsChat, Chats, CardsInv
  <2>11. InOrder(j.chat.log)
    BY <2>4, <2>10, LineComesLast
  <2>12. Ahead(chat.log, j.proj.queue)
    BY <1>1, <1>5, <2>1, <2>7 DEF CardsInv
  <2>13. InOrder(c.log) /\ Ahead(c.log, q.queue) /\ InOrder(q.queue) /\ Ahead(chat.log, q.queue)
    BY <1>6, <2>5, <2>10, <2>11, <2>12
  <2>14. InOrder(chat.log)' /\ InOrder(Waiting)' /\ Ahead(chat.log, Waiting)'
    <3>1. InOrder(chat'.log) /\ InOrder(Waiting') /\ Ahead(chat'.log, Waiting')
      BY <1>4, <2>9, <2>10, <2>13
    <3> QED BY <3>1 DEF InOrder, Ahead
  <2>15. ASSUME NEW d \in 1..asked'
         PROVE  d \in ToSet(chat'.log) \cup ToSet(Waiting') \cup gone' \/ \E x \in Handlers : d \in Pending(job'[x])
    <3>1. d \in ToSet(chat.log) \cup ToSet(proj.queue) \cup gone \/ \E x \in Handlers : d \in Pending(job[x])
      BY <1>4, <2>1, <2>9 DEF CardsInv
    <3>2. \A x \in Handlers \ {r} : Pending(job[x]) = Pending(job'[x])
      BY <1>10 DEF Dims, Pending
    <3>3. Pending(job[r]) = j.asks /\ Pending(n) = ToSet(c.log)
      BY <1>1, <1>4, <1>7 DEF Pending, Chatting
    <3> QED BY <1>4, <1>6, <1>10, <2>4, <2>5, <2>9, <3>1, <3>2, <3>3
  <2>16. ASSUME NEW x \in Handlers, At(x, "savechat")'
         PROVE  /\ ~Popping' /\ InOrder(job'[x].chat.log) /\ Ahead(job'[x].chat.log, proj'.queue)
    BY <1>7, <1>10, <2>3, <2>8, <2>13, <2>16 DEF At
  <2>17. ASSUME NEW x \in Handlers PROVE ~(job'[x].step \in Chatting /\ job'[x].projFresh)
    BY <1>7, <1>10 DEF Dims, Chatting
  <2>18. CardsInv'
    BY <2>14, <2>15, <2>16, <2>17 DEF CardsInv
  <2> QED BY <2>6, <2>18
<1> QED BY <1>10, <1>11 DEF TurnsSound

(* The last put of a request that holds the project.                       *)
LEMMA LastPut ==
  ASSUME TurnsSound, NEW r \in Handlers, NEW j, j = job[r], j.step \in {"save", "listed", "popproject"},
         PutProject(r, j.proj, IdleJob), UNCHANGED <<chat, blobs, count, begun, asked, gone>>
  PROVE  /\ TurnInv /\ JobOK(j) /\ Freshly(j)
         /\ TurnInv' /\ Does(r, IdleJob, TRUE, FALSE) /\ proj' = j.proj
         /\ job'[r] = IdleJob /\ \A x \in Handlers \ {r} : Dims(job[x], job'[x], TRUE, FALSE)
         /\ ~Lost' => /\ CardsInv /\ FilesInv /\ j.projFresh
                      /\ \A x \in Handlers \ {r} : job[x].step \notin {"popproject", "listed"}
<1>1. /\ TurnInv /\ JobOK(j) /\ Freshly(j) /\ j.step \in HoldsProject /\ IsProject(j.proj) /\ j.proj # Nothing
  BY DEF TurnsSound, TurnInv, JobOK, HoldsProject, Popper
<1>2. PICK n : n = IdleJob
  OBVIOUS
<1>3. n \in Jobs /\ n.step = "none"
  BY <1>2, IdleJobIs
<1>4. JobOK(n)'
  BY <1>2, <1>3, IdleJobIs, NoChatIsOk DEF JobOK, IsChat, HoldsProject, Chatting, Popper, Filing
<1>5. Freshly(n)'
  BY <1>3 DEF Freshly, HoldsProject, Chatting, Popper
<1>6. PutProject(r, j.proj, n)
  BY <1>2
<1>7. /\ TurnInv' /\ Does(r, n, TRUE, FALSE) /\ proj' = j.proj
      /\ job'[r] = n /\ \A x \in Handlers \ {r} : Dims(job[x], job'[x], TRUE, FALSE)
      /\ ~Lost' => /\ CardsInv /\ FilesInv /\ job[r].projFresh
                   /\ \A x \in Handlers \ {r} : job[x].step \notin {"popproject", "listed"}
  BY <1>1, <1>3, <1>4, <1>5, <1>6, ProjectPut
<1> QED BY <1>1, <1>2, <1>7

LEMMA SaveProjectKeeps ==
  ASSUME TurnsSound, NEW r \in Handlers, SaveProject(r)
  PROVE  TurnsSound'
<1>1. PICK j : j = job[r]
  OBVIOUS
<1>2. j.step = "save" /\ PutProject(r, j.proj, IdleJob) /\ UNCHANGED <<chat, blobs, count, begun, asked, gone>>
  BY <1>1 DEF SaveProject, At
<1>3. /\ TurnInv /\ JobOK(j) /\ Freshly(j)
      /\ TurnInv' /\ Does(r, IdleJob, TRUE, FALSE) /\ proj' = j.proj
      /\ job'[r] = IdleJob /\ \A x \in Handlers \ {r} : Dims(job[x], job'[x], TRUE, FALSE)
      /\ ~Lost' => CardsInv /\ FilesInv /\ j.projFresh
  BY <1>1, <1>2, LastPut
<1>4. ASSUME ~Lost' PROVE CardsInv' /\ FilesInv'
  <2>1. CardsInv /\ FilesInv /\ proj'.queue = proj.queue /\ proj'.docs = proj.docs
    BY <1>2, <1>3, <1>4 DEF Freshly, HoldsProject, Popper
  <2>2. Pending(job[r]) = {} /\ job[r].step \notin Filing
    BY <1>1, <1>2 DEF Pending, Chatting, Filing
  <2>3. IdleJob.step \notin Chatting /\ IdleJob.step \notin Filing /\ IdleJob.step \notin {"popproject", "savechat"}
    BY IdleJobIs DEF Chatting, Filing
  <2>4. CardsInv'
    BY <1>1, <1>2, <1>3, <2>1, <2>2, <2>3, CardsRest
  <2>5. FilesInv'
    BY <1>2, <1>3, <2>1, <2>2, <2>3, FilesRest
  <2> QED BY <2>4, <2>5
<1> QED BY <1>3, <1>4 DEF TurnsSound

LEMMA SavePoppedProjectKeeps ==
  ASSUME TurnsSound, NEW r \in Handlers, SavePoppedProject(r)
  PROVE  TurnsSound'
<1>1. PICK j : j = job[r]
  OBVIOUS
<1>2. j.step = "popproject" /\ PutProject(r, j.proj, IdleJob) /\ UNCHANGED <<chat, blobs, count, begun, asked, gone>>
  BY <1>1 DEF SavePoppedProject, At
<1>3. /\ TurnInv /\ JobOK(j) /\ Freshly(j)
      /\ TurnInv' /\ Does(r, IdleJob, TRUE, FALSE) /\ proj' = j.proj
      /\ job'[r] = IdleJob /\ \A x \in Handlers \ {r} : Dims(job[x], job'[x], TRUE, FALSE)
      /\ ~Lost' => /\ CardsInv /\ FilesInv /\ j.projFresh
                   /\ \A x \in Handlers \ {r} : job[x].step \notin {"popproject", "listed"}
  BY <1>1, <1>2, LastPut
<1>4. ASSUME ~Lost' PROVE CardsInv' /\ FilesInv'
  <2>1. CardsInv /\ FilesInv /\ proj'.queue = Tail(proj.queue) /\ proj'.docs = proj.docs
    BY <1>2, <1>3, <1>4 DEF Freshly, HoldsProject, Popper
  <2>2. Pending(job[r]) = {} /\ job[r].step \notin Filing
    BY <1>1, <1>2 DEF Pending, Chatting, Filing
  <2>3. IdleJob.step = "none" /\ IdleJob.step \notin Filing /\ Pending(IdleJob) = {}
    BY IdleJobIs DEF Chatting, Filing, Pending
  <2>4. FilesInv'
    BY <1>2, <1>3, <2>1, <2>2, <2>3, FilesRest
  <2>5. Popping
    BY <1>1, <1>2 DEF Popping, At
  <2>6. ~Popping'
    BY <1>3, <1>4, <2>3 DEF Popping, At, Dims
  <2>7. Waiting' = Waiting
    BY <2>1, <2>5, <2>6 DEF Waiting
  <2>8. InOrder(chat.log)' /\ InOrder(Waiting)' /\ Ahead(chat.log, Waiting)'
    <3>1. InOrder(chat'.log) /\ InOrder(Waiting') /\ Ahead(chat'.log, Waiting')
      BY <1>2, <2>1, <2>7 DEF CardsInv
    <3> QED BY <3>1 DEF InOrder, Ahead
  <2>9. ASSUME NEW d \in 1..asked'
        PROVE  d \in ToSet(chat'.log) \cup ToSet(Waiting') \cup gone' \/ \E x \in Handlers : d \in Pending(job'[x])
    <3>1. d \in ToSet(chat.log) \cup ToSet(Waiting) \cup gone \/ \E x \in Handlers : d \in Pending(job[x])
      BY <1>2, <2>1 DEF CardsInv
    <3>2. \A x \in Handlers \ {r} : Pending(job[x]) = Pending(job'[x])
      BY <1>3 DEF Dims, Pending
    <3> QED BY <1>2, <2>2, <2>7, <3>1, <3>2
  <2>10. ASSUME NEW x \in Handlers PROVE ~At(x, "savechat")'
    <3>1. ~At(x, "savechat")
      BY <2>1, <2>5 DEF CardsInv
    <3> QED BY <1>3, <2>3, <3>1 DEF At, Dims
  <2>11. ASSUME NEW x \in Handlers PROVE ~(job'[x].step \in Chatting /\ job'[x].projFresh)
    BY <1>3, <2>3 DEF Dims, Chatting
  <2>12. CardsInv'
    BY <2>8, <2>9, <2>10, <2>11 DEF CardsInv
  <2> QED BY <2>4, <2>12
<1> QED BY <1>3, <1>4 DEF TurnsSound

LEMMA SaveListingKeeps ==
  ASSUME TurnsSound, NEW r \in Handlers, SaveListing(r)
  PROVE  TurnsSound'
<1>1. PICK j : j = job[r]
  OBVIOUS
<1>2. j.step = "listed" /\ PutProject(r, j.proj, IdleJob) /\ UNCHANGED <<chat, blobs, count, begun, asked, gone>>
  BY <1>1 DEF SaveListing, At
<1>3. /\ TurnInv /\ JobOK(j) /\ Freshly(j)
      /\ TurnInv' /\ Does(r, IdleJob, TRUE, FALSE) /\ proj' = j.proj
      /\ job'[r] = IdleJob /\ \A x \in Handlers \ {r} : Dims(job[x], job'[x], TRUE, FALSE)
      /\ ~Lost' => /\ CardsInv /\ FilesInv /\ j.projFresh
                   /\ \A x \in Handlers \ {r} : job[x].step \notin {"popproject", "listed"}
  BY <1>1, <1>2, LastPut
<1>4. ASSUME ~Lost' PROVE CardsInv' /\ FilesInv'
  <2>1. /\ CardsInv /\ FilesInv /\ proj'.queue = proj.queue /\ j.proj.docs \ {j.doc} = proj.docs \ {j.doc}
        /\ j.doc \in Documents
    BY <1>2, <1>3, <1>4 DEF Freshly, HoldsProject, Popper, JobOK, Filing
  <2>2. Pending(job[r]) = {} /\ job[r].step \in Filing
    BY <1>1, <1>2 DEF Pending, Chatting, Filing
  <2>3. /\ IdleJob.step \notin Chatting /\ IdleJob.step \notin Filing /\ IdleJob.step \notin {"popproject", "savechat"}
        /\ IdleJob.step = "none"
    BY IdleJobIs DEF Chatting, Filing
  <2>4. CardsInv'
    BY <1>1, <1>2, <1>3, <2>1, <2>2, <2>3, CardsRest
  <2>5. \/ j.doc \in (blobs \cap j.proj.docs) \ proj.docs
        \/ j.doc \notin blobs \cup j.proj.docs
    BY <1>1, <1>2, <2>1 DEF FilesInv, At
  <2>6. ASSUME NEW x \in Handlers, job'[x].step \in Filing
        PROVE  /\ x # r /\ job'[x].step = job[x].step /\ job'[x].doc = job[x].doc /\ job[x].step \in Filing
               /\ job[x].step # "listed"
    BY <1>3, <1>4, <2>3, <2>6 DEF Dims
  <2>7. ASSUME NEW d \in Documents
        PROVE  (d \in blobs' <=> d \in proj'.docs) \/ \E x \in Handlers : job'[x].step \in Filing /\ job'[x].doc = d
    <3>1. CASE d = j.doc
      BY <1>2, <1>3, <2>5, <3>1
    <3>2. CASE d # j.doc
      <4>1. (d \in blobs <=> d \in proj.docs) \/ \E x \in Handlers : job[x].step \in Filing /\ job[x].doc = d
        BY <2>1 DEF FilesInv
      <4>2. \A x \in Handlers : job[x].doc = d => x # r
        BY <1>1, <3>2
      <4>3. \A x \in Handlers \ {r} : job'[x].step = job[x].step /\ job'[x].doc = job[x].doc
        BY <1>3 DEF Dims
      <4> QED BY <1>2, <1>3, <2>1, <3>2, <4>1, <4>2, <4>3
    <3> QED BY <3>1, <3>2
  <2>8. ASSUME NEW x \in Handlers
        PROVE  /\ job'[x].step = "document" => job'[x].doc \in blobs' \ proj'.docs
               /\ job'[x].step = "removed" => job'[x].doc \notin blobs'
               /\ job'[x].step # "listed"
    <3>1. job'[x].step # "listed"
      BY <2>6 DEF Filing
    <3>2. ASSUME job'[x].step = "removed" PROVE job'[x].doc \notin blobs'
      BY <1>2, <2>1, <2>6, <3>2 DEF FilesInv, At, Filing
    <3>3. ASSUME job'[x].step = "document" PROVE job'[x].doc \in blobs' \ proj'.docs
      <4>1. x # r /\ job[x].step = "document" /\ job'[x].doc = job[x].doc /\ job[x].step \in Filing
        BY <2>6, <3>3 DEF Filing
      <4>2. job[x].doc \in blobs \ proj.docs
        BY <2>1, <4>1 DEF FilesInv, At
      <4>3. job[x].doc # j.doc
        BY <1>1, <2>1, <2>2, <4>1, <4>2 DEF FilesInv
      <4> QED BY <1>2, <1>3, <2>1, <4>1, <4>2, <4>3
    <3> QED BY <3>1, <3>2, <3>3
  <2>9. ASSUME NEW x \in Handlers, NEW y \in Handlers, job'[x].step \in Filing, job'[y].step \in Filing,
               job'[x].doc = job'[y].doc, job'[x].doc \in blobs'
        PROVE  x = y
    BY <1>2, <2>1, <2>6, <2>9 DEF FilesInv
  <2>10. FilesInv'
    BY <2>7, <2>8, <2>9 DEF FilesInv, At
  <2> QED BY <2>4, <2>10
<1> QED BY <1>3, <1>4 DEF TurnsSound

(* A put of the conversation.                                              *)
LEMMA ChatPut ==
  ASSUME TurnsSound, NEW r \in Handlers, NEW j, j = job[r], j.step \in {"close", "savechat", "popchat"},
         NEW n \in Jobs, PutChat(r, j.chat, n), UNCHANGED <<proj, blobs, count, begun, asked, gone>>,
         JobOK(n)', Freshly(n)'
  PROVE  /\ TurnInv' /\ Does(r, n, FALSE, TRUE) /\ chat' = j.chat
         /\ job'[r] = n /\ \A x \in Handlers \ {r} : Dims(job[x], job'[x], FALSE, TRUE)
         /\ ~Lost' => /\ CardsInv /\ FilesInv /\ j.chatFresh /\ ~Lost
                      /\ \A x \in Handlers \ {r} : job[x].step # "savechat"
<1>1. /\ chat' = j.chat /\ job' = Others(r, n, FALSE, TRUE) /\ torn' = (torn \/ ~j.chatFresh)
  BY DEF PutChat
<1>2. TurnInv /\ j.chatFresh \in BOOLEAN /\ JobOK(j) /\ torn \in BOOLEAN
  BY DEF TurnsSound, TurnInv, Jobs
<1>3. Effects(FALSE, TRUE)
  BY <1>1, <1>2, Numbers DEF Effects
<1>4. Does(r, n, FALSE, TRUE)
  BY <1>1, <1>3 DEF Does
<1>5. (proj # Nothing => IsProject(proj))' /\ IsChat(chat)' /\ torn' \in BOOLEAN
  BY <1>1, <1>2 DEF TurnInv, IsProject, IsChat, JobOK
<1>6. TurnInv'
  <2>1. /\ asked' \in 0..MaxAsked /\ begun' \in 0..MaxHandled /\ blobs' \subseteq Documents
        /\ count' \in [PracticeIds -> 0..MaxCount] /\ gone' \subseteq 1..asked'
    BY <1>2 DEF TurnInv
  <2> QED BY <1>2, <1>4, <1>5, <2>1, TurnMoves
<1>7. /\ job'[r] = n /\ \A x \in Handlers \ {r} : Dims(job[x], job'[x], FALSE, TRUE)
  BY <1>1, <1>2, OthersDim DEF TurnInv
<1>8. Honest(r, n, FALSE, TRUE)
  BY <1>1, <1>2 DEF Honest, Doomed, At
<1>9. Lost => Lost'
  BY <1>2, <1>4, <1>8, LostStays
<1>10. ASSUME ~Lost' PROVE j.chatFresh
  BY <1>1, <1>2, <1>10 DEF Lost
<1>11. ASSUME ~Lost', NEW x \in Handlers \ {r} PROVE job[x].step # "savechat"
  BY <1>7, <1>11 DEF Lost, Doomed, Dims
<1> QED BY <1>1, <1>4, <1>6, <1>7, <1>9, <1>10, <1>11 DEF TurnsSound

LEMMA CloseCardKeeps ==
  ASSUME TurnsSound, NEW r \in Handlers, CloseCard(r)
  PROVE  TurnsSound'
<1>1. PICK j : j = job[r]
  OBVIOUS
<1>2. PICK n : n = [IdleJob EXCEPT !.step = "advance"]
  OBVIOUS
<1>3. j.step = "close" /\ PutChat(r, j.chat, n) /\ UNCHANGED <<proj, blobs, count, begun, asked, gone>>
  BY <1>1, <1>2 DEF CloseCard, At
<1>4. n \in Jobs /\ n.step = "advance" /\ n.proj = Nothing /\ n.chat = NoChat /\ n.asks = {}
  BY <1>2, IdleJobIs DEF Jobs, Steps
<1>5. JobOK(n)'
  BY <1>3, <1>4, NoChatIsOk DEF JobOK, IsChat, HoldsProject, Chatting, Popper, Filing
<1>6. Freshly(n)'
  BY <1>4 DEF Freshly, HoldsProject, Chatting, Popper
<1>7. TurnInv /\ Freshly(j)
  BY <1>1 DEF TurnsSound, TurnInv
<1>8. /\ TurnInv' /\ Does(r, n, FALSE, TRUE) /\ chat' = j.chat
      /\ ~Lost' => CardsInv /\ FilesInv /\ j.chatFresh
  BY <1>1, <1>3, <1>4, <1>5, <1>6, ChatPut
<1>9. ASSUME ~Lost' PROVE CardsInv' /\ FilesInv'
  <2>1. CardsInv /\ FilesInv /\ chat'.log = chat.log
    BY <1>3, <1>7, <1>8, <1>9 DEF Freshly
  <2>2. Pending(job[r]) = {} /\ job[r].step \notin Filing
    BY <1>1, <1>3 DEF Pending, Chatting, Filing
  <2>3. n.step \notin Chatting /\ n.step \notin Filing /\ n.step \notin {"popproject", "savechat"}
    BY <1>4 DEF Chatting, Filing
  <2>4. CardsInv'
    BY <1>1, <1>3, <1>7, <1>8, <2>1, <2>2, <2>3, CardsRest
  <2>5. FilesInv'
    BY <1>3, <1>7, <1>8, <2>1, <2>2, <2>3, FilesRest
  <2> QED BY <2>4, <2>5
<1> QED BY <1>8, <1>9 DEF TurnsSound

LEMMA SaveConversationKeeps ==
  ASSUME TurnsSound, NEW r \in Handlers, SaveConversation(r)
  PROVE  TurnsSound'
<1>1. PICK j : j = job[r]
  OBVIOUS
<1>2. PICK n : n = IdleJob
  OBVIOUS
<1>3. j.step = "savechat" /\ PutChat(r, j.chat, n) /\ UNCHANGED <<proj, blobs, count, begun, asked, gone>>
  BY <1>1, <1>2 DEF SaveConversation, At
<1>4. n \in Jobs /\ n.step = "none"
  BY <1>2, IdleJobIs
<1>5. JobOK(n)'
  BY <1>2, <1>3, <1>4, IdleJobIs, NoChatIsOk DEF JobOK, IsChat, HoldsProject, Chatting, Popper, Filing
<1>6. Freshly(n)'
  BY <1>4 DEF Freshly, HoldsProject, Chatting, Popper
<1>7. TurnInv /\ Freshly(j)
  BY <1>1 DEF TurnsSound, TurnInv
<1>8. /\ TurnInv' /\ Does(r, n, FALSE, TRUE) /\ chat' = j.chat
      /\ job'[r] = n /\ \A x \in Handlers \ {r} : Dims(job[x], job'[x], FALSE, TRUE)
      /\ ~Lost' => /\ CardsInv /\ FilesInv /\ j.chatFresh
                   /\ \A x \in Handlers \ {r} : job[x].step # "savechat"
  BY <1>1, <1>3, <1>4, <1>5, <1>6, ChatPut
<1>9. ASSUME ~Lost' PROVE CardsInv' /\ FilesInv'
  <2>1. /\ CardsInv /\ FilesInv /\ j.chatFresh
        /\ \A x \in Handlers \ {r} : job[x].step # "savechat"
    BY <1>8, <1>9
  <2>2. PICK y \in {PlainText} \cup Cards : j.chat.log = Append(Append(chat.log, FromUser), y)
    BY <1>3, <1>7, <2>1 DEF Freshly
  <2>3. job[r].step \notin Filing /\ n.step \notin Filing
    BY <1>1, <1>3, <1>4 DEF Filing
  <2>4. FilesInv'
    BY <1>3, <1>7, <1>8, <2>1, <2>3, FilesRest
  <2>5. ToSet(chat.log) \subseteq ToSet(j.chat.log)
    <3>1. chat.log \in Seq({FromUser, PlainText} \cup Cards)
      BY <1>7 DEF TurnInv, IsChat, Chats
    <3>2. PICK l : l = Append(chat.log, FromUser)
      OBVIOUS
    <3>3. l \in Seq({FromUser, PlainText} \cup Cards) /\ ToSet(l) = ToSet(chat.log) \cup {FromUser}
      BY <3>1, <3>2, LineAdded
    <3>4. y \in {FromUser, PlainText} \cup Cards
      OBVIOUS
    <3>5. ToSet(Append(l, y)) = ToSet(l) \cup {y}
      BY <3>3, <3>4, LineAdded
    <3> QED BY <2>2, <3>2, <3>3, <3>5
  <2>6. ~Popping /\ InOrder(j.chat.log) /\ Ahead(j.chat.log, proj.queue)
    BY <1>1, <1>3, <2>1 DEF CardsInv, At
  <2>7. ~Popping'
    BY <1>4, <1>8, <2>6 DEF Popping, At, Dims
  <2>8. Waiting = proj.queue /\ Waiting' = proj.queue
    BY <1>3, <2>6, <2>7 DEF Waiting
  <2>9. InOrder(chat.log)' /\ InOrder(Waiting)' /\ Ahead(chat.log, Waiting)'
    <3>1. InOrder(chat'.log) /\ InOrder(Waiting') /\ Ahead(chat'.log, Waiting')
      BY <1>8, <2>1, <2>6, <2>8 DEF CardsInv
    <3> QED BY <3>1 DEF InOrder, Ahead
  <2>10. ASSUME NEW d \in 1..asked'
         PROVE  d \in ToSet(chat'.log) \cup ToSet(Waiting') \cup gone' \/ \E x \in Handlers : d \in Pending(job'[x])
    <3>1. d \in ToSet(chat.log) \cup ToSet(Waiting) \cup gone \/ \E x \in Handlers : d \in Pending(job[x])
      BY <1>3, <2>1 DEF CardsInv
    <3>2. \A x \in Handlers \ {r} : Pending(job[x]) = Pending(job'[x])
      BY <1>8 DEF Dims, Pending
    <3>3. Pending(job[r]) = ToSet(chat'.log)
      BY <1>1, <1>3, <1>8 DEF Pending, Chatting
    <3> QED BY <1>3, <1>8, <2>5, <2>8, <3>1, <3>2, <3>3
  <2>11. ASSUME NEW x \in Handlers PROVE ~At(x, "savechat")'
    BY <1>4, <1>8, <2>1 DEF At, Dims
  <2>12. ASSUME NEW x \in Handlers, job'[x].step \in Chatting, job'[x].projFresh
         PROVE  Ahead(chat'.log, job'[x].proj.queue)
    <3>1. x # r
      BY <1>4, <1>8, <2>12 DEF Chatting
    <3>2. job[x].step \in Chatting /\ job[x].projFresh /\ job'[x].proj = job[x].proj
      BY <1>8, <2>12, <3>1 DEF Dims
    <3>3. Ahead(j.chat.log, job[x].proj.queue)
      BY <1>1, <1>3, <2>1, <3>2 DEF CardsInv, At
    <3> QED BY <1>8, <3>2, <3>3
  <2>13. CardsInv'
    BY <2>9, <2>10, <2>11, <2>12 DEF CardsInv
  <2> QED BY <2>4, <2>13
<1> QED BY <1>8, <1>9 DEF TurnsSound

LEMMA SavePoppedChatKeeps ==
  ASSUME TurnsSound, NEW r \in Handlers, SavePoppedChat(r)
  PROVE  TurnsSound'
<1>1. PICK j : j = job[r]
  OBVIOUS
<1>2. PICK n : n = [j EXCEPT !.step = "popproject"]
  OBVIOUS
<1>3. j.step = "popchat" /\ PutChat(r, j.chat, n) /\ UNCHANGED <<proj, blobs, count, begun, asked, gone>>
  BY <1>1, <1>2 DEF SavePoppedChat, At
<1>4. /\ TurnInv /\ JobOK(j) /\ Freshly(j) /\ j \in Jobs /\ IsProject(j.proj) /\ j.proj # Nothing /\ IsChat(j.chat)
      /\ j.card \in 1..asked
  BY <1>1, <1>3 DEF TurnsSound, TurnInv, JobOK, HoldsProject, Popper
<1>5. /\ n \in Jobs /\ n.step = "popproject" /\ n.proj = j.proj /\ n.chat = j.chat /\ n.asks = j.asks
      /\ n.card = j.card /\ n.projFresh = j.projFresh
  BY <1>2, <1>4 DEF Jobs, Steps, HoldsProject, Popper
<1>6. JobOK(n)'
  BY <1>3, <1>4, <1>5 DEF JobOK, IsChat, IsProject, HoldsProject, Chatting, Popper, Filing
<1>7. Freshly(n)'
  BY <1>3, <1>4, <1>5 DEF Freshly, HoldsProject, Chatting, Popper
<1>8. /\ TurnInv' /\ Does(r, n, FALSE, TRUE) /\ chat' = j.chat
      /\ job'[r] = n /\ \A x \in Handlers \ {r} : Dims(job[x], job'[x], FALSE, TRUE)
      /\ ~Lost' => /\ CardsInv /\ FilesInv /\ j.chatFresh
                   /\ \A x \in Handlers \ {r} : job[x].step # "savechat"
  BY <1>1, <1>3, <1>5, <1>6, <1>7, ChatPut
<1>9. ASSUME ~Lost' PROVE CardsInv' /\ FilesInv'
  <2>1. /\ CardsInv /\ FilesInv /\ j.chatFresh
        /\ \A x \in Handlers \ {r} : job[x].step # "savechat"
    BY <1>8, <1>9
  <2>2. j.projFresh
    BY <1>5, <1>8, <1>9 DEF Lost, Doomed
  <2>3. /\ proj # Nothing /\ proj.queue # << >> /\ j.card = Head(proj.queue)
        /\ j.chat.log = Append(Append(chat.log, FromUser), j.card)
    BY <1>3, <1>4, <2>1, <2>2 DEF Freshly, HoldsProject, Popper
  <2>4. job[r].step \notin Filing /\ n.step \notin Filing
    BY <1>1, <1>3, <1>5 DEF Filing
  <2>5. FilesInv'
    BY <1>3, <1>4, <1>8, <2>1, <2>4, FilesRest
  <2>6. \A x \in Handlers \ {r} : job'[x].step # "popproject"
    BY <1>5, <1>8, <1>9 DEF Lost, Crowded
  <2>7. ~Popping
    BY <1>1, <1>3, <1>8, <2>6 DEF Popping, At, Dims
  <2>8. Popping'
    BY <1>5, <1>8 DEF Popping, At
  <2>9. Waiting = proj.queue /\ Waiting' = Tail(proj.queue)
    BY <1>3, <2>7, <2>8 DEF Waiting
  <2>10. /\ chat.log \in Seq({FromUser, PlainText} \cup Cards) /\ proj.queue \in Seq(Cards)
         /\ InOrder(chat.log) /\ InOrder(proj.queue) /\ Ahead(chat.log, proj.queue)
    BY <1>4, <2>1, <2>3, <2>9 DEF TurnInv, IsChat, Chats, IsProject, Projects, CardsInv
  <2>11. PICK l : l = Append(chat.log, FromUser)
    OBVIOUS
  <2>12. /\ InOrder(l) /\ l \in Seq({FromUser, PlainText} \cup Cards) /\ ToSet(l) = ToSet(chat.log) \cup {FromUser}
         /\ Ahead(l, proj.queue)
    BY <2>10, <2>11, LineComesLast
  <2>13. /\ InOrder(Append(l, Head(proj.queue))) /\ Ahead(Append(l, Head(proj.queue)), Tail(proj.queue))
         /\ InOrder(Tail(proj.queue))
    BY <2>3, <2>10, <2>12, CardComesLast
  <2>14. chat'.log = Append(l, Head(proj.queue))
    BY <1>8, <2>3, <2>11
  <2>15. /\ ToSet(proj.queue) = {Head(proj.queue)} \cup ToSet(Tail(proj.queue))
         /\ ToSet(chat'.log) = ToSet(l) \cup {Head(proj.queue)}
    <3>1. Head(proj.queue) \in Cards /\ ToSet(proj.queue) = {Head(proj.queue)} \cup ToSet(Tail(proj.queue))
      BY <2>3, <2>10, HeadAndTail
    <3>2. PICK h : h = Head(proj.queue)
      OBVIOUS
    <3>3. h \in {FromUser, PlainText} \cup Cards
      BY <3>1, <3>2
    <3>4. ToSet(Append(l, h)) = ToSet(l) \cup {h}
      BY <2>12, <3>3, LineAdded
    <3> QED BY <2>14, <3>1, <3>2, <3>4
  <2>16. InOrder(chat.log)' /\ InOrder(Waiting)' /\ Ahead(chat.log, Waiting)'
    <3>1. InOrder(chat'.log) /\ InOrder(Waiting') /\ Ahead(chat'.log, Waiting')
      BY <2>9, <2>13, <2>14
    <3> QED BY <3>1 DEF InOrder, Ahead
  <2>17. ASSUME NEW d \in 1..asked'
         PROVE  d \in ToSet(chat'.log) \cup ToSet(Waiting') \cup gone' \/ \E x \in Handlers : d \in Pending(job'[x])
    <3>1. d \in ToSet(chat.log) \cup ToSet(Waiting) \cup gone \/ \E x \in Handlers : d \in Pending(job[x])
      BY <1>3, <2>1 DEF CardsInv
    <3>2. \A x \in Handlers \ {r} : Pending(job[x]) = Pending(job'[x])
      BY <1>8 DEF Dims, Pending
    <3>3. Pending(job[r]) = {}
      BY <1>1, <1>3 DEF Pending, Chatting
    <3> QED BY <1>3, <2>9, <2>12, <2>15, <3>1, <3>2, <3>3
  <2>18. ASSUME NEW x \in Handlers PROVE ~At(x, "savechat")'
    BY <1>5, <1>8, <2>1 DEF At, Dims
  <2>19. CardsInv'
    BY <2>8, <2>16, <2>17, <2>18 DEF CardsInv
  <2> QED BY <2>5, <2>19
<1> QED BY <1>8, <1>9 DEF TurnsSound

(* The steps of an upload or a removal before its put.                     *)
LEMMA FilingGoes ==
  ASSUME TurnsSound, NEW r \in Handlers, NEW n, Goes(r, n), JobOK(n)', Freshly(n)',
         asked' = asked, gone' = gone, job[r].step \in {"none", "document", "removed"},
         n.step \in Filing, n.step = "listed" => n.projFresh,
         CardsInv /\ FilesInv => FilesInv'
  PROVE  TurnsSound'
<1>1. TurnInv /\ TurnInv' /\ Does(r, n, FALSE, FALSE)
  BY GoesOn DEF TurnsSound
<1>2. Honest(r, n, FALSE, FALSE)
  BY DEF Honest, Doomed, At
<1>3. Lost => Lost'
  BY <1>1, <1>2, LostStays
<1>4. ASSUME ~Lost' PROVE CardsInv' /\ FilesInv'
  <2>1. CardsInv /\ FilesInv
    BY <1>3, <1>4 DEF TurnsSound
  <2>2. chat'.log = chat.log /\ proj'.queue = proj.queue
    BY DEF Goes
  <2>3. /\ job[r].step \notin {"popproject", "savechat"} /\ n.step \notin {"popproject", "savechat"}
        /\ n.step \notin Chatting /\ Pending(job[r]) = {}
    BY DEF Filing, Chatting, Pending
  <2>4. CardsInv'
    BY <1>1, <2>1, <2>2, <2>3, CardsRest
  <2> QED BY <2>1, <2>4
<1> QED BY <1>1, <1>4 DEF TurnsSound

LEMMA UploadDocumentKeeps ==
  ASSUME TurnsSound, NEW r \in Handlers, UploadDocument(r)
  PROVE  TurnsSound'
<1>1. PICK d \in Unused :
         /\ Take(r, [IdleJob EXCEPT !.step = "document", !.doc = d])
         /\ blobs' = blobs \cup {d} /\ UNCHANGED <<proj, chat, count, asked, gone, torn>>
  BY DEF UploadDocument
<1>2. PICK n : n = [IdleJob EXCEPT !.step = "document", !.doc = d]
  OBVIOUS
<1>3. /\ Goto(r, n) /\ job[r].step = "none" /\ begun < MaxHandled /\ begun' = begun + 1
      /\ blobs' = blobs \cup {d} /\ UNCHANGED <<proj, chat, count, asked, gone, torn>>
  BY <1>1, <1>2 DEF Take, At
<1>4. TurnInv
  BY DEF TurnsSound
<1>5. d \in Documents /\ d \notin blobs /\ d \notin proj.docs /\ \A x \in Handlers : job[x].doc # d
  BY DEF Unused
<1>6. n \in Jobs /\ n.step = "document" /\ n.proj = Nothing /\ n.chat = NoChat /\ n.asks = {} /\ n.doc = d
  BY <1>2, <1>5, IdleJobIs DEF Jobs, Steps
<1>7. begun' \in 0..MaxHandled /\ blobs' \subseteq Documents
  BY <1>3, <1>4, <1>5, SizesAssumption DEF TurnInv
<1>8. Goes(r, n)
  BY <1>3, <1>4, <1>6, <1>7, Numbers DEF Goes, TurnInv
<1>9. JobOK(n)'
  BY <1>3, <1>5, <1>6, NoChatIsOk DEF JobOK, IsChat, HoldsProject, Chatting, Popper
<1>10. Freshly(n)'
  BY <1>6 DEF Freshly, HoldsProject, Chatting, Popper
<1>11. job'[r] = n /\ \A x \in Handlers \ {r} : job'[x] = job[x]
  BY <1>3, <1>4 DEF Goto, TurnInv
<1>12. ASSUME FilesInv PROVE FilesInv'
  <2>1. ASSUME NEW e \in Documents
        PROVE  (e \in blobs' <=> e \in proj'.docs) \/ \E x \in Handlers : job'[x].step \in Filing /\ job'[x].doc = e
    <3>1. CASE e = d
      BY <1>6, <1>11, <3>1 DEF Filing
    <3>2. CASE e # d
      <4>1. (e \in blobs <=> e \in proj.docs) \/ \E x \in Handlers : job[x].step \in Filing /\ job[x].doc = e
        BY <1>12 DEF FilesInv
      <4>2. job[r].step \notin Filing
        BY <1>3 DEF Filing
      <4> QED BY <1>3, <1>11, <3>2, <4>1, <4>2
    <3> QED BY <3>1, <3>2
  <2>2. ASSUME NEW x \in Handlers
        PROVE  /\ job'[x].step = "document" => job'[x].doc \in blobs' \ proj'.docs
               /\ job'[x].step = "removed" => job'[x].doc \notin blobs'
               /\ job'[x].step = "listed" => \/ job'[x].doc \in (blobs' \cap job'[x].proj.docs) \ proj'.docs
                                             \/ job'[x].doc \notin blobs' \cup job'[x].proj.docs
    BY <1>3, <1>5, <1>6, <1>11, <1>12 DEF FilesInv, At
  <2>3. ASSUME NEW x \in Handlers, NEW y \in Handlers, job'[x].step \in Filing, job'[y].step \in Filing,
               job'[x].doc = job'[y].doc, job'[x].doc \in blobs'
        PROVE  x = y
    BY <1>3, <1>5, <1>6, <1>11, <1>12, <2>3 DEF FilesInv
  <2> QED BY <2>1, <2>2, <2>3 DEF FilesInv, At
<1>13. n.step \in Filing /\ n.step # "listed"
  BY <1>6 DEF Filing
<1> QED BY <1>3, <1>8, <1>9, <1>10, <1>12, <1>13, FilingGoes

LEMMA DeleteDocumentKeeps ==
  ASSUME TurnsSound, NEW r \in Handlers, DeleteDocument(r)
  PROVE  TurnsSound'
<1>1. PICK d \in proj.docs :
         /\ Take(r, [IdleJob EXCEPT !.step = "removed", !.doc = d])
         /\ blobs' = blobs \ {d} /\ UNCHANGED <<proj, chat, count, asked, gone, torn>>
  BY DEF DeleteDocument
<1>2. PICK n : n = [IdleJob EXCEPT !.step = "removed", !.doc = d]
  OBVIOUS
<1>3. /\ Goto(r, n) /\ job[r].step = "none" /\ begun < MaxHandled /\ begun' = begun + 1 /\ proj # Nothing
      /\ blobs' = blobs \ {d} /\ UNCHANGED <<proj, chat, count, asked, gone, torn>>
  BY <1>1, <1>2 DEF Take, At, DeleteDocument
<1>4. TurnInv
  BY DEF TurnsSound
<1>5. d \in Documents /\ d \in proj.docs
  BY <1>3, <1>4 DEF TurnInv, IsProject, Projects
<1>6. n \in Jobs /\ n.step = "removed" /\ n.proj = Nothing /\ n.chat = NoChat /\ n.asks = {} /\ n.doc = d
  BY <1>2, <1>5, IdleJobIs DEF Jobs, Steps
<1>7. begun' \in 0..MaxHandled /\ blobs' \subseteq Documents
  BY <1>3, <1>4, <1>5, SizesAssumption DEF TurnInv
<1>8. Goes(r, n)
  BY <1>3, <1>4, <1>6, <1>7, Numbers DEF Goes, TurnInv
<1>9. JobOK(n)'
  BY <1>3, <1>5, <1>6, NoChatIsOk DEF JobOK, IsChat, HoldsProject, Chatting, Popper
<1>10. Freshly(n)'
  BY <1>6 DEF Freshly, HoldsProject, Chatting, Popper
<1>11. job'[r] = n /\ \A x \in Handlers \ {r} : job'[x] = job[x]
  BY <1>3, <1>4 DEF Goto, TurnInv
<1>12. ASSUME FilesInv PROVE FilesInv'
  <2>1. ASSUME NEW e \in Documents
        PROVE  (e \in blobs' <=> e \in proj'.docs) \/ \E x \in Handlers : job'[x].step \in Filing /\ job'[x].doc = e
    <3>1. CASE e = d
      BY <1>6, <1>11, <3>1 DEF Filing
    <3>2. CASE e # d
      <4>1. (e \in blobs <=> e \in proj.docs) \/ \E x \in Handlers : job[x].step \in Filing /\ job[x].doc = e
        BY <1>12 DEF FilesInv
      <4>2. job[r].step \notin Filing
        BY <1>3 DEF Filing
      <4> QED BY <1>3, <1>11, <3>2, <4>1, <4>2
    <3> QED BY <3>1, <3>2
  <2>2. ASSUME NEW x \in Handlers
        PROVE  /\ job'[x].step = "document" => job'[x].doc \in blobs' \ proj'.docs
               /\ job'[x].step = "removed" => job'[x].doc \notin blobs'
               /\ job'[x].step = "listed" => \/ job'[x].doc \in (blobs' \cap job'[x].proj.docs) \ proj'.docs
                                             \/ job'[x].doc \notin blobs' \cup job'[x].proj.docs
    BY <1>3, <1>5, <1>6, <1>11, <1>12 DEF FilesInv, At
  <2>3. ASSUME NEW x \in Handlers, NEW y \in Handlers, job'[x].step \in Filing, job'[y].step \in Filing,
               job'[x].doc = job'[y].doc, job'[x].doc \in blobs'
        PROVE  x = y
    BY <1>3, <1>5, <1>6, <1>11, <1>12, <2>3 DEF FilesInv
  <2> QED BY <2>1, <2>2, <2>3 DEF FilesInv, At
<1>13. n.step \in Filing /\ n.step # "listed"
  BY <1>6 DEF Filing
<1> QED BY <1>3, <1>8, <1>9, <1>10, <1>12, <1>13, FilingGoes

LEMMA ListingIs ==
  ASSUME NEW p, IsProject(p), NEW step, NEW d \in Documents
  PROVE  /\ IsProject(Listing(p, step, d)) /\ Listing(p, step, d) # Nothing
         /\ Listing(p, step, d).focus = p.focus /\ Listing(p, step, d).budget = p.budget
         /\ Listing(p, step, d).queue = p.queue
         /\ step = "document" => Listing(p, step, d).docs = p.docs \cup {d}
         /\ step # "document" => Listing(p, step, d).docs = p.docs \ {d}
<1>1. p \in Projects /\ p.docs \subseteq Documents
  BY DEF IsProject, Projects
<1>2. PICK e : e = IF step = "document" THEN p.docs \cup {d} ELSE p.docs \ {d}
  OBVIOUS
<1>3. PICK q : q = [p EXCEPT !.docs = e]
  OBVIOUS
<1>4. q = Listing(p, step, d)
  BY <1>2, <1>3 DEF Listing
<1>5. e \in SUBSET Documents
  BY <1>1, <1>2
<1>6. q \in Projects /\ q.docs = e /\ q.focus = p.focus /\ q.budget = p.budget /\ q.queue = p.queue
  BY <1>1, <1>3, <1>5 DEF Projects
<1> QED BY <1>2, <1>4, <1>6, NothingAssumption DEF IsProject

LEMMA LoadForDocumentKeeps ==
  ASSUME TurnsSound, NEW r \in Handlers, LoadForDocument(r)
  PROVE  TurnsSound'
<1>1. PICK j, q : j = job[r] /\ q = Listing(proj, j.step, j.doc)
  OBVIOUS
<1>2. PICK n : n = [j EXCEPT !.step = "listed", !.projFresh = TRUE, !.proj = q]
  OBVIOUS
<1>3. /\ Goto(r, n) /\ j.step \in {"document", "removed"} /\ proj # Nothing
      /\ UNCHANGED <<proj, chat, blobs, count, begun, asked, gone, torn>>
  BY <1>1, <1>2 DEF LoadForDocument
<1>4. /\ TurnInv /\ JobOK(j) /\ Freshly(j) /\ j \in Jobs /\ IsProject(proj) /\ j.doc \in Documents
      /\ j.step \in Filing /\ IsChat(j.chat)
  BY <1>1, <1>3 DEF TurnsSound, TurnInv, JobOK, Filing
<1>5. /\ IsProject(q) /\ q # Nothing /\ q.focus = proj.focus /\ q.budget = proj.budget /\ q.queue = proj.queue
      /\ q.docs = IF j.step = "document" THEN proj.docs \cup {j.doc} ELSE proj.docs \ {j.doc}
  <2>1. PICK p, s, d : p = proj /\ s = j.step /\ d = j.doc
    OBVIOUS
  <2>2. IsProject(p) /\ d \in Documents /\ q = Listing(p, s, d)
    BY <1>1, <1>4, <2>1
  <2>3. /\ IsProject(Listing(p, s, d)) /\ Listing(p, s, d) # Nothing
        /\ Listing(p, s, d).focus = p.focus /\ Listing(p, s, d).budget = p.budget
        /\ Listing(p, s, d).queue = p.queue
        /\ s = "document" => Listing(p, s, d).docs = p.docs \cup {d}
        /\ s # "document" => Listing(p, s, d).docs = p.docs \ {d}
    BY <2>2, ListingIs
  <2> QED BY <2>1, <2>2, <2>3
<1>6. /\ n \in Jobs /\ n.step = "listed" /\ n.proj = q /\ n.chat = j.chat /\ n.asks = j.asks /\ n.doc = j.doc
      /\ n.projFresh = TRUE
  <2>1. q \in Projects
    BY <1>5 DEF IsProject
  <2> QED BY <1>2, <1>4, <2>1 DEF Jobs, Steps, HoldsProject
<1>7. Goes(r, n)
  BY <1>3, <1>4, <1>6, Numbers DEF Goes, TurnInv
<1>8. JobOK(n)'
  BY <1>3, <1>4, <1>5, <1>6 DEF JobOK, IsChat, IsProject, HoldsProject, Chatting, Popper, Filing
<1>9. Freshly(n)'
  <2>1. q.docs \ {j.doc} = proj.docs \ {j.doc}
    BY <1>5
  <2> QED BY <1>3, <1>5, <1>6, <2>1 DEF Freshly, HoldsProject, Chatting, Popper
<1>10. job'[r] = n /\ \A x \in Handlers \ {r} : job'[x] = job[x]
  BY <1>3, <1>4 DEF Goto, TurnInv
<1>11. ASSUME FilesInv PROVE FilesInv'
  <2>1. ASSUME NEW x \in Handlers
        PROVE  job'[x].doc = job[x].doc /\ (job'[x].step \in Filing <=> job[x].step \in Filing)
    BY <1>1, <1>4, <1>6, <1>10 DEF Filing
  <2>2. ASSUME NEW e \in Documents
        PROVE  (e \in blobs' <=> e \in proj'.docs) \/ \E x \in Handlers : job'[x].step \in Filing /\ job'[x].doc = e
    BY <1>3, <1>11, <2>1 DEF FilesInv
  <2>3. ASSUME NEW x \in Handlers
        PROVE  /\ job'[x].step = "document" => job'[x].doc \in blobs' \ proj'.docs
               /\ job'[x].step = "removed" => job'[x].doc \notin blobs'
               /\ job'[x].step = "listed" => \/ job'[x].doc \in (blobs' \cap job'[x].proj.docs) \ proj'.docs
                                             \/ job'[x].doc \notin blobs' \cup job'[x].proj.docs
    <3>1. CASE x = r
      <4>1. /\ j.step = "document" => j.doc \in blobs \ proj.docs
            /\ j.step = "removed" => j.doc \notin blobs
        BY <1>1, <1>11 DEF FilesInv, At
      <4> QED BY <1>3, <1>5, <1>6, <1>10, <3>1, <4>1
    <3>2. CASE x # r
      BY <1>3, <1>10, <1>11, <3>2 DEF FilesInv, At
    <3> QED BY <3>1, <3>2
  <2>4. ASSUME NEW x \in Handlers, NEW y \in Handlers, job'[x].step \in Filing, job'[y].step \in Filing,
               job'[x].doc = job'[y].doc, job'[x].doc \in blobs'
        PROVE  x = y
    BY <1>3, <1>11, <2>1, <2>4 DEF FilesInv
  <2> QED BY <2>2, <2>3, <2>4 DEF FilesInv, At
<1>12. n.step \in Filing
  BY <1>6 DEF Filing
<1> QED BY <1>1, <1>3, <1>6, <1>7, <1>8, <1>9, <1>11, <1>12, FilingGoes

(* A deletion leaves no project, or one that is lost.                      *)
LEMMA DeleteKeyKeeps ==
  ASSUME TurnsSound, NEW r \in Handlers, DeleteKey(r)
  PROVE  TurnsSound'
<1>1. PICK j : j = job[r]
  OBVIOUS
<1>2. PICK k \in j.keys :
       /\ proj' = IF k = "project" THEN Nothing ELSE proj
       /\ chat' = IF k = "chat" THEN NoChat ELSE chat
       /\ blobs' = blobs \ {k}
       /\ job' = Others(r, IF j.keys = {k} THEN IdleJob ELSE [j EXCEPT !.keys = @ \ {k}],
                         k = "project", k = "chat")
  BY <1>1 DEF DeleteKey
<1>3. PICK n : n = IF j.keys = {k} THEN IdleJob ELSE [j EXCEPT !.keys = @ \ {k}]
  OBVIOUS
<1>4. PICK p \in BOOLEAN, c \in BOOLEAN : p = (k = "project") /\ c = (k = "chat")
  OBVIOUS
<1>5. job' = Others(r, n, p, c) /\ j.step = "delete" /\ UNCHANGED <<count, begun, asked, gone, torn>>
  BY <1>1, <1>2, <1>3, <1>4 DEF DeleteKey, At
<1>6. TurnInv /\ JobOK(j) /\ j \in Jobs /\ IsChat(j.chat)
  BY <1>1 DEF TurnsSound, TurnInv, JobOK
<1>7. Effects(p, c)
  BY <1>2, <1>4, <1>5, <1>6, Numbers DEF Effects
<1>8. "project" \in j.keys \/ proj = Nothing \/ torn
  BY <1>5, <1>6 DEF JobOK
<1>9. /\ n \in Jobs /\ n.step \in {"none", "delete"} /\ n.asks \subseteq 1..asked /\ IsChat(n.chat)
      /\ n.proj # Nothing => IsProject(n.proj)
      /\ n.step = "delete" => "project" \in n.keys \/ proj' = Nothing \/ torn
      /\ n.step = "none" => proj' = Nothing \/ torn
  <2>1. CASE j.keys = {k}
    BY <1>2, <1>3, <1>8, <2>1, IdleJobIs, NoChatIsOk
  <2>2. CASE j.keys # {k}
    <3>1. PICK s : s = j.keys \ {k}
      OBVIOUS
    <3>2. n = [j EXCEPT !.keys = s] /\ s \in SUBSET Keys
      BY <1>3, <1>6, <2>2, <3>1 DEF Jobs
    <3>3. n \in Jobs /\ n.step = "delete" /\ n.proj = j.proj /\ n.chat = j.chat /\ n.asks = j.asks /\ n.keys = s
      BY <1>5, <1>6, <3>2 DEF Jobs
    <3> QED BY <1>2, <1>6, <1>8, <3>1, <3>3 DEF JobOK
  <2> QED BY <2>1, <2>2
<1>10. JobOK(n)'
  BY <1>5, <1>9 DEF JobOK, IsChat, IsProject, HoldsProject, Chatting, Popper, Filing
<1>11. Freshly(n)'
  BY <1>9 DEF Freshly, HoldsProject, Chatting, Popper
<1>12. Does(r, n, p, c)
  BY <1>5, <1>7, <1>9 DEF Does
<1>13. (proj # Nothing => IsProject(proj))' /\ IsChat(chat)'
  BY <1>2, <1>5, <1>6, NoChatIsOk DEF TurnInv, IsProject, IsChat
<1>14. TurnInv'
  <2>1. /\ asked' \in 0..MaxAsked /\ begun' \in 0..MaxHandled /\ blobs' \subseteq Documents
        /\ count' \in [PracticeIds -> 0..MaxCount] /\ gone' \subseteq 1..asked' /\ torn' \in BOOLEAN
    BY <1>2, <1>5, <1>6 DEF TurnInv
  <2> QED BY <1>6, <1>10, <1>11, <1>12, <1>13, <2>1, TurnMoves
<1>15. job'[r] = n
  BY <1>5, <1>6, <1>9, OthersDim DEF TurnInv
<1>16. Lost'
  BY <1>5, <1>9, <1>15 DEF Lost, Doomed
<1> QED BY <1>14, <1>16 DEF TurnsSound

----------------------------------------------------------------------------
(* The invariant of the conversation.                                      *)

LEMMA TurnsStart ==
  ASSUME TurnsInit
  PROVE  TurnsSound
<1>1. PICK s \in Openings : proj = s.proj /\ chat = s.chat /\ asked = s.asked /\ blobs = s.proj.docs
  BY DEF TurnsInit
<1>2. /\ s.proj \in Projects /\ s.chat \in Chats /\ s.asked \in 0..MaxAsked
      /\ s.chat.open \subseteq ToSet(s.chat.log)
      /\ InOrder(s.chat.log) /\ InOrder(s.proj.queue) /\ Ahead(s.chat.log, s.proj.queue)
      /\ (ToSet(s.chat.log) \cap Cards) \cup ToSet(s.proj.queue) = 1..s.asked
  BY OpeningsAssumption
<1>3. /\ count = [p \in PracticeIds |-> 0] /\ job = [r \in Handlers |-> IdleJob]
      /\ begun = 0 /\ gone = {} /\ torn = FALSE
  BY DEF TurnsInit
<1>4. IsProject(proj) /\ IsChat(chat) /\ proj # Nothing
  BY <1>1, <1>2, NothingAssumption DEF IsProject, IsChat
<1>5. blobs \subseteq Documents /\ asked \in 0..MaxAsked /\ gone \subseteq 1..asked /\ torn \in BOOLEAN
  BY <1>1, <1>2, <1>3 DEF Projects
<1>6. 0 \in 0..MaxCount /\ 0 \in 0..MaxHandled
  BY SizesAssumption
<1>7. count \in [PracticeIds -> 0..MaxCount] /\ begun \in 0..MaxHandled
  BY <1>3, <1>6
<1>8. \A r \in Handlers : job[r] = IdleJob
  BY <1>3
<1>9. job \in [Handlers -> Jobs] /\ \A r \in Handlers : JobOK(job[r]) /\ Freshly(job[r])
  BY <1>3, IdleJobIs, IdleJobIsOk
<1>10. TurnInv
  BY <1>4, <1>5, <1>7, <1>9 DEF TurnInv
<1>11. ~Popping /\ Waiting = proj.queue
  BY <1>8, IdleJobIs DEF Popping, Waiting, At
<1>12. CardsInv
  <2>1. \A c \in 1..asked : c \in ToSet(chat.log) \cup ToSet(Waiting)
    BY <1>1, <1>2, <1>11
  <2>2. InOrder(chat.log) /\ InOrder(Waiting) /\ Ahead(chat.log, Waiting)
    BY <1>1, <1>2, <1>11
  <2>3. \A r \in Handlers : ~At(r, "savechat") /\ job[r].step \notin Chatting
    BY <1>8, IdleJobIs DEF At, Chatting
  <2> QED BY <2>1, <2>2, <2>3 DEF CardsInv
<1>13. FilesInv
  BY <1>1, <1>8, IdleJobIs DEF FilesInv, At, Filing
<1> QED BY <1>10, <1>12, <1>13 DEF TurnsSound

LEMMA TurnsKeep ==
  ASSUME TurnsSound, [TurnsNext]_turnVars
  PROVE  TurnsSound'
<1>1. CASE UNCHANGED turnVars
  <2>1. \A x : JobOK(x)' <=> JobOK(x)
    BY <1>1 DEF turnVars, JobOK, IsProject, IsChat
  <2>2. \A x : Freshly(x)' <=> Freshly(x)
    BY <1>1 DEF turnVars, Freshly
  <2>3. TurnInv'
    BY <1>1, <2>1, <2>2 DEF turnVars, TurnsSound, TurnInv, IsProject, IsChat
  <2>4. (Lost' <=> Lost) /\ (Popping' <=> Popping) /\ Waiting' = Waiting
    BY <1>1 DEF turnVars, Lost, Crowded, Popping, Waiting, At
  <2>5. CardsInv => CardsInv'
    BY <1>1, <2>4 DEF turnVars, CardsInv, At
  <2>6. FilesInv => FilesInv'
    BY <1>1 DEF turnVars, FilesInv, At
  <2> QED BY <2>3, <2>4, <2>5, <2>6 DEF TurnsSound
<1>2. ASSUME NEW r \in Handlers, Turn(r) PROVE TurnsSound'
  BY <1>2, SendKeeps, LoadProjectKeeps, SwitchFocusKeeps, SetQuestionBudgetKeeps, AskClarifyingQuestionKeeps,
     GenerateQuestionsKeeps, SaveDraftKeeps, SaveGeneratedKeeps, EndTurnKeeps, SaveConversationKeeps DEF Turn
<1>3. ASSUME NEW r \in Handlers, Answer(r) PROVE TurnsSound'
  BY <1>3, RespondKeeps, CloseCardKeeps, AdvanceOrForwardKeeps, ShowNextKeeps, SavePoppedChatKeeps,
     SavePoppedProjectKeeps DEF Answer
<1>4. ASSUME NEW r \in Handlers, Files(r) PROVE TurnsSound'
  BY <1>4, UpdatePhaseKeeps, SaveProjectKeeps, UploadDocumentKeeps, DeleteDocumentKeeps, LoadForDocumentKeeps,
     SaveListingKeeps, DeleteProjectKeeps, DeleteKeyKeeps DEF Files
<1> QED BY <1>1, <1>2, <1>3, <1>4, AbandonKeeps DEF TurnsNext

LEMMA TurnsAlways == TurnsSpec => []TurnsSound
BY TurnsStart, TurnsKeep, PTL DEF TurnsSpec

LEMMA RestFromSound ==
  ASSUME TurnsSound
  PROVE  RestIsWhole
<1>1. TurnsTypeOK
  BY DEF TurnsSound, TurnInv, TurnsTypeOK, JobOK
<1>2. ASSUME AtRest, ~torn, proj # Nothing
      PROVE  /\ InOrder(chat.log) /\ InOrder(proj.queue) /\ Ahead(chat.log, proj.queue)
             /\ 1..asked \subseteq ToSet(chat.log) \cup ToSet(proj.queue) \cup gone
             /\ proj.docs = blobs
  <2>1. \A r \in Handlers : job[r].step = "none"
    BY <1>2 DEF AtRest, At
  <2>2. ~Lost /\ ~Popping /\ Waiting = proj.queue
    BY <1>2, <2>1 DEF Lost, Crowded, Doomed, Popping, Waiting, At
  <2>3. CardsInv /\ FilesInv
    BY <2>2 DEF TurnsSound
  <2>4. \A r \in Handlers : Pending(job[r]) = {} /\ job[r].step \notin Filing
    BY <2>1 DEF Pending, Chatting, Filing
  <2>5. \A d \in Documents : d \in blobs <=> d \in proj.docs
    BY <2>3, <2>4 DEF FilesInv
  <2>6. blobs \subseteq Documents /\ proj.docs \subseteq Documents
    BY <1>2 DEF TurnsSound, TurnInv, IsProject, Projects
  <2>7. 1..asked \subseteq ToSet(chat.log) \cup ToSet(proj.queue) \cup gone
    BY <2>2, <2>3, <2>4 DEF CardsInv
  <2> QED BY <2>2, <2>3, <2>5, <2>6, <2>7 DEF CardsInv
<1> QED BY <1>1, <1>2 DEF RestIsWhole, WholeAtRest

\* When nobody is at work, each question asked was shown once, in the order
\* asked, or still waits, or was flushed; and the project lists exactly the
\* documents that are stored: however the requests of any number of handlers
\* interleaved, unless one of them overwrote another's put or died between
\* two of its own.
THEOREM RestHolds == TurnsSpec => []RestIsWhole
BY TurnsAlways, RestFromSound, PTL

----------------------------------------------------------------------------
(* What a step of one request may do.                                      *)

LEMMA LogGrows ==
  ASSUME NEW S, NEW s \in Seq(S), NEW x \in S, NEW y \in S
  PROVE  IsPrefix(s, s) /\ IsPrefix(s, Append(s, x)) /\ IsPrefix(s, Append(Append(s, x), y))
<1>1. PICK t : t = Append(s, x)
  OBVIOUS
<1>2. PICK u : u = Append(t, y)
  OBVIOUS
<1>3. t \in Seq(S) /\ Len(t) = Len(s) + 1 /\ \A i \in 1..Len(s) : t[i] = s[i]
  BY <1>1
<1>4. u \in Seq(S) /\ Len(u) = Len(t) + 1 /\ \A i \in 1..Len(t) : u[i] = t[i]
  BY <1>2, <1>3
<1>5. \A i \in 1..Len(s) : u[i] = s[i]
  BY <1>3, <1>4
<1>6. Len(s) \in Nat
  OBVIOUS
<1>7. ASSUME NEW v \in Seq(S), Len(s) <= Len(v), \A i \in 1..Len(s) : v[i] = s[i] PROVE IsPrefix(s, v)
  <2>1. SubSeq(s, 1, Len(s)) = SubSeq(v, 1, Len(s))
    BY <1>7
  <2> QED BY <1>7, <2>1 DEF IsPrefix
<1>8. IsPrefix(s, s)
  BY <1>6, <1>7
<1>9. IsPrefix(s, t)
  BY <1>3, <1>6, <1>7
<1>10. IsPrefix(s, u)
  BY <1>3, <1>4, <1>5, <1>6, <1>7
<1> QED BY <1>1, <1>2, <1>8, <1>9, <1>10

LEMMA AgedIsHeld ==
  ASSUME NEW j \in Jobs, NEW a \in BOOLEAN, NEW b \in BOOLEAN
  PROVE  Held(Aged(j, a, b)) = Held(j)
BY DEF Held, Aged, Jobs

(* A request that does not step does not act.                              *)
LEMMA Bystanders ==
  ASSUME TurnInv, NEW r \in Handlers, NEW n, NEW p \in BOOLEAN, NEW c \in BOOLEAN,
         job' = Others(r, n, p, c) \/ Goto(r, n), NEW x \in Handlers, x # r
  PROVE  ~Acts(x)
<1>1. PICK j \in Jobs : j = job[x]
  BY DEF TurnInv
<1>2. job'[x] = j \/ \E a \in BOOLEAN, b \in BOOLEAN : job'[x] = Aged(j, a, b)
  <2>1. CASE Goto(r, n)
    BY <1>1, <2>1 DEF Goto, TurnInv
  <2>2. CASE job' = Others(r, n, p, c)
    <3>1. PICK a \in BOOLEAN, b \in BOOLEAN : a = (j.projFresh /\ ~p) /\ b = (j.chatFresh /\ ~c)
      OBVIOUS
    <3>2. job'[x] = IF j.step = "none" THEN j
                    ELSE [j EXCEPT !.projFresh = @ /\ ~p, !.chatFresh = @ /\ ~c]
      BY <1>1, <2>2 DEF Others, At
    <3> QED BY <3>1, <3>2 DEF Aged
  <2> QED BY <2>1, <2>2
<1> QED BY <1>1, <1>2, AgedIsHeld DEF Acts

\* What the property says of one request.
Undoes(r) ==
  /\ (job[r].projFresh /\ proj' # proj) =>
       /\ proj # Nothing
       /\ \A f \in {"focus", "docs", "budget"} : proj'[f] # proj[f] => About(r)[f]
  /\ (job[r].chatFresh /\ chat' # chat) => IsPrefix(chat.log, chat'.log)

LEMMA ProjectPutTells ==
  ASSUME TurnInv, NEW r \in Handlers, NEW q, NEW n, PutProject(r, q, n), chat' = chat,
         job[r].step \in HoldsProject, q.docs = job[r].proj.docs,
         q.focus # job[r].proj.focus \/ q.budget # job[r].proj.budget => At(r, "agent"),
         NEW x \in Handlers, Acts(x)
  PROVE  Undoes(x)
<1>1. proj' = q /\ job' = Others(r, n, TRUE, FALSE)
  BY DEF PutProject
<1>2. x = r
  BY <1>1, Bystanders
<1>3. PICK j : j = job[r]
  OBVIOUS
<1>4. Freshly(j)
  BY <1>3 DEF TurnInv
<1>5. ASSUME j.projFresh
      PROVE  /\ proj # Nothing
             /\ q.focus # proj.focus => j.step \in FocusSteps
             /\ q.docs # proj.docs => j.step = "listed"
             /\ q.budget # proj.budget => j.step = "agent"
  BY <1>3, <1>4, <1>5 DEF Freshly, FocusSteps, At
<1>6. ASSUME j.projFresh, NEW f \in {"focus", "docs", "budget"}, q[f] # proj[f] PROVE About(r)[f]
  <2>1. CASE f = "focus"
    BY <1>3, <1>5, <1>6, <2>1 DEF About
  <2>2. CASE f = "docs"
    BY <1>3, <1>5, <1>6, <2>2 DEF About
  <2>3. CASE f = "budget"
    BY <1>3, <1>5, <1>6, <2>3 DEF About, At
  <2> QED BY <1>6, <2>1, <2>2, <2>3
<1> QED BY <1>1, <1>2, <1>3, <1>5, <1>6 DEF Undoes

LEMMA ChatPutTells ==
  ASSUME TurnInv, NEW r \in Handlers, NEW n, PutChat(r, job[r].chat, n), proj' = proj,
         job[r].step \in {"close", "savechat", "popchat"}, NEW x \in Handlers, Acts(x)
  PROVE  Undoes(x)
<1>1. chat' = job[r].chat /\ job' = Others(r, n, FALSE, TRUE)
  BY DEF PutChat
<1>2. x = r
  BY <1>1, Bystanders
<1>3. PICK j : j = job[r]
  OBVIOUS
<1>4. Freshly(j) /\ j.card \in Cards \cup {0} /\ chat.log \in Seq({FromUser, PlainText} \cup Cards)
  BY <1>3 DEF TurnInv, Jobs, IsChat, Chats
<1>5. \A y \in {FromUser, PlainText} \cup Cards :
        IsPrefix(chat.log, chat.log) /\ IsPrefix(chat.log, Append(Append(chat.log, FromUser), y))
  BY <1>4, LogGrows
<1>6. ASSUME j.chatFresh PROVE IsPrefix(chat.log, j.chat.log)
  <2>1. CASE j.step = "close"
    BY <1>4, <1>5, <1>6, <2>1 DEF Freshly
  <2>2. CASE j.step = "savechat"
    BY <1>4, <1>5, <1>6, <2>2 DEF Freshly
  <2>3. CASE j.step = "popchat"
    BY <1>4, <1>5, <1>6, <2>3 DEF Freshly, FromUser
  <2> QED BY <1>3, <2>1, <2>2, <2>3
<1> QED BY <1>1, <1>2, <1>3, <1>6 DEF Undoes

LEMMA TurnTells ==
  ASSUME TurnsSound, TurnsNext, NEW x \in Handlers, Acts(x), ~At(x, "delete")
  PROVE  Undoes(x)
<1>1. TurnInv /\ \A r \in Handlers : JobOK(job[r])
  BY DEF TurnsSound, TurnInv
<1>2. ASSUME UNCHANGED <<proj, chat>> PROVE Undoes(x)
  BY <1>2 DEF Undoes
<1>3. PICK r \in Handlers : Turn(r) \/ Answer(r) \/ Files(r) \/ Abandon(r)
  BY DEF TurnsNext
<1>4. PICK j : j = job[r]
  OBVIOUS
<1>5. /\ j.step \in Chatting => j.proj \in Projects /\ j.step \in HoldsProject
      /\ IsProject(j.proj) \/ j.proj = Nothing
  BY <1>1, <1>4 DEF JobOK, HoldsProject, IsProject
<1>6. CASE SwitchFocus(r)
  <2>1. PICK f \in Substates : LET p == [j.proj EXCEPT !.focus = f] IN PutProject(r, p, [j EXCEPT !.proj = p])
    BY <1>4, <1>6 DEF SwitchFocus
  <2>2. PICK q : q = [j.proj EXCEPT !.focus = f]
    OBVIOUS
  <2>3. PutProject(r, q, [j EXCEPT !.proj = q]) /\ j.step = "agent" /\ chat' = chat
    BY <1>4, <1>6, <2>1, <2>2 DEF SwitchFocus, Offered, At
  <2>4. q.docs = j.proj.docs /\ j.step \in HoldsProject
    BY <1>5, <2>2, <2>3 DEF Projects, Chatting
  <2> QED BY <1>1, <1>4, <2>3, <2>4, ProjectPutTells DEF At
<1>7. CASE SetQuestionBudget(r)
  <2>1. PICK b \in Budgets : LET p == [j.proj EXCEPT !.budget = b] IN PutProject(r, p, [j EXCEPT !.proj = p])
    BY <1>4, <1>7 DEF SetQuestionBudget
  <2>2. PICK q : q = [j.proj EXCEPT !.budget = b]
    OBVIOUS
  <2>3. PutProject(r, q, [j EXCEPT !.proj = q]) /\ j.step = "agent" /\ chat' = chat
    BY <1>4, <1>7, <2>1, <2>2 DEF SetQuestionBudget, Offered, At
  <2>4. q.docs = j.proj.docs /\ j.step \in HoldsProject
    BY <1>5, <2>2, <2>3 DEF Projects, Chatting
  <2> QED BY <1>1, <1>4, <2>3, <2>4, ProjectPutTells DEF At
<1>8. CASE EndTurn(r)
  <2>1. PICK q : q = Popped(j.proj)
    OBVIOUS
  <2>2. PICK n : n = [j EXCEPT !.step = "savechat", !.proj = q,
                        !.chat = IF j.proj.queue = << >> THEN Said(@) ELSE Shown(@, Head(j.proj.queue))]
    OBVIOUS
  <2>3. PutProject(r, q, n) /\ j.step = "agent" /\ chat' = chat
    BY <1>4, <1>8, <2>1, <2>2 DEF EndTurn, At
  <2>4. /\ q.docs = j.proj.docs /\ q.focus = j.proj.focus /\ q.budget = j.proj.budget
        /\ j.step \in HoldsProject
    BY <1>5, <2>1, <2>3 DEF Projects, Chatting, Popped
  <2> QED BY <1>1, <1>4, <2>3, <2>4, ProjectPutTells DEF At
<1>9. CASE SaveGenerated(r) \/ SaveProject(r) \/ SaveListing(r) \/ SavePoppedProject(r)
  <2>1. PICK n : PutProject(r, j.proj, n)
    BY <1>4, <1>9 DEF SaveGenerated, SaveProject, SaveListing, SavePoppedProject
  <2>2. j.step \in HoldsProject /\ chat' = chat
    BY <1>4, <1>9 DEF SaveGenerated, SaveProject, SaveListing, SavePoppedProject, At, HoldsProject, Chatting, Popper
  <2> QED BY <1>1, <1>4, <2>1, <2>2, ProjectPutTells
<1>10. CASE SaveConversation(r) \/ CloseCard(r) \/ SavePoppedChat(r)
  <2>1. PICK n : PutChat(r, job[r].chat, n)
    BY <1>10 DEF SaveConversation, CloseCard, SavePoppedChat
  <2>2. job[r].step \in {"close", "savechat", "popchat"} /\ proj' = proj
    BY <1>10 DEF SaveConversation, CloseCard, SavePoppedChat, At
  <2> QED BY <1>1, <2>1, <2>2, ChatPutTells
<1>11. CASE DeleteKey(r)
  <2>1. PICK k \in job[r].keys :
         job' = Others(r, IF job[r].keys = {k} THEN IdleJob ELSE [job[r] EXCEPT !.keys = @ \ {k}],
                       k = "project", k = "chat")
    BY <1>11 DEF DeleteKey
  <2>2. PICK n : job' = Others(r, n, k = "project", k = "chat")
    BY <2>1
  <2>3. PICK p \in BOOLEAN, c \in BOOLEAN : p = (k = "project") /\ c = (k = "chat")
    OBVIOUS
  <2>4. job' = Others(r, n, p, c)
    BY <2>2, <2>3
  <2>5. x # r
    BY <1>11 DEF DeleteKey
  <2> QED BY <1>1, <2>4, <2>5, Bystanders
<1>12. CASE \/ Send(r) \/ Forward(r) \/ LoadProject(r) \/ AskClarifyingQuestion(r) \/ GenerateQuestions(r)
            \/ SaveDraft(r) \/ Respond(r) \/ AdvanceOrForward(r) \/ ShowNext(r) \/ UpdatePhase(r)
            \/ UploadDocument(r) \/ DeleteDocument(r) \/ LoadForDocument(r) \/ DeleteProject(r) \/ Abandon(r)
  <2>1. UNCHANGED <<proj, chat>>
    BY <1>12 DEF Send, Forward, LoadProject, AskClarifyingQuestion, GenerateQuestions, SaveDraft, Respond,
       AdvanceOrForward, ShowNext, UpdatePhase, UploadDocument, DeleteDocument, LoadForDocument, DeleteProject,
       Abandon
  <2> QED BY <1>2, <2>1
<1> QED BY <1>3, <1>6, <1>7, <1>8, <1>9, <1>10, <1>11, <1>12 DEF Turn, Answer, Files

\* A request changes in project.json only what it is about, keeps every line
\* of the conversation, and brings no deleted project back, unless another
\* request has put the same object since it loaded its copy.
THEOREM NothingUndoneHolds == TurnsSpec => NothingUndoneUntilOverlap
<1>1. ASSUME TurnsSound, [TurnsNext]_turnVars
      PROVE  [\A r \in Handlers : (Acts(r) /\ ~At(r, "delete")) =>
                /\ (job[r].projFresh /\ proj' # proj) =>
                     /\ proj # Nothing
                     /\ \A f \in {"focus", "docs", "budget"} : proj'[f] # proj[f] => About(r)[f]
                /\ (job[r].chatFresh /\ chat' # chat) => IsPrefix(chat.log, chat'.log)]_turnVars
  <2>1. CASE TurnsNext
    <3>1. ASSUME NEW r \in Handlers, Acts(r) /\ ~At(r, "delete") PROVE Undoes(r)
      BY <1>1, <2>1, <3>1, TurnTells
    <3> QED BY <3>1 DEF Undoes
  <2> QED BY <1>1, <2>1
<1> QED BY <1>1, TurnsAlways, PTL DEF TurnsSpec, NothingUndoneUntilOverlap

LEMMA GenerationTells ==
  ASSUME TurnsSound, TurnsNext, NEW x \in Handlers, Acts(x), count' # count, job[x].projFresh,
         proj # Nothing, proj.budget # Nothing
  PROVE  Total(count') <= proj.budget.max
<1>1. TurnInv
  BY DEF TurnsSound
<1>2. PICK r \in Handlers : Turn(r) \/ Answer(r) \/ Files(r) \/ Abandon(r)
  BY DEF TurnsNext
<1>3. SaveDraft(r)
  <2>1. ~Answer(r)
    BY DEF Answer, Respond, CloseCard, AdvanceOrForward, ShowNext, SavePoppedChat, SavePoppedProject
  <2>2. ~Files(r)
    BY DEF Files, UpdatePhase, SaveProject, UploadDocument, DeleteDocument, LoadForDocument, SaveListing,
       DeleteProject, DeleteKey
  <2>3. ~Abandon(r)
    BY DEF Abandon
  <2>4. Turn(r) => SaveDraft(r)
    BY DEF Turn, Send, Forward, LoadProject, SwitchFocus, SetQuestionBudget, AskClarifyingQuestion,
       GenerateQuestions, SaveGenerated, EndTurn, SaveConversation
  <2> QED BY <1>2, <2>1, <2>2, <2>3, <2>4
<1>4. PICK n : Goto(r, n)
  BY <1>3 DEF SaveDraft
<1>5. x = r
  BY <1>1, <1>4, Bystanders
<1>6. PICK j : j = job[r]
  OBVIOUS
<1>7. j.step = "generate" /\ count' = j.count /\ j.projFresh
  BY <1>3, <1>5, <1>6 DEF SaveDraft, At
<1>8. j.proj.budget = proj.budget /\ (j.proj.budget # Nothing => Total(j.count) <= j.proj.budget.max)
  BY <1>1, <1>6, <1>7 DEF TurnInv, JobOK, Freshly, HoldsProject, Chatting
<1> QED BY <1>7, <1>8

\* No generation brings the number of questions past the committed maximum,
\* unless another request changed the project during the turn.
THEOREM BudgetHolds == TurnsSpec => BudgetBinds
<1>1. ASSUME TurnsSound, [TurnsNext]_turnVars
      PROVE  [\A r \in Handlers :
                (count' # count /\ Acts(r) /\ job[r].projFresh /\ proj # Nothing /\ proj.budget # Nothing)
                  => Total(count') <= proj.budget.max]_turnVars
  <2>1. CASE TurnsNext
    BY <2>1, <1>1, GenerationTells
  <2> QED BY <1>1, <2>1
<1> QED BY <1>1, TurnsAlways, PTL DEF TurnsSpec, BudgetBinds

=============================================================================
