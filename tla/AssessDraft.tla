---------------------------- MODULE AssessDraft ----------------------------
(***************************************************************************)
(* The live draft of an assessment and its published versions, as the     *)
(* tools of the authoring agent change them (amaker-author, tools.rs) over *)
(* the object store (amaker-core, storage.rs, draft.rs).                   *)
(*                                                                         *)
(* A writer is one chat turn of one process: it runs one tool at a time,   *)
(* and several turns run side by side.  The surgical tools load the draft  *)
(* with its ETag and save it back on the condition that nobody wrote in    *)
(* between; generate_structure, generate_questions, tailor_vocabulary and  *)
(* reset_draft_from_version save it whatever happened since they read.     *)
(* Publishing creates two objects, the content and then the metadata.      *)
(*                                                                         *)
(* A draft is three levels of ids and a wording for each of them; fields,  *)
(* ordering of questions and YAML are left out.  A writer's ETag is        *)
(* modelled by whether anybody has put the draft since it was read.        *)
(***************************************************************************)
EXTENDS Naturals, FiniteSets, SequencesExt

CONSTANTS Domains, Practices, Questions,  \* the ids that can be minted
          Wordings,      \* what the text of an entity can be
          Writers,       \* turns of the authoring agent
          Structures,    \* what the language model may answer as a structure
          Starts,        \* the drafts a behaviour may begin with, v1 or not published
          MaxVersion,    \* names are v1 .. v<MaxVersion>, and 0 for any other
          MaxCalls,      \* bound: calls of a tool in a behaviour
          None           \* no draft, no object, no argument

ASSUME TextAssumption == Wordings # {}
ASSUME BoundsAssumption == MaxVersion \in Nat /\ MaxCalls \in Nat

Entities == Domains \cup Practices \cup Questions
Names == 0..MaxVersion

\* Three levels of ids, in order but for the questions, and the wordings.
DraftTrees ==
  [doms : Seq(Domains), pracs : [Domains -> Seq(Practices)],
   qs   : [Practices -> SUBSET Questions],
   text : [Entities -> Wordings], vocab : Wordings]

ASSUME NoneAssumption == None \notin DraftTrees

VARIABLES draft,   \* draft.yaml, or None
          yaml,    \* versions/<name>.yaml
          meta,    \* versions/<name>.meta.json: 0, or its rank by published_at
          loc,     \* what each writer is doing, on which copy of the draft
          minted,  \* the ids handed out so far (they are never reused)
          calls,   \* how many tools have been called
          named,   \* history: the entities the last tool was asked to change
          chosen   \* history: somebody published under an explicit v<k>

draftVars == <<draft, yaml, meta, loc, minted, calls, named, chosen>>

----------------------------------------------------------------------------
(* The tree: models/assessment.rs.                                         *)

Empty == [doms  |-> <<>>, pracs |-> [d \in Domains |-> <<>>],
          qs    |-> [p \in Practices |-> {}],
          text  |-> [x \in Entities |-> CHOOSE v \in Wordings : TRUE],
          vocab |-> CHOOSE v \in Wordings : TRUE]

DomainsIn(t) == ToSet(t.doms)
PracticesIn(t) == UNION {ToSet(t.pracs[d]) : d \in DomainsIn(t)}
QuestionsIn(t) == UNION {t.qs[p] : p \in PracticesIn(t)}
EntitiesIn(t) == DomainsIn(t) \cup PracticesIn(t) \cup QuestionsIn(t)

DomainOf(t, p) == CHOOSE d \in DomainsIn(t) : p \in ToSet(t.pracs[d])

Reworded(t, x, v) == [t EXCEPT !.text[x] = v]

\* Mutant: an entity that is gone leaves an empty text behind.
Unset(t, gone) ==
  [t EXCEPT !.text = [x \in Entities |-> IF x \in gone THEN None ELSE t.text[x]]]

\* The text of an entity that is gone is forgotten with it.
Forgotten(t, gone) ==
  [t EXCEPT !.text = [x \in Entities |-> IF x \in gone THEN Empty.text[x] ELSE t.text[x]]]

\* position and remove: an id is taken out of a list where it is found.
Without(s, x) == RemoveAt(s, CHOOSE i \in 1..Len(s) : s[i] = x)

\* remove_question, remove_practice, remove_domain
RemoveQuestion(t, q) ==
  Forgotten([t EXCEPT !.qs = [p \in Practices |-> t.qs[p] \ {q}]], {q})
RemovePractice(t, p) ==
  Forgotten([t EXCEPT !.pracs[DomainOf(t, p)] = Without(@, p), !.qs[p] = {}], {p} \cup t.qs[p])
Below(t, d) == ToSet(t.pracs[d]) \cup UNION {t.qs[p] : p \in ToSet(t.pracs[d])}
RemoveDomain(t, d) ==
  Forgotten([t EXCEPT !.doms = Without(@, d), !.pracs[d] = <<>>,
                      !.qs = [p \in Practices |-> IF p \in ToSet(t.pracs[d]) THEN {} ELSE @[p]]],
            {d} \cup Below(t, d))

\* validate_permutation: the same ids, each once.
IsReorder(s, old) == Len(s) = Len(old) /\ ToSet(s) = ToSet(old)
Reorders(s) == {r \in [1..Len(s) -> ToSet(s)] : IsReorder(r, s)}

----------------------------------------------------------------------------
Idle == [kind |-> "idle", tree |-> None, fresh |-> FALSE, on |-> None]
Doing(kind, tree, on) == [kind |-> kind, tree |-> tree, fresh |-> TRUE, on |-> on]

DraftInit ==
  /\ draft \in Starts
  /\ minted = IF draft = None THEN {} ELSE EntitiesIn(draft)
  /\ \E v1 \in {None, draft} :
       /\ yaml = [n \in Names |-> IF n = 1 THEN v1 ELSE None]
       /\ meta = [n \in Names |-> IF n = 1 /\ v1 # None THEN 1 ELSE 0]
  /\ loc = [w \in Writers |-> Idle]
  /\ calls = 0 /\ named = {} /\ chosen = FALSE

Call(w, doing) ==
  /\ loc[w].kind = "idle" /\ calls < MaxCalls
  /\ calls' = calls + 1
  /\ loc' = [loc EXCEPT ![w] = doing]
  /\ UNCHANGED <<draft, yaml, meta, minted, named>>

\* A put of the draft: every other copy's ETag is out of date from here on.
Put(w, t, about) ==
  /\ draft' = t
  /\ loc' = [x \in Writers |-> IF x = w THEN Idle ELSE [loc[x] EXCEPT !.fresh = FALSE]]
  /\ named' = about
  /\ UNCHANGED <<yaml, meta, calls, chosen>>

\* The tool returns an error (the language model failed, an argument names
\* nothing, a disposition refuses) or the turn dies; nothing is written.
GiveUp(w) ==
  /\ loc[w].kind # "idle"
  /\ loc' = [loc EXCEPT ![w] = Idle]
  /\ UNCHANGED <<draft, yaml, meta, minted, calls, named, chosen>>

----------------------------------------------------------------------------
(* The surgical tools: draft::edit_yaml around one change of the tree.     *)

CallEdit(w) ==
  /\ draft # None
  /\ Call(w, Doing("edit", draft, None)) /\ UNCHANGED chosen

\* The conditional put.  A stale handle is a Conflict: the only way on is
\* GiveUp, there is no retry inside edit_yaml.
Matches(w) == loc[w].fresh
Save(w, t, about) == Matches(w) /\ Put(w, t, about)

Editing(w) == loc[w].kind = "edit"

AddQuestion(w) ==
  /\ Editing(w)
  /\ \E p \in PracticesIn(loc[w].tree), q \in Questions \ minted :
       /\ Save(w, [loc[w].tree EXCEPT !.qs[p] = @ \cup {q}], {q})
       /\ minted' = minted \cup {q}

EditQuestion(w) ==
  /\ Editing(w)
  /\ \E q \in QuestionsIn(loc[w].tree), v \in Wordings : Save(w, Reworded(loc[w].tree, q, v), {q})
  /\ UNCHANGED minted

DeleteQuestion(w) ==
  /\ Editing(w)
  /\ \E q \in QuestionsIn(loc[w].tree) : Save(w, RemoveQuestion(loc[w].tree, q), {q})
  /\ UNCHANGED minted

AddPractice(w) ==
  /\ Editing(w)
  /\ \E d \in DomainsIn(loc[w].tree), p \in Practices \ minted :
       /\ Save(w, [loc[w].tree EXCEPT !.pracs[d] = Append(@, p)], {p})
       /\ minted' = minted \cup {p}

EditPractice(w) ==
  /\ Editing(w)
  /\ \E p \in PracticesIn(loc[w].tree), v \in Wordings : Save(w, Reworded(loc[w].tree, p, v), {p})
  /\ UNCHANGED minted

\* Mutant: the questions are taken from the old practice and put nowhere.
QuestionsDropped(t, p, p2) == [t EXCEPT !.qs[p] = {}]

\* reparent_to: the questions go to the target before the practice goes.
QuestionsMoved(t, p, p2) == [t EXCEPT !.qs[p2] = @ \cup t.qs[p], !.qs[p] = {}]

DeletePractice(w) ==
  /\ Editing(w)
  /\ \E p \in PracticesIn(loc[w].tree) :
       LET t == loc[w].tree IN
       \/ Save(w, RemovePractice(t, p), {p} \cup t.qs[p])   \* no question, or cascade
       \/ /\ t.qs[p] # {}
          /\ \E p2 \in PracticesIn(t) \ {p} :
               Save(w, RemovePractice(QuestionsMoved(t, p, p2), p), {p})
  /\ UNCHANGED minted

\* Mutant: put in the new domain and left in the old one.
PracticeCopied(t, p, d, i) == [t EXCEPT !.pracs[d] = InsertAt(@, i, p)]

\* move_practice: taken out of its domain, put in at any position of another.
PracticeMoved(t, p, d, i) ==
  [t EXCEPT !.pracs = [t.pracs EXCEPT ![DomainOf(t, p)] = Without(@, p), ![d] = InsertAt(@, i, p)]]

MovePractice(w) ==
  /\ Editing(w)
  /\ \E p \in PracticesIn(loc[w].tree) :
       LET t == loc[w].tree IN
       \E d \in DomainsIn(t) \ {DomainOf(t, p)} : \E i \in 1..Len(t.pracs[d]) + 1 :
         Save(w, PracticeMoved(t, p, d, i), {})
  /\ UNCHANGED minted

ReorderPractices(w) ==
  /\ Editing(w)
  /\ \E d \in DomainsIn(loc[w].tree) : \E s \in Reorders(loc[w].tree.pracs[d]) :
       Save(w, [loc[w].tree EXCEPT !.pracs[d] = s], {})
  /\ UNCHANGED minted

AddDomain(w) ==
  /\ Editing(w)
  /\ \E d \in Domains \ minted :
       /\ Save(w, [loc[w].tree EXCEPT !.doms = Append(@, d)], {d})
       /\ minted' = minted \cup {d}

EditDomain(w) ==
  /\ Editing(w)
  /\ \E d \in DomainsIn(loc[w].tree), v \in Wordings : Save(w, Reworded(loc[w].tree, d, v), {d})
  /\ UNCHANGED minted

PracticesMoved(t, d, d2) ==
  [t EXCEPT !.pracs = [t.pracs EXCEPT ![d2] = @ \o t.pracs[d], ![d] = <<>>]]

DeleteDomain(w) ==
  /\ Editing(w)
  /\ \E d \in DomainsIn(loc[w].tree) :
       LET t == loc[w].tree IN
       \/ Save(w, RemoveDomain(t, d), {d} \cup Below(t, d))  \* no practice, or cascade
       \/ /\ t.pracs[d] # <<>>
          /\ \E d2 \in DomainsIn(t) \ {d} :
               Save(w, RemoveDomain(PracticesMoved(t, d, d2), d), {d})
  /\ UNCHANGED minted

ReorderDomains(w) ==
  /\ Editing(w)
  /\ \E s \in Reorders(loc[w].tree.doms) : Save(w, [loc[w].tree EXCEPT !.doms = s], {})
  /\ UNCHANGED minted

\* regenerate_question reads the question, asks the language model, and only
\* then starts the surgical edit that replaces the whole question.
CallRegenerate(w) ==
  /\ draft # None
  /\ \E q \in QuestionsIn(draft) : Call(w, Doing("regenerate", None, q))
  /\ UNCHANGED chosen

LoadRegenerated(w) ==
  /\ loc[w].kind = "regenerate" /\ draft # None
  /\ loc' = [loc EXCEPT ![w] = Doing("rewrite", draft, loc[w].on)]
  /\ UNCHANGED <<draft, yaml, meta, minted, calls, named, chosen>>

RewriteQuestion(w) ==
  /\ loc[w].kind = "rewrite" /\ loc[w].on \in QuestionsIn(loc[w].tree)
  /\ \E v \in Wordings : Save(w, Reworded(loc[w].tree, loc[w].on, v), {loc[w].on})
  /\ UNCHANGED minted

----------------------------------------------------------------------------
(* The tools that write the whole draft without a condition.               *)

\* Only before a first domain exists; checked before the language model is
\* asked, not when its answer is saved.
CallStructure(w) ==
  /\ draft # None => DomainsIn(draft) = {}
  /\ Call(w, Doing("structure", draft, None)) /\ UNCHANGED chosen

SaveStructure(w) ==
  /\ loc[w].kind = "structure"
  /\ \E t \in Structures :
       /\ EntitiesIn(t) \cap minted = {}
       /\ Put(w, t, {})
       /\ minted' = minted \cup EntitiesIn(t)

\* Only for a practice without questions; the draft read here is the draft
\* written back after the language model has answered.
CallQuestions(w) ==
  /\ draft # None
  /\ \E p \in PracticesIn(draft) : draft.qs[p] = {} /\ Call(w, Doing("questions", draft, p))
  /\ UNCHANGED chosen

SaveQuestions(w) ==
  /\ loc[w].kind = "questions"
  /\ \E new \in SUBSET (Questions \ minted) :
       /\ Put(w, [loc[w].tree EXCEPT !.qs[loc[w].on] = new], {})
       /\ minted' = minted \cup new

CallVocabulary(w) ==
  /\ draft # None
  /\ Call(w, Doing("vocabulary", draft, None)) /\ UNCHANGED chosen

SaveVocabulary(w) ==
  /\ loc[w].kind = "vocabulary"
  /\ \E v \in Wordings : Put(w, [loc[w].tree EXCEPT !.vocab = v], {})
  /\ UNCHANGED minted

CallReset(w) ==
  \E n \in Names :
    /\ yaml[n] # None
    /\ Call(w, Doing("reset", yaml[n], n)) /\ UNCHANGED chosen

SaveReset(w) ==
  /\ loc[w].kind = "reset"
  /\ Put(w, loc[w].tree, {}) /\ UNCHANGED minted

----------------------------------------------------------------------------
(* publish_assessment.                                                     *)

\* Mutants: a count that includes the draft, and a put that is not a create.
TwoAhead == Cardinality({n \in Names : meta[n] # 0}) + 2
AnyName(n) == TRUE

Listed == {n \in Names : meta[n] # 0}
DefaultName == Cardinality(Listed) + 1
Latest == CHOOSE n \in Listed : \A m \in Listed : meta[m] <= meta[n]

\* The name is the caller's or v<versions + 1>; then the draft is read.
CallPublish(w) ==
  /\ draft # None
  /\ \E n \in Names :
       /\ Call(w, Doing("publish", draft, n))
       /\ chosen' \in {chosen \/ n # 0} \cup (IF n = DefaultName THEN {chosen} ELSE {})

\* PutMode::Create: a name whose content exists is refused.
NameIsFree(n) == yaml[n] = None

CreateContent(w) ==
  /\ loc[w].kind = "publish" /\ NameIsFree(loc[w].on)
  /\ yaml' = [yaml EXCEPT ![loc[w].on] = loc[w].tree]
  /\ loc' = [loc EXCEPT ![w].kind = "meta"]
  /\ UNCHANGED <<draft, meta, minted, calls, named, chosen>>

CreateMeta(w) ==
  /\ loc[w].kind = "meta" /\ meta[loc[w].on] = 0
  /\ meta' = [meta EXCEPT ![loc[w].on] = Cardinality(Listed) + 1]
  /\ loc' = [loc EXCEPT ![w] = Idle]
  /\ UNCHANGED <<draft, yaml, minted, calls, named, chosen>>

----------------------------------------------------------------------------
Surgical(w) ==
  \/ AddQuestion(w) \/ EditQuestion(w) \/ DeleteQuestion(w) \/ RewriteQuestion(w)
  \/ AddPractice(w) \/ EditPractice(w) \/ DeletePractice(w)
  \/ MovePractice(w) \/ ReorderPractices(w)
  \/ AddDomain(w) \/ EditDomain(w) \/ DeleteDomain(w) \/ ReorderDomains(w)

Wholesale(w) == SaveStructure(w) \/ SaveQuestions(w) \/ SaveVocabulary(w) \/ SaveReset(w)

WriterStep(w) ==
  \/ CallEdit(w) \/ Surgical(w)
  \/ CallRegenerate(w) \/ LoadRegenerated(w)
  \/ CallStructure(w) \/ CallQuestions(w) \/ CallVocabulary(w) \/ CallReset(w)
  \/ Wholesale(w)
  \/ CallPublish(w) \/ CreateContent(w) \/ CreateMeta(w)
  \/ GiveUp(w)

DraftNext == \E w \in Writers : WriterStep(w)
DraftSpec == DraftInit /\ [][DraftNext]_draftVars
=============================================================================
