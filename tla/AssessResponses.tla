-------------------------- MODULE AssessResponses --------------------------
(***************************************************************************)
(* The respondent's answers (amaker-core responses.rs, the handlers of     *)
(* amaker-assess), beside the authors of AssessDraft: a response is one    *)
(* object, bound to the version that was the latest when it was made, and  *)
(* every request reads it, changes its copy and writes all of it back      *)
(* without a condition.  An answer's value is left out: a response holds   *)
(* the set of questions that are answered.                                 *)
(***************************************************************************)
EXTENDS AssessDraft

CONSTANTS Requests,      \* HTTP requests of the respondents' pages
          MaxRequests,   \* bound: requests in a behaviour
          MaxBegun       \* bound: calls of the authors' tools and requests together

ASSUME RequestsAssumption == MaxRequests \in Nat

VARIABLES resp,     \* responses/<primary>.yaml, or None
          req,      \* what each request is doing, on which copy of resp
          served,   \* how many requests have begun
          rebound   \* history: a fresh response was written over another one

respVars == <<resp, req, served, rebound>>
vars == <<draftVars, respVars>>

\* The version it is bound to, the questions it answers, whether it is final.
Responses == [version : Names, answers : SUBSET Questions, submitted : BOOLEAN]

ASSUME NoResponseAssumption == None \notin Responses

Fresh(n) == [version |-> n, answers |-> {}, submitted |-> FALSE]

NoRequest == [step |-> "none", op |-> "none", q |-> None, copy |-> None, current |-> FALSE]

Init ==
  /\ DraftInit
  /\ resp = None /\ req = [r \in Requests |-> NoRequest]
  /\ served = 0 /\ rebound = FALSE

\* A put of the response: the copies of the other requests are old now.
PutResponse(r, new, next) ==
  /\ resp' = new
  /\ req' = [x \in Requests |->
               IF x = r THEN next ELSE [req[x] EXCEPT !.current = FALSE]]

Fail(r) == req' = [req EXCEPT ![r] = NoRequest] /\ UNCHANGED resp

\* ensure_primary: use the response there is, or make one for the latest
\* version; without a version the request is refused.
Begin(r) ==
  /\ req[r].step = "none" /\ served < MaxRequests /\ calls + served < MaxBegun /\ served' = served + 1
  /\ resp # None \/ Listed # {}
  /\ \E c \in ({"answer", "clear"} \X (minted \cap Questions)) \cup {<<"submit", None>>} :
       req' = [req EXCEPT ![r] =
         [step |-> IF resp = None THEN "create" ELSE "check", op |-> c[1], q |-> c[2],
          copy |-> IF resp = None THEN Fresh(Latest) ELSE resp, current |-> TRUE]]
  /\ UNCHANGED <<resp, rebound>>

CreateResponse(r) ==
  /\ req[r].step = "create"
  /\ PutResponse(r, req[r].copy, [req[r] EXCEPT !.step = "check", !.current = TRUE])
  /\ rebound' = (rebound \/ resp # None)
  /\ UNCHANGED served

\* validate_against: every answered question is one of the bound version.
Valid(copy) == copy.answers \subseteq QuestionsIn(yaml[copy.version])

\* load_response_and_assessment, and the handler's own look for the question.
Accepted(r) ==
  /\ Valid(req[r].copy)
  /\ req[r].op = "answer" => req[r].q \in QuestionsIn(yaml[req[r].copy.version])

Check(r) ==
  /\ req[r].step = "check"
  /\ IF Accepted(r)
     THEN req' = [req EXCEPT ![r].step = IF req[r].op = "submit" THEN "save" ELSE "load"]
     ELSE req' = [req EXCEPT ![r] = NoRequest]
  /\ UNCHANGED <<resp, served, rebound>>

\* upsert_answer and clear_answer read the response again; submit does not.
Reload(r) ==
  /\ req[r].step = "load"
  /\ req' = [req EXCEPT ![r] = [@ EXCEPT !.step = "save", !.copy = resp, !.current = TRUE]]
  /\ UNCHANGED <<resp, served, rebound>>


\* Mutant: a submission or an answer that starts from an empty sheet.
StartedOver(r) ==
  CASE req[r].op = "answer" -> [req[r].copy EXCEPT !.answers = {req[r].q}]
    [] req[r].op = "clear"  -> [req[r].copy EXCEPT !.answers = {}]
    [] OTHER                -> [req[r].copy EXCEPT !.submitted = TRUE]

Changed(r) ==
  CASE req[r].op = "answer" -> [req[r].copy EXCEPT !.answers = @ \cup {req[r].q}]
    [] req[r].op = "clear"  -> [req[r].copy EXCEPT !.answers = @ \ {req[r].q}]
    [] OTHER                -> [req[r].copy EXCEPT !.submitted = TRUE]

SaveResponse(r) ==
  /\ req[r].step = "save"
  /\ IF req[r].op = "submit" /\ req[r].copy.submitted
     THEN Fail(r)                           \* submitted before: nothing to write
     ELSE PutResponse(r, Changed(r), NoRequest)
  /\ UNCHANGED <<served, rebound>>

\* A request that dies is one that takes no further step.
RequestStep(r) ==
  \/ Begin(r) \/ CreateResponse(r) \/ Check(r) \/ Reload(r) \/ SaveResponse(r)

Next ==
  \/ DraftNext /\ calls' + served <= MaxBegun /\ UNCHANGED respVars
  \/ \E r \in Requests : RequestStep(r) /\ UNCHANGED draftVars

Spec == Init /\ [][Next]_vars

----------------------------------------------------------------------------
(* Properties.                                                             *)

\* Every object is of its type, and a writer's or a request's copy of an
\* object is of the type of the object it was read from.
TypeOK ==
  /\ draft = None \/ draft \in DraftTrees
  /\ \A n \in Names : yaml[n] = None \/ yaml[n] \in DraftTrees
  /\ meta \in [Names -> 0..MaxVersion + 1]
  /\ \A w \in Writers : loc[w].tree = None \/ loc[w].tree \in DraftTrees
  /\ minted \subseteq Entities /\ calls \in 0..MaxCalls
  /\ named \subseteq Entities /\ chosen \in BOOLEAN /\ rebound \in BOOLEAN
  /\ resp = None \/ resp \in Responses
  /\ served \in 0..MaxRequests

\* A draft is a tree when nothing is listed twice, a practice has one domain
\* and a question one practice, and nothing hangs below what is not there.
IsATree(t) ==
  /\ IsInjective(t.doms) /\ \A d \in Domains : IsInjective(t.pracs[d])
  /\ \A d \in Domains : t.pracs[d] # <<>> => d \in DomainsIn(t)
  /\ \A d, e \in Domains : d # e => ToSet(t.pracs[d]) \cap ToSet(t.pracs[e]) = {}
  /\ \A p \in Practices : t.qs[p] # {} => p \in PracticesIn(t)
  /\ \A p, o \in Practices : p # o => t.qs[p] \cap t.qs[o] = {}

\* What a behaviour starts from, and what an answer of the language model is
\* built into with minted ids, is a tree.  (tools.rs generate_structure)
ASSUME GivenTrees == \A t \in Structures \cup (Starts \ {None}) : t \in DraftTrees /\ IsATree(t)

\* Whatever moves, reparents, cascades, reorders, resets and stale saves have
\* done to it, a draft and every published version of one is a tree.
\* (tools.rs, models/assessment.rs)
DraftsAreTrees ==
  /\ draft # None => IsATree(draft)
  /\ \A n \in Names : yaml[n] # None => IsATree(yaml[n])

\* What disappears from the draft, or is reworded in it, was named by the tool
\* that did it (a delete names what it removes, a cascade all below it; a move
\* or a reparent names nothing it keeps), or the draft was reset, or a tool
\* that writes the whole draft had read it before somebody else's change.  So
\* one author alone, and any number with surgical tools only, lose nothing.
\* (tools.rs, draft.rs:27)
Whole == {"structure", "questions", "vocabulary"}
StaleOverwrite ==
  \E w \in Writers : loc[w].kind \in Whole /\ ~loc[w].fresh /\ loc'[w].kind = "idle"
ResetDone == \E w \in Writers : loc[w].kind = "reset" /\ loc'[w].kind = "idle"
Disturbed(x) ==
  /\ draft # None /\ x \in EntitiesIn(draft)
  /\ x \notin EntitiesIn(draft') \/ draft'.text[x] # draft.text[x]
OnlyWhatWasNamed ==
  [][(draft' # draft /\ ~ResetDone /\ ~StaleOverwrite) => \A x \in Entities : Disturbed(x) => x \in named']_vars

\* A response is bound to a version that is listed and complete (a publish
\* that died between its two objects never gets a response), and as long as
\* no fresh response was written over another one it answers only questions
\* of that version: no edit, reset or publish can break it.
\* (responses.rs:82, storage.rs:319)
ResponsesStand ==
  resp # None =>
    /\ meta[resp.version] # 0 /\ yaml[resp.version] # None
    /\ ~rebound => resp.answers \subseteq QuestionsIn(yaml[resp.version])

\* An answer, the submission and the binding of a response are lost only to a
\* clear of that answer, or to a request whose copy was read before another
\* request wrote.  (responses.rs:137, :155, collection.rs submit_response)
StaleRequest == \E r \in Requests : req[r].step \in {"save", "create"} /\ ~req[r].current
                                    /\ req'[r].step \notin {"save", "create"}
Cleared == {req[r].q : r \in {x \in Requests : req[x].op = "clear" /\ req[x].step = "save"}}
AnswersUntilOverlap ==
  [][(resp # None /\ resp' # resp /\ ~StaleRequest) =>
       /\ resp.answers \ resp'.answers \subseteq Cleared
       /\ resp.submitted => resp'.submitted
       /\ resp'.version = resp.version]_vars

\* The name an unnamed publish would take is free, as long as nobody has
\* chosen a name of the form v<k> and no publish has stopped between its two
\* objects.  (tools.rs:1246, storage.rs:319)
Torn == {n \in Names : yaml[n] # None /\ meta[n] = 0}
DefaultNameIsFree ==
  LET n == Cardinality({m \in Names : meta[m] # 0}) + 1
  IN  (~chosen /\ Torn = {} /\ n \in Names) => yaml[n] = None

\* Drafts and versions are trees, every response stands on a version that is
\* complete, and the next version's name is free.
AssessmentsStand == TypeOK /\ DraftsAreTrees /\ ResponsesStand /\ DefaultNameIsFree

=============================================================================
