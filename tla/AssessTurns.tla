----------------------------- MODULE AssessTurns -----------------------------
(***************************************************************************)
(* The authoring conversation of one project: the chat turns, the answers  *)
(* to question cards, the focus stepper and the uploads of amaker-author   *)
(* (chat.rs, projects.rs, upload.rs) over the objects of amaker-core's     *)
(* store.                                                                  *)
(*                                                                         *)
(* project.json and chat.json are read whole, changed in memory and written *)
(* back whole, without a condition.  A turn keeps its copy of the project  *)
(* for as long as the language model talks; its tools change the copy and  *)
(* most of them save it at once.  Every load and every put is a step, so   *)
(* several requests overlap, and a request may fail or die at any step.    *)
(*                                                                         *)
(* What is said is left out: a message is a user's, a text, or the card of *)
(* a clarifying question, and questions are numbered as they are asked.    *)
(***************************************************************************)
EXTENDS Naturals, FiniteSets, SequencesExt

CONSTANTS Handlers,      \* HTTP requests that may be served at the same time
          Documents,     \* ids of uploaded documents
          PracticeIds,   \* practices of the draft
          Budgets,       \* what set_question_budget accepts: [min, max]
          MaxCount,      \* bound: questions generated for a practice
          MaxAsked,      \* bound: clarifying questions asked in a behaviour
          MaxHandled,    \* bound: requests in a behaviour
          Openings,      \* the projects, with their chat, a behaviour begins with
          Nothing        \* no project, no budget, no argument

ASSUME SizesAssumption ==
  MaxCount \in Nat /\ MaxAsked \in Nat /\ MaxHandled \in Nat /\ IsFiniteSet(PracticeIds)
ASSUME BudgetAssumption ==
  Budgets \subseteq [min : Nat \ {0}, max : Nat] /\ \A b \in Budgets : b.min <= b.max

Substates == {"scoping", "structuring", "questions", "refining"}

\* A line of the conversation: a user's, a text of the model, or a card.
FromUser == 0
PlainText == MaxAsked + 1
Cards == 1..MaxAsked

Projects == [focus : Substates, docs : SUBSET Documents, budget : Budgets \cup {Nothing}, queue : Seq(Cards)]
Chats == [log : Seq({FromUser, PlainText} \cup Cards), open : SUBSET Cards]

ASSUME NothingAssumption == Nothing \notin Projects

VARIABLES proj,    \* project.json: focus, docs, budget, queue; or Nothing
          chat,    \* chat.json: the log and the cards that are open
          blobs,   \* the documents under uploads/
          count,   \* how many questions the draft has for each practice
          job,     \* what each request is doing, on which copies
          begun,   \* how many requests have begun
          asked,   \* how many clarifying questions have been asked
          gone,    \* history: questions flushed, or asked in a turn that failed
          torn     \* history: a put of an old copy, or a death between two puts

turnVars == <<proj, chat, blobs, count, job, begun, asked, gone, torn>>

NoChat == [log |-> <<>>, open |-> {}]
IdleJob == [step |-> "none", proj |-> Nothing, chat |-> NoChat, doc |-> Nothing, tools |-> "none",
            card |-> 0, count |-> Nothing, asks |-> {}, keys |-> {}, projFresh |-> TRUE, chatFresh |-> TRUE]

TurnsInit ==
  /\ \E s \in Openings : proj = s.proj /\ chat = s.chat /\ asked = s.asked /\ blobs = s.proj.docs
  /\ count = [p \in PracticeIds |-> 0]
  /\ job = [r \in Handlers |-> IdleJob]
  /\ begun = 0 /\ gone = {} /\ torn = FALSE

----------------------------------------------------------------------------
At(r, step) == job[r].step = step
Goto(r, rec) == job' = [job EXCEPT ![r] = rec]

\* A put makes the copies that the other requests hold old ones.
Others(r, next, p, c) ==
  [x \in Handlers |->
     IF x = r THEN next ELSE IF At(x, "none") THEN job[x]
     ELSE [job[x] EXCEPT !.projFresh = @ /\ ~p, !.chatFresh = @ /\ ~c]]
PutProject(r, p, next) ==
  /\ proj' = p /\ job' = Others(r, next, TRUE, FALSE)
  /\ torn' = (torn \/ ~job[r].projFresh)
PutChat(r, c, next) ==
  /\ chat' = c /\ job' = Others(r, next, FALSE, TRUE)
  /\ torn' = (torn \/ ~job[r].chatFresh)

Take(r, rec) ==
  /\ At(r, "none") /\ begun < MaxHandled
  /\ begun' = begun + 1
  /\ Goto(r, rec)

\* The request ends with an error, or its process dies.  What the turn asked
\* and did not save is gone; between two puts that belong together is torn.
Abandon(r) ==
  /\ ~At(r, "none")
  /\ Goto(r, IdleJob)
  /\ gone' = gone \cup job[r].asks
  /\ torn' = (torn \/ job[r].step \in {"savechat", "popproject", "document", "removed", "listed", "delete"})
  /\ UNCHANGED <<proj, chat, blobs, count, begun, asked>>

----------------------------------------------------------------------------
(* send_message: conversation, project, agent, project, conversation.      *)

Send(r) ==
  /\ Take(r, [IdleJob EXCEPT !.step = "project", !.chat = chat])
  /\ UNCHANGED <<proj, chat, blobs, count, asked, gone, torn>>

Forward(r) ==
  /\ At(r, "forward")
  /\ Goto(r, [IdleJob EXCEPT !.step = "project", !.chat = chat])
  /\ UNCHANGED <<proj, chat, blobs, count, begun, asked, gone, torn>>

\* The queue a free text finds is cleared, in the turn's copy.
Flushed(p) == [p EXCEPT !.queue = <<>>]

LoadProject(r) ==
  /\ At(r, "project") /\ proj # Nothing
  /\ gone' = gone \cup ToSet(proj.queue)
  /\ Goto(r, [job[r] EXCEPT !.step = "agent", !.proj = Flushed(proj), !.projFresh = TRUE,
                            !.tools = proj.focus, !.chat.log = Append(@, FromUser)])
  /\ UNCHANGED <<proj, chat, blobs, count, begun, asked, torn>>

\* tools_for_substate: the substate the turn began in decides the tools.
Offered(r, substates) == At(r, "agent") /\ job[r].tools \in substates

SwitchFocus(r) ==
  /\ Offered(r, Substates)
  /\ \E f \in Substates :
       LET p == [job[r].proj EXCEPT !.focus = f] IN PutProject(r, p, [job[r] EXCEPT !.proj = p])
  /\ UNCHANGED <<chat, blobs, count, begun, asked, gone>>

SetQuestionBudget(r) ==
  /\ Offered(r, {"scoping", "structuring"})
  /\ \E b \in Budgets :
       LET p == [job[r].proj EXCEPT !.budget = b] IN PutProject(r, p, [job[r] EXCEPT !.proj = p])
  /\ UNCHANGED <<chat, blobs, count, begun, asked, gone>>

\* Queued in the copy; the next put of the project saves it.
AskClarifyingQuestion(r) ==
  /\ Offered(r, {"scoping"}) /\ asked < MaxAsked
  /\ asked' = asked + 1
  /\ Goto(r, [job[r] EXCEPT !.proj.queue = Append(@, asked + 1), !.asks = @ \cup {asked + 1}])
  /\ UNCHANGED <<proj, chat, blobs, count, begun, gone, torn>>

\* question_count: every question of every practice is one.
Total(c) == Cardinality({q \in PracticeIds \X (1..MaxCount) : q[2] <= c[q[1]]})

\* Mutant: compares what there is, not what there would be.
OpenBudget(p, c, n) == p.budget # Nothing => n >= 1 /\ Total(c) < p.budget.max

\* generate_questions: the practice has no questions yet; with a budget the
\* call names its count, and what it would come to is within the maximum.
WithinBudget(p, c, n) == p.budget # Nothing => n >= 1 /\ Total(c) + n <= p.budget.max

GenerateQuestions(r) ==
  /\ Offered(r, {"questions"})
  /\ \E p \in PracticeIds, n \in 0..MaxCount :
       /\ count[p] = 0
       /\ WithinBudget(job[r].proj, count, n)
       /\ Goto(r, [job[r] EXCEPT !.step = "generate", !.count = [count EXCEPT ![p] = n]])
  /\ UNCHANGED <<proj, chat, blobs, count, begun, asked, gone, torn>>

\* The draft goes first, then the project's copy.
SaveDraft(r) ==
  /\ At(r, "generate")
  /\ count' = job[r].count
  /\ Goto(r, [job[r] EXCEPT !.step = "generated"])
  /\ UNCHANGED <<proj, chat, blobs, begun, asked, gone, torn>>

SaveGenerated(r) ==
  /\ At(r, "generated")
  /\ PutProject(r, job[r].proj, [job[r] EXCEPT !.step = "agent", !.count = Nothing])
  /\ UNCHANGED <<chat, blobs, count, begun, asked, gone>>

\* Mutants: a card opened and not logged, a question shown and left queued.
Unlogged(c, q) == [c EXCEPT !.open = @ \cup {q}]
Peeked(p) == p

\* The first question of the queue becomes this turn's card.
Shown(c, q) == [log |-> Append(c.log, q), open |-> c.open \cup {q}]
Said(c) == [c EXCEPT !.log = Append(@, PlainText)]
Popped(p) == IF p.queue = <<>> THEN p ELSE [p EXCEPT !.queue = Tail(@)]

EndTurn(r) ==
  /\ At(r, "agent")
  /\ LET q == job[r].proj.queue
         p == Popped(job[r].proj)
     IN  PutProject(r, p, [job[r] EXCEPT !.step = "savechat", !.proj = p,
                            !.chat = IF q = <<>> THEN Said(@) ELSE Shown(@, Head(q))])
  /\ UNCHANGED <<chat, blobs, count, begun, asked, gone>>

SaveConversation(r) ==
  /\ At(r, "savechat")
  /\ PutChat(r, job[r].chat, IdleJob)
  /\ UNCHANGED <<proj, blobs, count, begun, asked, gone>>

----------------------------------------------------------------------------
(* respond_to_question and skip_question: close the card, then show the    *)
(* next one, or hand the answer to send_message when there is none.        *)

Respond(r) ==
  \E q \in 1..asked :
    /\ Take(r, [IdleJob EXCEPT !.step = "close", !.chat = [chat EXCEPT !.open = @ \ {q}]])
    /\ UNCHANGED <<proj, chat, blobs, count, asked, gone, torn>>

CloseCard(r) ==
  /\ At(r, "close")
  /\ PutChat(r, job[r].chat, [IdleJob EXCEPT !.step = "advance"])
  /\ UNCHANGED <<proj, blobs, count, begun, asked, gone>>

AdvanceOrForward(r) ==
  /\ At(r, "advance") /\ proj # Nothing
  /\ IF proj.queue = <<>>
     THEN Goto(r, [IdleJob EXCEPT !.step = "forward"])
     ELSE Goto(r, [IdleJob EXCEPT !.step = "popped", !.proj = Popped(proj),
                                  !.card = Head(proj.queue)])
  /\ UNCHANGED <<proj, chat, blobs, count, begun, asked, gone, torn>>

ShowNext(r) ==
  /\ At(r, "popped")
  /\ Goto(r, [job[r] EXCEPT !.step = "popchat", !.chatFresh = TRUE,
                            !.chat = Shown([chat EXCEPT !.log = Append(@, FromUser)], job[r].card)])
  /\ UNCHANGED <<proj, chat, blobs, count, begun, asked, gone, torn>>

SavePoppedChat(r) ==
  /\ At(r, "popchat")
  /\ PutChat(r, job[r].chat, [job[r] EXCEPT !.step = "popproject"])
  /\ UNCHANGED <<proj, blobs, count, begun, asked, gone>>

SavePoppedProject(r) ==
  /\ At(r, "popproject")
  /\ PutProject(r, job[r].proj, IdleJob)
  /\ UNCHANGED <<chat, blobs, count, begun, asked, gone>>

----------------------------------------------------------------------------
(* The stepper, the uploads and the deletion of the project.               *)

UpdatePhase(r) ==
  /\ proj # Nothing
  /\ \E f \in Substates \ {proj.focus} :
       Take(r, [IdleJob EXCEPT !.step = "save", !.proj = [proj EXCEPT !.focus = f]])
  /\ UNCHANGED <<proj, chat, blobs, count, asked, gone, torn>>

SaveProject(r) ==
  /\ At(r, "save")
  /\ PutProject(r, job[r].proj, IdleJob)
  /\ UNCHANGED <<chat, blobs, count, begun, asked, gone>>

\* A fresh id: nobody has it.
Unused == Documents \ (blobs \cup proj.docs \cup {job[r].doc : r \in Handlers})

UploadDocument(r) ==
  proj # Nothing /\ \E d \in Unused :
    /\ Take(r, [IdleJob EXCEPT !.step = "document", !.doc = d])
    /\ blobs' = blobs \cup {d}
    /\ UNCHANGED <<proj, chat, count, asked, gone, torn>>

DeleteDocument(r) ==
  proj # Nothing /\ \E d \in proj.docs :
    /\ Take(r, [IdleJob EXCEPT !.step = "removed", !.doc = d])
    /\ blobs' = blobs \ {d}
    /\ UNCHANGED <<proj, chat, count, asked, gone, torn>>

\* Mutant: a project built again from its defaults around the new list.
Rebuilt(p, step, d) ==
  [p EXCEPT !.focus = "scoping", !.docs = IF step = "document" THEN @ \cup {d} ELSE @ \ {d}]

\* document_ids in the project that is loaded after the object was stored
\* or deleted.
Listing(p, step, d) == [p EXCEPT !.docs = IF step = "document" THEN @ \cup {d} ELSE @ \ {d}]

LoadForDocument(r) ==
  /\ job[r].step \in {"document", "removed"} /\ proj # Nothing
  /\ Goto(r, [job[r] EXCEPT !.step = "listed", !.projFresh = TRUE,
                            !.proj = Listing(proj, job[r].step, job[r].doc)])
  /\ UNCHANGED <<proj, chat, blobs, count, begun, asked, gone, torn>>

SaveListing(r) ==
  /\ At(r, "listed")
  /\ PutProject(r, job[r].proj, IdleJob)
  /\ UNCHANGED <<chat, blobs, count, begun, asked, gone>>

\* delete_project lists the keys and deletes them one by one.
DeleteProject(r) ==
  /\ proj # Nothing
  /\ Take(r, [IdleJob EXCEPT !.step = "delete", !.keys = blobs \cup {"project", "chat"}])
  /\ UNCHANGED <<proj, chat, blobs, count, asked, gone, torn>>

DeleteKey(r) ==
  /\ At(r, "delete")
  /\ \E k \in job[r].keys :
       /\ proj' = IF k = "project" THEN Nothing ELSE proj
       /\ chat' = IF k = "chat" THEN NoChat ELSE chat
       /\ blobs' = blobs \ {k}
       /\ job' = Others(r, IF job[r].keys = {k} THEN IdleJob ELSE [job[r] EXCEPT !.keys = @ \ {k}],
                         k = "project", k = "chat")
  /\ UNCHANGED <<count, begun, asked, gone, torn>>

----------------------------------------------------------------------------
Turn(r) ==
  \/ Send(r) \/ Forward(r) \/ LoadProject(r) \/ SwitchFocus(r) \/ SetQuestionBudget(r)
  \/ AskClarifyingQuestion(r) \/ GenerateQuestions(r) \/ SaveDraft(r) \/ SaveGenerated(r)
  \/ EndTurn(r) \/ SaveConversation(r)
Answer(r) ==
  \/ Respond(r) \/ CloseCard(r) \/ AdvanceOrForward(r) \/ ShowNext(r)
  \/ SavePoppedChat(r) \/ SavePoppedProject(r)
Files(r) ==
  \/ UpdatePhase(r) \/ SaveProject(r)
  \/ UploadDocument(r) \/ DeleteDocument(r) \/ LoadForDocument(r) \/ SaveListing(r)
  \/ DeleteProject(r) \/ DeleteKey(r)

TurnsNext == \E r \in Handlers : Turn(r) \/ Answer(r) \/ Files(r) \/ Abandon(r)

TurnsSpec == TurnsInit /\ [][TurnsNext]_turnVars

----------------------------------------------------------------------------
(* Properties.                                                             *)

IsProject(p) == p \in Projects /\ ToSet(p.queue) \subseteq 1..asked
IsChat(c) ==
  /\ c \in Chats /\ ToSet(c.log) \cap Cards \subseteq 1..asked
  /\ c.open \subseteq ToSet(c.log)

\* Every object, and every copy a request holds, is of its type; a card that
\* is open is in the log, and a count stays within what was generated.
TurnsTypeOK ==
  /\ proj = Nothing \/ IsProject(proj)
  /\ IsChat(chat) /\ blobs \subseteq Documents
  /\ count \in [PracticeIds -> 0..MaxCount]
  /\ \A r \in Handlers : (job[r].proj = Nothing \/ IsProject(job[r].proj)) /\ IsChat(job[r].chat)
  /\ begun \in 0..MaxHandled /\ asked \in 0..MaxAsked /\ gone \subseteq 1..asked
  /\ torn \in BOOLEAN

\* When nobody is at work, and no request has overwritten another's put or
\* died between its own two: each question asked is either shown once, or
\* still queued, or it was flushed or its turn failed; what is shown and then
\* what is queued comes in the order asked; and the project lists exactly the
\* documents that are stored.  (chat.rs:283 pops after the turn, chat.rs:511
\* pops on an answer, project.rs "drained one-per-interaction", upload.rs)
AtRest == \A r \in Handlers : At(r, "none")
InOrder(s) == \A i, j \in DOMAIN s : (i < j /\ s[i] \in Cards /\ s[j] \in Cards) => s[i] < s[j]
Ahead(s, t) == \A x \in ToSet(s) \cap Cards, y \in ToSet(t) \cap Cards : x < y
WholeAtRest ==
  (AtRest /\ ~torn /\ proj # Nothing) =>
    /\ InOrder(chat.log) /\ InOrder(proj.queue) /\ Ahead(chat.log, proj.queue)
    /\ 1..asked \subseteq ToSet(chat.log) \cup ToSet(proj.queue) \cup gone
    /\ proj.docs = blobs

\* What a behaviour begins with is a project at rest.
ASSUME OpeningsAssumption ==
  \A s \in Openings :
    /\ s.proj \in Projects /\ s.chat \in Chats /\ s.asked \in 0..MaxAsked
    /\ s.chat.open \subseteq ToSet(s.chat.log)
    /\ InOrder(s.chat.log) /\ InOrder(s.proj.queue) /\ Ahead(s.chat.log, s.proj.queue)
    /\ (ToSet(s.chat.log) \cap Cards) \cup ToSet(s.proj.queue) = 1..s.asked

\* The project and its conversation agree when nobody is at work.
RestIsWhole == TurnsTypeOK /\ WholeAtRest

\* A request changes in project.json only what it is about, keeps every line
\* of the conversation, and brings no deleted project back, unless another
\* request has put the same object since it loaded its copy: then it undoes
\* that put.  (storage.rs:84 save_project is last-writer-wins)
FocusSteps == {"agent", "save"}
About(r) ==
  [focus |-> job[r].step \in FocusSteps, docs |-> job[r].step = "listed", budget |-> At(r, "agent")]
Held(q) == [q EXCEPT !.projFresh = TRUE, !.chatFresh = TRUE]
Acts(r) == Held(job[r]) # Held(job'[r])
NothingUndoneUntilOverlap ==
  [][\A r \in Handlers : (Acts(r) /\ ~At(r, "delete")) =>
       /\ (job[r].projFresh /\ proj' # proj) =>
            /\ proj # Nothing
            /\ \A f \in {"focus", "docs", "budget"} : proj'[f] # proj[f] => About(r)[f]
       /\ (job[r].chatFresh /\ chat' # chat) => IsPrefix(chat.log, chat'.log)]_turnVars

\* No generation brings the number of questions past the committed maximum,
\* unless another request changed the project during the turn.
\* (tools.rs:664, the aggregate budget check)
BudgetBinds ==
  [][\A r \in Handlers :
       (count' # count /\ Acts(r) /\ job[r].projFresh /\ proj # Nothing /\ proj.budget # Nothing)
         => Total(count') <= proj.budget.max]_turnVars
=============================================================================
