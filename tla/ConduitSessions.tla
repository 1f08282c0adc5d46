-------------------------- MODULE ConduitSessions --------------------------
(***************************************************************************)
(* The door verbs of conduit as the sessions run them (surface.rs over the *)
(* WorkStore of work.rs): a verb loads the corpus page by page, decides on *)
(* what it read, and writes whole pages back one at a time.  Nothing locks *)
(* the wiki in between, so another session (a human at the terminal, a     *)
(* second harness) can move the tree under it, a merge gate can run for    *)
(* minutes between the load and the write, and a session that dies leaves  *)
(* the rest of its writes undone.                                          *)
(*                                                                         *)
(* ConduitDoors is the abstract specification: a session that is not       *)
(* interrupted implements it (ImplementsDoors).  The telemetry fields and  *)
(* counters are left out, as there.                                        *)
(***************************************************************************)
EXTENDS WorkLifecycle, Sequences, Functions, Integers

CONSTANTS
  Projects, Stories, Tasks, Parent, Bodies, NoSeal,  \* as in ConduitDoors
  Order,       \* the order a load reads the pages in: by class, by slug
  Sessions,    \* the processes that run verbs
  MaxCalls,    \* bound: calls begun when there is no trouble
  MaxTrouble   \* bound: calls begun while another one is in progress,
               \* out-of-door edits and deaths, taken together; each
               \* costs a call of the bound

Items == Projects \cup Stories \cup Tasks

ASSUME BoundsAreNatural == MaxTrouble \in Nat /\ MaxCalls \in Nat /\ MaxTrouble <= MaxCalls

ASSUME ClassesDisjoint ==
  Projects \cap Stories = {} /\ Projects \cap Tasks = {} /\ Stories \cap Tasks = {}

ASSUME ParentIsOneClassUp ==
  /\ Parent \in [Stories \cup Tasks -> Projects \cup Stories]
  /\ \A s \in Stories : Parent[s] \in Projects
  /\ \A t \in Tasks : Parent[t] \in Stories

ASSUME NoSealIsNone == NoSeal \notin Bodies /\ NoSeal \notin Items

ASSUME OrderListsItems ==
  /\ Order \in Seq(Items) /\ Range(Order) = Items /\ IsInjective(Order)
  /\ \A m, n \in DOMAIN Order :
       Order[m] \notin Projects /\ Parent[Order[m]] = Order[n] => n < m

VARIABLES
  page,    \* the wiki: one page per item
  branch,  \* each task's branch in the bare repository
  main,    \* each project's main: the squash commits, in order
  call,    \* what each session is in the middle of
  signed,  \* history: the bodies a human seat has sealed, per item
  trouble, \* history: "overlap", "edit" (inside a call), "death"
  calls,   \* calls left to begin
  left     \* how much of MaxTrouble is left

vars == <<page, branch, main, call, signed, trouble, calls, left>>

Page == [status : Status \cup {"absent"}, body : Bodies,
         seal : Bodies \cup {NoSeal}, repo : BOOLEAN]

Verb == {"new", "signoff", "bounce", "claim", "complete", "close", "cancel"}

(* No call in progress.                                                    *)
Idle == [verb |-> "none", item |-> NoSeal, seen |-> << >>, todo |-> << >>, at |-> "idle"]

Busy(s) == call[s] # Idle

(* Something the bound limits happens; `within` says whether it disturbs a *)
(* call in progress.                                                       *)
Disturb(kind, within) ==
  /\ left > 0
  /\ left' = left - 1
  /\ trouble' = IF within THEN trouble \cup {kind} ELSE trouble

-----------------------------------------------------------------------------
(* The corpus a call has loaded, and what the verbs read off it.  `v` maps *)
(* every item to the page the call saw.                                    *)

Position(i) == CHOOSE n \in DOMAIN Order : Order[n] = i

Corpus(seen) == [i \in Items |-> seen[Position(i)]]

ClassOf(i) == IF i \in Projects THEN "project"
              ELSE IF i \in Stories THEN "story" ELSE "task"

ProjectOf(t) == Parent[Parent[t]]

OnlyItself(i) == {i}  \* Mutant

(* Self and every descendant.                                              *)
Subtree(i) ==
  {j \in Items : \/ j = i
                 \/ j \notin Projects /\ Parent[j] = i
                 \/ j \in Tasks /\ ProjectOf(j) = i}

ChildrenStatuses(v, i) ==
  {v[j].status : j \in {k \in Items \ Projects : Parent[k] = i}} \ {"absent"}

Allowed(v, i, actor, to) ==
  /\ v[i].status # "absent"
  /\ TransitionAllowed(ClassOf(i), actor, v[i].status, to,
       IF i \in Projects THEN "none" ELSE v[Parent[i]].status,
       ChildrenStatuses(v, i))

AnySeal(p) == p.seal # NoSeal  \* Mutant of the next definition

Intact(p) == p.seal = p.body

Broken(p) == p.seal # NoSeal /\ p.seal # p.body

Resealed(p, to) == [p EXCEPT !.status = to, !.seal = p.body]  \* Mutant: every rewrite seals

(* A page rewritten: what the verb saw, with a new status.                 *)
Moved(p, to) == [p EXCEPT !.status = to]

\* Negative controls: the bounce empties the seal, or keeps it.
EmptiedSeal(p) == [p EXCEPT !.status = "draft", !.seal = {}]
KeptSeal(p) == [p EXCEPT !.status = "draft"]

Bounced(p) == [p EXCEPT !.status = "draft", !.seal = NoSeal]

\* Negative control: a cascade that takes closed items with it.
EveryItem(v, i, spared) == {j \in Subtree(i) : v[j].status # "absent"}

(* The items of i's subtree a cascade reaches.                             *)
Reached(v, i, spared) == {j \in Subtree(i) : v[j].status \notin spared}

(* What a verb decides to write, by item: here one page.                   *)
Just(i, p) == [j \in {i} |-> p]

(* The pages bounce_subtree rewrites: the signed, open ones.               *)
BounceWrites(v, i) ==
  [j \in Reached(v, i, (Status \cup {"absent"}) \ SignedOpen) |-> Bounced(v[j])]

(* The pages cancel_core rewrites: all but the closed ones.                *)
CancelWrites(v, i) ==
  [j \in Reached(v, i, Terminal \cup {"absent"}) |-> Moved(v[j], "cancelled")]

(* claim_core records the repo on the project the first time, and moves    *)
(* the task.                                                               *)
ClaimWrites(v, t) ==
  [j \in {t} \cup {p \in {ProjectOf(t)} : ~v[p].repo} |->
     IF j = t THEN Moved(v[t], "in-progress") ELSE [v[j] EXCEPT !.repo = TRUE]]

-----------------------------------------------------------------------------
(* A call, step by step.                                                   *)

Begin(s, verb, i) ==
  /\ ~Busy(s)
  /\ calls > 0
  /\ calls' = calls - 1
  /\ verb \in {"claim", "complete"} => i \in Tasks
  /\ verb = "close" => i \notin Tasks
  /\ call' = [call EXCEPT ![s] = [Idle EXCEPT !.verb = verb, !.item = i, !.at = "load"]]
  /\ IF \E o \in Sessions : Busy(o)
     THEN Disturb("overlap", TRUE)
     ELSE UNCHANGED <<trouble, left>>
  /\ UNCHANGED <<page, branch, main, signed>>

(* load_corpus reads the next page.                                        *)
Load(s) ==
  /\ call[s].at = "load"
  /\ LET seen == Append(call[s].seen, page[Order[Len(call[s].seen) + 1]])
     IN  call' = [call EXCEPT ![s].seen = seen,
                              ![s].at = IF Len(seen) = Len(Order) THEN "decide" ELSE "load"]
  /\ UNCHANGED <<page, branch, main, signed, trouble, calls, left>>

(* The call has decided: the pages `todo` are to be written.               *)
WriteNext(s, todo) ==
  call' = [call EXCEPT ![s].todo = todo, ![s].seen = << >>, ![s].at = "write"]

Refuse(s) ==
  /\ call' = [call EXCEPT ![s] = Idle]
  /\ UNCHANGED <<branch, signed>>

DecideNew(s, v, i) ==
  IF v[i].status = "absent" /\ (i \notin Projects => v[Parent[i]].status # "absent")
  THEN /\ \E b \in Bodies :
            WriteNext(s, Just(i, [v[i] EXCEPT !.status = "draft", !.body = b]))
       /\ UNCHANGED <<branch, signed>>
  ELSE Refuse(s)

(* The seal is taken over the body the call read.                          *)
DecideSignoff(s, v, i) ==
  IF Allowed(v, i, "HumanSeat", "ready") /\ v[i].seal = NoSeal
  THEN /\ WriteNext(s, Just(i, [v[i] EXCEPT !.status = "ready", !.seal = v[i].body]))
       /\ signed' = [signed EXCEPT ![i] = @ \cup {v[i].body}]
       /\ UNCHANGED branch
  ELSE Refuse(s)

DecideBounce(s, v, i) ==
  IF Allowed(v, i, "Harness", "draft")
  THEN WriteNext(s, BounceWrites(v, i)) /\ UNCHANGED <<branch, signed>>
  ELSE Refuse(s)

DecideCancel(s, v, i) ==
  IF Allowed(v, i, "Harness", "cancelled")
  THEN WriteNext(s, CancelWrites(v, i)) /\ UNCHANGED <<branch, signed>>
  ELSE Refuse(s)

(* require_intact of claim, complete and close: a broken seal forces the   *)
(* bounce, whatever the status; a missing one refuses.                     *)
DecideSealed(s, v, i) ==
  IF Broken(v[i]) THEN WriteNext(s, BounceWrites(v, i)) /\ UNCHANGED <<branch, signed>>
  ELSE Refuse(s)

(* ensure_branch, idempotent.                                              *)
Provisioned(t) == [branch EXCEPT ![t] = IF @ = "absent" THEN "even" ELSE @]

(* claim provisions the repo and the branch before it writes a page.       *)
DecideClaim(s, v, t) ==
  IF Intact(v[t]) /\ Allowed(v, t, "Harness", "in-progress")
  THEN /\ branch' = Provisioned(t)
       /\ WriteNext(s, ClaimWrites(v, t))
       /\ UNCHANGED signed
  ELSE DecideSealed(s, v, t)

(* complete goes on to the gate, on the strength of what it has read.      *)
DecideComplete(s, v, t) ==
  IF Intact(v[t]) /\ Allowed(v, t, "MergeDoor", "done")
  THEN /\ call' = [call EXCEPT ![s].at = "gate"]
       /\ UNCHANGED <<branch, signed>>
  ELSE DecideSealed(s, v, t)

DecideClose(s, v, i) ==
  IF Intact(v[i]) /\ Allowed(v, i, "HumanSeat", "done")
  THEN WriteNext(s, Just(i, Moved(v[i], "done"))) /\ UNCHANGED <<branch, signed>>
  ELSE DecideSealed(s, v, i)

Decide(s) ==
  /\ call[s].at = "decide"
  /\ LET v == Corpus(call[s].seen)
         i == call[s].item
     IN  CASE call[s].verb = "new"      -> DecideNew(s, v, i)
           [] call[s].verb = "signoff"  -> DecideSignoff(s, v, i)
           [] call[s].verb = "bounce"   -> DecideBounce(s, v, i)
           [] call[s].verb = "cancel"   -> DecideCancel(s, v, i)
           [] call[s].verb = "claim"    -> DecideClaim(s, v, i)
           [] call[s].verb = "complete" -> DecideComplete(s, v, i)
           [] call[s].verb = "close"    -> DecideClose(s, v, i)
  /\ UNCHANGED <<page, main, trouble, calls, left>>

Unpushed(t, contract) == main  \* Mutant

(* One squash commit on the project's main, for a task whose body the call *)
(* saw as `contract`.                                                      *)
Squashed(t, contract) ==
  [main EXCEPT ![ProjectOf(t)] = Append(@, [task |-> t, body |-> contract])]

(* The gate is green and the squash is pushed; the page is yet to be       *)
(* written, from the snapshot the call loaded before the gate.             *)
Merge(s) ==
  /\ call[s].at = "gate"
  /\ LET v == Corpus(call[s].seen)
         t == call[s].item
     IN  /\ branch[t] = "ahead"
         /\ main' = Squashed(t, v[t].body)
         /\ branch' = [branch EXCEPT ![t] = "even"]
         /\ WriteNext(s, Just(t, Moved(v[t], "done")))
  /\ UNCHANGED <<page, signed, trouble, calls, left>>

(* The gate is red or hung, the branch conflicts, or it has nothing to     *)
(* merge: the refusal is counted on the page, again from the snapshot.     *)
MergeRefused(s) ==
  /\ call[s].at = "gate"
  /\ LET v == Corpus(call[s].seen)
     IN  WriteNext(s, Just(call[s].item, v[call[s].item]))
  /\ UNCHANGED <<page, branch, main, signed, trouble, calls, left>>

(* One page write, in the order of the load: parents before children.      *)
(* After the last one the call ingests and returns.                        *)
Write(s) ==
  /\ call[s].at = "write"
  /\ \E j \in DOMAIN call[s].todo :
       LET rest == DOMAIN call[s].todo \ {j}
       IN  /\ \A k \in rest : Position(j) < Position(k)
           /\ page' = [page EXCEPT ![j] = call[s].todo[j]]
           /\ call' = [call EXCEPT ![s] = IF rest = {} THEN Idle
                                          ELSE [@ EXCEPT !.todo = Restrict(call[s].todo, rest)]]
  /\ UNCHANGED <<branch, main, signed, trouble, calls, left>>

(* A bounce of a closed item's broken seal finds nothing to draft.         *)
WriteNothing(s) ==
  /\ call[s].at = "write"
  /\ DOMAIN call[s].todo = {}
  /\ call' = [call EXCEPT ![s] = Idle]
  /\ UNCHANGED <<page, branch, main, signed, trouble, calls, left>>

-----------------------------------------------------------------------------
(* Around the calls.                                                       *)

(* The process is killed or a call to the wiki fails: what is not written  *)
(* stays unwritten.                                                        *)
Die(s) ==
  /\ Busy(s)
  /\ call' = [call EXCEPT ![s] = Idle]
  /\ Disturb("death", TRUE)
  /\ UNCHANGED <<page, branch, main, signed, calls>>

EditBody(i, b) ==
  /\ page[i].status # "absent"
  /\ page[i].body # b
  /\ page' = [page EXCEPT ![i].body = b]
  /\ Disturb("edit", \E s \in Sessions : Busy(s))
  /\ UNCHANGED <<branch, main, call, signed, calls>>

PushWork(t) ==
  /\ branch[t] = "even"
  /\ branch' = [branch EXCEPT ![t] = "ahead"]
  /\ UNCHANGED <<page, main, call, signed, trouble, calls, left>>

-----------------------------------------------------------------------------

InitWith(tree) ==
  /\ page = tree
  /\ branch = [t \in Tasks |-> "absent"]
  /\ main = [p \in Projects |-> << >>]
  /\ call = [s \in Sessions |-> Idle]
  /\ signed = [i \in Items |-> {tree[i].seal} \ {NoSeal}]
  /\ trouble = {}
  /\ left \in 0..MaxTrouble
  /\ calls = MaxCalls - left

(* The wiki before the first `new`.                                        *)
EmptyTree(b) ==
  [i \in Items |-> [status |-> "absent", body |-> b, seal |-> NoSeal, repo |-> FALSE]]

(* The wiki after planning: every item drafted and signed in turn.         *)
SignedTree(b) ==
  [i \in Items |-> [status |-> "ready", body |-> b, seal |-> b, repo |-> FALSE]]

Init == \E b \in Bodies : InitWith(EmptyTree(b)) \/ InitWith(SignedTree(b))

Next ==
  \/ \E s \in Sessions, verb \in Verb, i \in Items : Begin(s, verb, i)
  \/ \E s \in Sessions : \/ Load(s) \/ Decide(s) \/ Merge(s) \/ MergeRefused(s)
                         \/ Write(s) \/ WriteNothing(s) \/ Die(s)
  \/ \E i \in Items, b \in Bodies : EditBody(i, b)
  \/ \E t \in Tasks : PushWork(t)

Spec == Init /\ [][Next]_vars

-----------------------------------------------------------------------------
(* What holds however the sessions interleave and wherever they die.       *)

(* Every variable holds what its declaration says.                         *)
TypeOK ==
  /\ page \in [Items -> Page]
  /\ branch \in [Tasks -> {"absent", "even", "ahead"}]
  /\ \A p \in Projects : \A n \in DOMAIN main[p] :
       main[p][n] \in [task : Tasks, body : Bodies]
  /\ \A s \in Sessions : /\ call[s].at \in {"idle", "load", "decide", "gate", "write"}
                         /\ Len(call[s].seen) <= Len(Order)
  /\ signed \in [Items -> SUBSET Bodies]

(* A stale write can bring an old seal back, but never one that no human   *)
(* put there: a seal on a page is over a body that was signed for it.      *)
NoForgedSeal == \A i \in Items : page[i].seal \in signed[i] \cup {NoSeal}

(* Status and seal travel in one page write, so a race or a death between  *)
(* two writes cannot part them: no open item without a seal, no draft with *)
(* one (which signoff would refuse to seal again).                         *)
SealedIffSigned ==
  \A i \in Items :
    /\ page[i].status \in SignedOpen \cup {"done"} => page[i].seal # NoSeal
    /\ page[i].status \in {"absent", "draft"} => page[i].seal = NoSeal

(* Done on a task's page is always backed by a commit: the push comes      *)
(* before the page write.                                                  *)
DoneWasMerged ==
  \A t \in Tasks : page[t].status = "done" =>
    \E n \in DOMAIN main[ProjectOf(t)] : main[ProjectOf(t)][n].task = t

(* A commit lands for a task claimed under a contract a human had signed.  *)
MergedWasSigned ==
  \A p \in Projects : \A n \in DOMAIN main[p] :
    main[p][n].body \in signed[main[p][n].task]

-----------------------------------------------------------------------------
(* What holds while sessions keep out of each other's way.                 *)

Frozen == \A i \in Items : page[i].status \in Terminal => page'[i].status = page[i].status

(* Closed items stay closed, with deaths between the writes and edits      *)
(* inside the calls, until two calls overlap.                              *)
TerminalUntilOverlap == [][("overlap" \notin trouble') => Frozen]_vars

(* Nothing stays executable under an unsigned parent once every call has   *)
(* returned (the doc of bounce): true until a call dies between two writes *)
(* of a cascade, or overlaps another.                                      *)
DownhillAtRest ==
  trouble \subseteq {"edit"} /\ (\A s \in Sessions : ~Busy(s)) =>
    \A i \in Items \ Projects :
      page[i].status \in SignedOpen => page[Parent[i]].status \in SignedOpen

(* The tree with the decided writes of every call already applied.         *)
Settled ==
  [i \in Items |->
     IF \E s \in Sessions : i \in DOMAIN call[s].todo
     THEN call[CHOOSE s \in Sessions : i \in DOMAIN call[s].todo].todo[i]
     ELSE page[i]]

Doors == INSTANCE ConduitDoors WITH
  status <- [i \in Items |-> Settled[i].status],
  body   <- [i \in Items |-> Settled[i].body],
  seal   <- [i \in Items |-> Settled[i].seal],
  main   <- [p \in Projects |-> [n \in DOMAIN main[p] |-> main[p][n].task]]

(* While no call is overlapped, cut short or edited under, the sessions    *)
(* implement the atomic doors: a call takes effect where it decides (for   *)
(* complete, where it pushes) and its writes only carry that out.          *)
ImplementsDoors == [][trouble' # {} \/ [Doors!Next]_(Doors!vars)]_vars

(* What races, deaths and edits leave of the doors' promises: seals only   *)
(* where a human signed, never parted from the status, merges only of      *)
(* signed work, done only after the push, and, while no cascade was cut    *)
(* short or overlapped, nothing executable under an unsigned parent.       *)
PagesAgree ==
  TypeOK /\ SealedIffSigned /\ NoForgedSeal /\ MergedWasSigned /\ DoneWasMerged /\ DownhillAtRest

=============================================================================
