---------------------------- MODULE ConduitDoors ----------------------------
(***************************************************************************)
(* The door verbs of conduit (src/conduit/src/surface.rs), one call at a   *)
(* time: what new, signoff, bounce, claim, complete, close and cancel do   *)
(* to the work tree, its approval seals and the project's repository when  *)
(* no other call is in flight.  ConduitSessions models the same verbs page *)
(* write by page write, with several sessions and crashes.                 *)
(*                                                                         *)
(* The tree has the depth the classes fix: projects, stories, tasks.  An   *)
(* item is known by its identity, so `new` chooses a class, a title and a  *)
(* parent by choosing which absent item it creates.  Timestamps, titles,   *)
(* the bounces and door_refusals counters and the repo field are left out: *)
(* no guard of any verb reads them.                                        *)
(***************************************************************************)
EXTENDS WorkLifecycle, Sequences, Naturals

CONSTANTS
  Projects, Stories, Tasks, \* the identities items can have, by class
  Parent,                   \* the story of a task, the project of a story
  Bodies,                   \* the contracts a page's body can hold
  NoSeal                    \* the page carries no approval seal

Items == Projects \cup Stories \cup Tasks

ASSUME ClassesDisjoint ==
  /\ Projects \cap Stories = {}
  /\ Projects \cap Tasks = {}
  /\ Stories \cap Tasks = {}

ASSUME ParentIsOneClassUp ==
  /\ Parent \in [Stories \cup Tasks -> Projects \cup Stories]
  /\ \A s \in Stories : Parent[s] \in Projects
  /\ \A t \in Tasks : Parent[t] \in Stories

ASSUME NoSealIsNoBody == NoSeal \notin Bodies

VARIABLES
  status,   \* the status in each page's frontmatter, "absent" before `new`
  body,     \* the contract text below the frontmatter
  seal,     \* the body the approval seal was taken over, or NoSeal
  branch,   \* each task's branch in the bare repository
  main      \* each project's main: the squash commits, by task, in order

vars == <<status, body, seal, branch, main>>

-----------------------------------------------------------------------------
(* The tree.                                                               *)

ClassOf(i) == IF i \in Projects THEN "project"
              ELSE IF i \in Stories THEN "story" ELSE "task"

ProjectOf(t) == Parent[Parent[t]]

Children(i) == {j \in Stories \cup Tasks : Parent[j] = i /\ status[j] # "absent"}

(* Self and every descendant.                                              *)
Subtree(i) ==
  {j \in Items : \/ j = i
                 \/ j \notin Projects /\ Parent[j] = i
                 \/ j \in Tasks /\ ProjectOf(j) = i}

ParentStatus(i) == IF i \in Projects THEN "none" ELSE status[Parent[i]]

ChildrenStatuses(i) == {status[j] : j \in Children(i)}

(* The rule table applied to item i in the tree as it stands.              *)
Allowed(i, actor, to) ==
  /\ status[i] # "absent"
  /\ TransitionAllowed(ClassOf(i), actor, status[i], to,
                       ParentStatus(i), ChildrenStatuses(i))

AnySeal(i) == seal[i] # NoSeal  \* Mutant of the next definition

Intact(i) == seal[i] = body[i]

Broken(i) == seal[i] # NoSeal /\ seal[i] # body[i]

-----------------------------------------------------------------------------
(* The doors.                                                              *)

(* The downhill cascade of a bounce: strip and draft on every signed, open *)
(* item of the subtree; everything else is left as it is.                  *)
KeptSeals(hit) == seal  \* Mutant

Stripped(hit) == [j \in Items |-> IF j \in hit THEN NoSeal ELSE seal[j]]

\* Slips a change could make here, kept as mutants.
ShallowBounceHits(i) == {j \in {i} \cup Children(i) : status[j] \in SignedOpen}
IndiscriminateBounceHits(i) == {j \in Subtree(i) : status[j] # "absent"}

BounceHits(i) == {j \in Subtree(i) : status[j] \in SignedOpen}

BounceSubtree(i) ==
  /\ status' = [j \in Items |-> IF j \in BounceHits(i) THEN "draft" ELSE status[j]]
  /\ seal' = Stripped(BounceHits(i))
  /\ UNCHANGED <<body, branch, main>>

New(i, b) ==
  /\ status[i] = "absent"
  /\ i \notin Projects => status[Parent[i]] # "absent"
  /\ status' = [status EXCEPT ![i] = "draft"]
  /\ body' = [body EXCEPT ![i] = b]
  /\ UNCHANGED <<seal, branch, main>>

(* Only the terminal offers sign-off, so the actor is the human seat.      *)
Signoff(i) ==
  /\ Allowed(i, "HumanSeat", "ready")
  /\ seal[i] = NoSeal
  /\ seal' = [seal EXCEPT ![i] = body[i]]
  /\ status' = [status EXCEPT ![i] = "ready"]
  /\ UNCHANGED <<body, branch, main>>

Bounce(i, actor) ==
  /\ Allowed(i, actor, "draft")
  /\ BounceSubtree(i)

(* require_intact with a broken seal: the verb is refused, the item is     *)
(* bounced.  The seal is checked before the transition, so the status is   *)
(* not a guard here.                                                       *)
ForcedBounce(i) ==
  /\ status[i] # "absent"
  /\ Broken(i)
  /\ BounceSubtree(i)

Claim(t, actor) ==
  /\ Intact(t)
  /\ Allowed(t, actor, "in-progress")
  /\ status' = [status EXCEPT ![t] = "in-progress"]
  /\ branch' = [branch EXCEPT ![t] = IF @ = "absent" THEN "even" ELSE @]
  /\ UNCHANGED <<body, seal, main>>

\* Negative controls: the trailer names the project; the push is never made.
Mistrailed(t) == [main EXCEPT ![ProjectOf(t)] = Append(@, ProjectOf(t))]
Unpushed(t) == main

(* One squash commit on the project's main.                                *)
Squashed(t) == [main EXCEPT ![ProjectOf(t)] = Append(@, t)]

(* The merge door with a green gate.  A squash of a branch that has no     *)
(* changes against main is refused; after the push it has none.            *)
Complete(t) ==
  /\ Intact(t)
  /\ Allowed(t, "MergeDoor", "done")
  /\ branch[t] = "ahead"
  /\ main' = Squashed(t)
  /\ branch' = [branch EXCEPT ![t] = "even"]
  /\ status' = [status EXCEPT ![t] = "done"]
  /\ UNCHANGED <<body, seal>>

Close(i, actor) ==
  /\ i \notin Tasks
  /\ Intact(i)
  /\ Allowed(i, actor, "done")
  /\ status' = [status EXCEPT ![i] = "done"]
  /\ UNCHANGED <<body, seal, branch, main>>

(* The seal stays on a cancelled page.                                     *)
Cancel(i, actor) ==
  /\ Allowed(i, actor, "cancelled")
  /\ status' = [j \in Items |->
                  IF j \in Subtree(i) /\ status[j] \notin Terminal \cup {"absent"}
                  THEN "cancelled" ELSE status[j]]
  /\ UNCHANGED <<body, seal, branch, main>>

-----------------------------------------------------------------------------
(* What happens to the tree outside the doors.                             *)

(* The wiki is an ordinary git-backed store: anyone can rewrite a body,    *)
(* which is what the seal is there to detect.                              *)
EditBody(i, b) ==
  /\ status[i] # "absent"
  /\ body[i] # b
  /\ body' = [body EXCEPT ![i] = b]
  /\ UNCHANGED <<status, seal, branch, main>>

(* A session pushes commits to a branch of the bare repository.            *)
PushWork(t) ==
  /\ branch[t] = "even"
  /\ branch' = [branch EXCEPT ![t] = "ahead"]
  /\ UNCHANGED <<status, body, seal, main>>

-----------------------------------------------------------------------------

Init ==
  /\ status = [i \in Items |-> "absent"]
  /\ \E b \in Bodies : body = [i \in Items |-> b]
  /\ seal = [i \in Items |-> NoSeal]
  /\ branch = [t \in Tasks |-> "absent"]
  /\ main = [p \in Projects |-> << >>]

Next ==
  \/ \E i \in Items, b \in Bodies : New(i, b) \/ EditBody(i, b)
  \/ \E i \in Items : Signoff(i) \/ ForcedBounce(i)
  \/ \E i \in Items, actor \in Caller :
       Bounce(i, actor) \/ Close(i, actor) \/ Cancel(i, actor)
  \/ \E t \in Tasks, actor \in Caller : Claim(t, actor)
  \/ \E t \in Tasks : Complete(t) \/ PushWork(t)

Spec == Init /\ [][Next]_vars

-----------------------------------------------------------------------------
(* What the doors promise.                                                 *)

(* Every variable holds what its declaration says.                         *)
TypeOK ==
  /\ status \in [Items -> Status \cup {"absent"}]
  /\ body \in [Items -> Bodies]
  /\ seal \in [Items -> Bodies \cup {NoSeal}]
  /\ branch \in [Tasks -> {"absent", "even", "ahead"}]
  /\ main \in [Projects -> Seq(Tasks)]

(* Nothing is executable under an unsigned parent: whenever an item is     *)
(* ready or in progress, so is its parent (signoff's downhill rule kept by *)
(* every bounce, cancel and close).                                        *)
Downhill ==
  \A i \in Stories \cup Tasks :
    status[i] \in SignedOpen => status[Parent[i]] \in SignedOpen

(* A seal stands for a sign-off in force: an open item is signed exactly   *)
(* when its page carries a seal, so a bounced item can be sealed again and *)
(* an item that moved on was sealed first.                                 *)
SealedIffSigned ==
  \A i \in Items :
    /\ status[i] \in SignedOpen \cup {"done"} => seal[i] # NoSeal
    /\ status[i] \in {"absent", "draft"} => seal[i] = NoSeal

(* Done flows uphill: under a done story or project nothing is executable  *)
(* any more, and something below it landed.                                *)
Uphill ==
  \A i \in Projects \cup Stories :
    status[i] = "done" =>
      /\ \A j \in Children(i) : status[j] \notin SignedOpen
      /\ \E j \in Children(i) : status[j] = "done"

(* A task is done exactly when its project's main holds its squash commit, *)
(* and no main holds two commits of one task.                              *)
DoneIffLanded ==
  /\ \A t \in Tasks :
       status[t] = "done" <=> \E n \in 1..Len(main[ProjectOf(t)]) :
                                main[ProjectOf(t)][n] = t
  /\ \A p \in Projects : \A m, n \in 1..Len(main[p]) :
       main[p][m] = main[p][n] => m = n

(* Main grows one commit at a time, and only for a claimed task whose body *)
(* is the one that was signed, under a story and a project still signed.   *)
LandingIsSigned ==
  [][\A p \in Projects : main'[p] # main[p] =>
       \E t \in Tasks :
         /\ ProjectOf(t) = p
         /\ main'[p] = Append(main[p], t)
         /\ status[t] = "in-progress" /\ seal[t] = body[t]
         /\ status[Parent[t]] \in SignedOpen
         /\ status[p] \in SignedOpen]_vars

(* A work item never leaves done or cancelled, and its seal stays as it    *)
(* was: no cascade reaches into a closed item.                             *)
TerminalFrozen ==
  [][\A i \in Items : status[i] \in Terminal =>
       status'[i] = status[i] /\ seal'[i] = seal[i]]_vars

(* What the doors promise of every state, for a tree of any shape: nothing *)
(* executable under an unsigned parent, seals that stand for sign-offs in  *)
(* force, done flowing uphill, and main agreeing with the pages.           *)
DoorsAgree == TypeOK /\ Downhill /\ SealedIffSigned /\ Uphill /\ DoneIffLanded

=============================================================================
