--------------------------- MODULE WorkLifecycle ---------------------------
(***************************************************************************)
(* The work-item lifecycle of conduit (src/conduit/src/workitem.rs): the   *)
(* three classes, the five statuses, the three actors and the one rule     *)
(* table, check_transition, that every door verb consults before it        *)
(* writes a page.  The module is pure: no state, only the rule.            *)
(***************************************************************************)

Class == {"project", "story", "task"}

Status == {"draft", "ready", "in-progress", "done", "cancelled"}

Actor == {"HumanSeat", "Harness", "MergeDoor"}

(* The actors a caller can present: the terminal and the MCP door.  The    *)
(* merge door is never accepted from a caller.                             *)
Caller == {"HumanSeat", "Harness"}

Terminal == {"done", "cancelled"}

SignedOpen == {"ready", "in-progress"}

(* Sign-off: a human seat, from draft, under a signed parent.  A project   *)
(* has no parent to consult; `parent` is then "none".                      *)
SignoffRule(class, actor, from, parent) ==
  /\ from = "draft"
  /\ actor = "HumanSeat"
  /\ class = "project" \/ parent \in SignedOpen

(* A task is done through the merge door alone, and only once claimed.     *)
TaskDoneRule(actor, from) ==
  /\ from = "in-progress"
  /\ actor = "MergeDoor"

ChildrenIgnored(children) == "done" \in children  \* Mutant

(* Every child is terminal and one landed.                                 *)
ChildrenLanded(children) == children \subseteq Terminal /\ "done" \in children

(* A story or a project closes over terminal children, one of which        *)
(* landed; a project's close is a human seat, a story's is not the merge   *)
(* door's business.                                                        *)
CloseRule(class, actor, from, children) ==
  /\ from \in SignedOpen
  /\ class = "project" => actor = "HumanSeat"
  /\ class = "story" => actor # "MergeDoor"
  /\ ChildrenLanded(children)

(* check_transition: may `actor` move an item of class `class` from `from` *)
(* to `to`, given its parent's status and the set of its children's?       *)
TransitionAllowed(class, actor, from, to, parent, children) ==
  /\ from # to
  /\ from \notin Terminal
  /\ \/ to = "cancelled"
     \/ to = "draft" /\ from \in SignedOpen
     \/ to = "ready" /\ SignoffRule(class, actor, from, parent)
     \/ to = "in-progress" /\ from = "ready"
     \/ to = "done" /\ class = "task" /\ TaskDoneRule(actor, from)
     \/ to = "done" /\ class # "task" /\ CloseRule(class, actor, from, children)

=============================================================================
