---------------------------- MODULE ConduitRepo ----------------------------
(***************************************************************************)
(* The git half of conduit's doors (src/conduit/src/repo.rs): claim        *)
(* provisions a project's bare repository and the task's branch, complete  *)
(* clones it into a scratch workspace, runs the gate on the branch and     *)
(* pushes one squash commit.  Every git command is a step of its own,      *)
(* because all completes under one directory use the same workspace path   *)
(* (scratch/merge-ws) and any session can die between two commands.        *)
(*                                                                         *)
(* A tree is the set of changes it contains.  The gate is the project's    *)
(* command: it is green on the trees in Green, and red or hung on the rest *)
(* (a hung gate is killed at its deadline and refused like a red one).     *)
(***************************************************************************)
EXTENDS Sequences, Integers, SequencesExt

CONSTANTS
  WorkTasks,  \* the tasks of the project; each has one branch
  Changes,    \* what can be committed to a branch
  Author,     \* the task each change is work for
  Green,      \* the trees the gate passes
  Sessions,   \* processes running claim and complete in one directory
  MaxCalls,   \* bound: calls begun in a behaviour
  CanDie,     \* whether a session may die between two commands
  Nothing     \* no directory, no branch, no task

ASSUME AuthorIsTask == Author \in [Changes -> WorkTasks]
ASSUME GreenTrees == Green \subseteq SUBSET Changes
ASSUME MainIsNoTask == "main" \notin WorkTasks  \* a branch is work/<task>
ASSUME NothingIsNone == \A tree \in SUBSET Changes : tree # Nothing

VARIABLES
  repo,    \* the bare repository: absent, initialised, or with a root commit
  bareBranch,  \* refs/heads/work/<task>: its tree, or Nothing
  bareMain,    \* refs/heads/main: the squash commits after the root commit
  ws,      \* the scratch workspace, or Nothing
  pc,      \* the next git command of each session
  task,    \* the task each session works for
  gated,   \* the tree a session's gate was green on
  done,    \* tasks whose merge was reported to the page
  calls,   \* calls left to begin
  overlapped  \* history: a complete, or a provisioning, began beside another

mergeVars == <<repo, bareBranch, bareMain, ws, pc, task, gated, done, calls, overlapped>>

Commit == [task : WorkTasks, adds : SUBSET Changes, gated : SUBSET Changes]

TreeOf(commits) == UNION {commits[n].adds : n \in DOMAIN commits}

(* Sessions that found no repository and make one, and sessions that are   *)
(* in a complete.                                                          *)
Provisioning(s) == pc[s] \in {"init", "root"}
Merging(s) == pc[s] \in {"remove", "clone", "checkout", "gate", "main", "squash",
                        "commit", "push", "clean"}

(* What is checked out in the workspace: a branch or main, plus the index. *)
CheckedOut == (IF ws.head = "main" THEN TreeOf(ws.main) ELSE ws.branch[ws.head])
                \cup ws.staged

Step(s, from, to) == pc[s] = from /\ pc' = [pc EXCEPT ![s] = to]

(* A command that fails ends the call; the door refuses.                   *)
Fail(s) ==
  /\ pc' = [pc EXCEPT ![s] = "idle"]
  /\ UNCHANGED <<repo, bareBranch, bareMain, ws, task, gated, done, calls, overlapped>>

-----------------------------------------------------------------------------
(* claim: ensure_repo, then ensure_branch.                                 *)

BeginClaim(s, t) ==
  /\ calls > 0
  /\ Step(s, "idle", "find")
  /\ task' = [task EXCEPT ![s] = t]
  /\ calls' = calls - 1
  /\ UNCHANGED <<repo, bareBranch, bareMain, ws, gated, done, overlapped>>

NeverProvisioned == FALSE  \* Mutant

(* A repository with a HEAD is taken as provisioned.                       *)
HasHead == repo # "absent"

FindRepo(s) ==
  /\ pc[s] = "find"
  /\ pc' = [pc EXCEPT ![s] = IF HasHead THEN "branch" ELSE "init"]
  /\ overlapped' = (overlapped \/ (~HasHead /\ \E o \in Sessions : Provisioning(o)))
  /\ UNCHANGED <<repo, bareBranch, bareMain, ws, task, gated, done, calls>>

(* git init, which leaves an existing repository as it is.                 *)
InitRepo(s) ==
  /\ Step(s, "init", "root")
  /\ repo' = IF repo = "absent" THEN "bare" ELSE repo
  /\ UNCHANGED <<bareBranch, bareMain, ws, task, gated, done, calls, overlapped>>

(* The empty root commit: update-ref puts it at main, whatever was there.  *)
RootCommit(s) ==
  /\ Step(s, "root", "branch")
  /\ repo' = "rooted"
  /\ bareMain' = << >>
  /\ UNCHANGED <<bareBranch, ws, task, gated, done, calls, overlapped>>

(* The branch forks from the tip of main; without a main there is no tip.  *)
EnsureBranch(s) ==
  /\ pc[s] = "branch"
  /\ bareBranch[task[s]] # Nothing \/ repo = "rooted"
  /\ pc' = [pc EXCEPT ![s] = "idle"]
  /\ bareBranch' = [bareBranch EXCEPT ![task[s]] = IF @ = Nothing THEN TreeOf(bareMain) ELSE @]
  /\ UNCHANGED <<repo, bareMain, ws, task, gated, done, calls, overlapped>>

NoBase(s) ==
  /\ pc[s] = "branch"
  /\ bareBranch[task[s]] = Nothing /\ repo # "rooted"
  /\ Fail(s)

-----------------------------------------------------------------------------
(* complete: merge_task, command by command.                               *)

BeginComplete(s, t) ==
  /\ calls > 0
  /\ bareBranch[t] # Nothing
  /\ t \notin done
  /\ Step(s, "idle", "remove")
  /\ task' = [task EXCEPT ![s] = t]
  /\ calls' = calls - 1
  /\ overlapped' = (overlapped \/ \E o \in Sessions : Merging(o))
  /\ UNCHANGED <<repo, bareBranch, bareMain, ws, gated, done>>

(* Whatever an earlier run left in merge-ws is removed.                    *)
RemoveLeftover(s) ==
  /\ Step(s, "remove", "clone")
  /\ ws' = Nothing
  /\ UNCHANGED <<repo, bareBranch, bareMain, task, gated, done, calls, overlapped>>

Clone(s) ==
  /\ Step(s, "clone", "checkout")
  /\ ws = Nothing
  /\ ws' = [main |-> bareMain, branch |-> bareBranch, head |-> "main", staged |-> {}]
  /\ UNCHANGED <<repo, bareBranch, bareMain, task, gated, done, calls, overlapped>>

CheckoutBranch(s) ==
  /\ Step(s, "checkout", "gate")
  /\ ws # Nothing
  /\ ws.branch[task[s]] # Nothing
  /\ ws' = [ws EXCEPT !.head = task[s]]
  /\ UNCHANGED <<repo, bareBranch, bareMain, task, gated, done, calls, overlapped>>

(* The gate runs in the workspace, on what is checked out there.           *)
GateGreen(s) ==
  /\ Step(s, "gate", "main")
  /\ ws # Nothing
  /\ CheckedOut \in Green
  /\ gated' = [gated EXCEPT ![s] = CheckedOut]
  /\ UNCHANGED <<repo, bareBranch, bareMain, ws, task, done, calls, overlapped>>

CheckoutMain(s) ==
  /\ Step(s, "main", "squash")
  /\ ws # Nothing
  /\ ws' = [ws EXCEPT !.head = "main"]
  /\ UNCHANGED <<repo, bareBranch, bareMain, task, gated, done, calls, overlapped>>

Refetched(t) == bareBranch[t] \ CheckedOut  \* Mutants: fetched again;
StagedName(t) == {t}                    \* the name staged for the content

(* What a branch of the clone has and the checkout has not.                *)
Unmerged(t) == ws.branch[t] \ CheckedOut

(* merge --squash.                                                         *)
Squash(s) ==
  /\ Step(s, "squash", "commit")
  /\ ws # Nothing
  /\ ws.branch[task[s]] # Nothing
  /\ ws' = [ws EXCEPT !.staged = @ \cup Unmerged(task[s])]
  /\ UNCHANGED <<repo, bareBranch, bareMain, task, gated, done, calls, overlapped>>

EmptyAllowed == TRUE  \* Mutant

SomethingStaged == ws.staged # {}

(* An empty index is refused; otherwise the commit goes on whatever is     *)
(* checked out.                                                            *)
CommitSquash(s) ==
  /\ Step(s, "commit", "push")
  /\ ws # Nothing
  /\ SomethingStaged
  /\ ws' = IF ws.head = "main"
           THEN [ws EXCEPT !.staged = {},
                           !.main = Append(@, [task |-> task[s], adds |-> ws.staged,
                                               gated |-> gated[s]])]
           ELSE [ws EXCEPT !.staged = {}, !.branch[ws.head] = CheckedOut]
  /\ UNCHANGED <<repo, bareBranch, bareMain, task, gated, done, calls, overlapped>>

NotPushed == bareMain  \* Mutant

LocalMain == ws.main

(* push origin main: a fast-forward of the bare repository's main (or      *)
(* nothing to push).                                                       *)
Push(s) ==
  /\ Step(s, "push", "clean")
  /\ ws # Nothing
  /\ IsPrefix(bareMain, ws.main)
  /\ bareMain' = LocalMain
  /\ UNCHANGED <<repo, bareBranch, ws, task, gated, done, calls, overlapped>>

(* The workspace goes, the page is written done.                           *)
Finish(s) ==
  /\ Step(s, "clean", "idle")
  /\ ws' = Nothing
  /\ done' = done \cup {task[s]}
  /\ UNCHANGED <<repo, bareBranch, bareMain, task, gated, calls, overlapped>>

(* The command cannot go on: the workspace is there when a clone needs it  *)
(* gone or is gone when a later command needs it, the gate is not green,   *)
(* the branch conflicts, there is nothing to merge, or main has moved.     *)
Refuse(s) ==
  /\ \/ pc[s] = "clone" /\ ws # Nothing
     \/ pc[s] \in {"checkout", "gate", "main", "squash", "commit", "push"} /\ ws = Nothing
     \/ pc[s] \in {"checkout", "squash"} /\ ws # Nothing /\ ws.branch[task[s]] = Nothing
     \/ pc[s] = "gate" /\ ws # Nothing /\ CheckedOut \notin Green
     \/ pc[s] = "squash"
     \/ pc[s] = "commit" /\ ws # Nothing /\ ~SomethingStaged
     \/ pc[s] = "push" /\ ws # Nothing /\ ~IsPrefix(bareMain, ws.main)
  /\ Fail(s)

Die(s) ==
  /\ CanDie
  /\ pc[s] # "idle"
  /\ Fail(s)

-----------------------------------------------------------------------------
(* A harness session pushes a commit to its task's branch.                 *)
PushCommit(c) ==
  /\ bareBranch[Author[c]] # Nothing
  /\ c \notin bareBranch[Author[c]]
  /\ bareBranch' = [bareBranch EXCEPT ![Author[c]] = @ \cup {c}]
  /\ UNCHANGED <<repo, bareMain, ws, pc, task, gated, done, calls, overlapped>>

InitMerges ==
  /\ repo = "absent"
  /\ bareBranch = [t \in WorkTasks |-> Nothing]
  /\ bareMain = << >>
  /\ ws = Nothing
  /\ pc = [s \in Sessions |-> "idle"]
  /\ task = [s \in Sessions |-> Nothing]
  /\ gated = [s \in Sessions |-> {}]
  /\ done = {}
  /\ calls = MaxCalls
  /\ overlapped = FALSE

NextMerges ==
  \/ \E s \in Sessions, t \in WorkTasks : BeginClaim(s, t) \/ BeginComplete(s, t)
  \/ \E s \in Sessions :
       \/ FindRepo(s) \/ InitRepo(s) \/ RootCommit(s)
       \/ EnsureBranch(s) \/ NoBase(s)
       \/ RemoveLeftover(s) \/ Clone(s) \/ CheckoutBranch(s) \/ GateGreen(s)
       \/ CheckoutMain(s) \/ Squash(s) \/ CommitSquash(s) \/ Push(s) \/ Finish(s)
       \/ Refuse(s) \/ Die(s)
  \/ \E c \in Changes : PushCommit(c)

SpecMerges == InitMerges /\ [][NextMerges]_mergeVars

-----------------------------------------------------------------------------
(* Every variable holds what its declaration says.                         *)
RepoTypeOK ==
  /\ repo \in {"absent", "bare", "rooted"}
  /\ bareBranch \in [WorkTasks -> (SUBSET Changes) \cup {Nothing}]
  /\ bareMain \in Seq(Commit)
  /\ ws = Nothing \/ /\ ws.main \in Seq(Commit)
                     /\ ws.head \in WorkTasks \cup {"main"}
                     /\ ws.staged \subseteq Changes
  /\ task \in [Sessions -> WorkTasks \cup {Nothing}]
  /\ gated \in [Sessions -> SUBSET Changes]
  /\ done \subseteq WorkTasks

(* The gate runs against the branch content, exactly what would merge:     *)
(* every change a commit brought to main was in the tree its gate passed,  *)
(* even if the branch moved on while the gate ran.                         *)
GateSawWhatLanded ==
  \A n \in DOMAIN bareMain : bareMain[n].adds \subseteq bareMain[n].gated /\ bareMain[n].gated \in Green

(* Main reads as a sequence of tasks: each commit carries some change, and *)
(* only changes made for the task its trailer names.                       *)
CommitIsItsTasks ==
  \A n \in DOMAIN bareMain : /\ bareMain[n].adds # {}
                         /\ \A c \in bareMain[n].adds : Author[c] = bareMain[n].task

(* A task reported done has its commit on main.                            *)
DoneIsOnMain == \A t \in done : \E n \in DOMAIN bareMain : bareMain[n].task = t

(* Main only ever grows: provisioning again never resets a main that holds *)
(* commits, and no push rewrites one, unless two sessions provisioned at   *)
(* the same time.                                                          *)
MainOnlyGrows == [][~overlapped' => IsPrefix(bareMain, bareMain')]_mergeVars

(* Main holds exactly what the gate passed, commit by commit and task by   *)
(* task, and every task reported done, wherever sessions died on the way   *)
(* and whatever claims and pushes ran beside a complete, until two         *)
(* completes share the workspace or two sessions provision at once.        *)
MainIsAsGated ==
  RepoTypeOK /\ (~overlapped => GateSawWhatLanded /\ CommitIsItsTasks /\ DoneIsOnMain)

=============================================================================
