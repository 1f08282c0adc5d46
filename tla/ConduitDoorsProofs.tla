------------------------- MODULE ConduitDoorsProofs -------------------------
(***************************************************************************)
(* Proofs about the two halves of a door: ConduitRepo, the git commands    *)
(* behind it, and ConduitDoors, the pages and their seals.                 *)
(*                                                                         *)
(* For any number of tasks, changes and sessions and any gate, main holds  *)
(* what the gate passed and nothing else, and it only grows, until two     *)
(* completes share the workspace or two sessions provision at once.  What  *)
(* the properties say of main has to be known of the clone's main and of   *)
(* the index before the push (Cloned, Gated, Pushable), and of branches    *)
(* that a commit only holds changes of its task (OwnWork).                 *)
(*                                                                         *)
(* For every tree and every set of bodies the promises of the doors are    *)
(* inductive only together: Uphill needs Downhill (a child can be signed   *)
(* or claimed only under an open parent, hence not under a closed one) and *)
(* DoneIffLanded needs the rule table alone.                               *)
(***************************************************************************)
EXTENDS ConduitRepo, ConduitDoors, TLAPS

----------------------------------------------------------------------------
(* The git commands.                                                       *)

Steps == {"idle", "find", "init", "root", "branch", "remove", "clone", "checkout", "gate",
          "main", "squash", "commit", "push", "clean"}
Trees == (SUBSET Changes) \cup {Nothing}

(* The workspace holds a clone: branches, a main, an index.                *)
Clones == [main : Seq(Commit), branch : [WorkTasks -> Trees], head : WorkTasks \cup {"main"},
           staged : SUBSET Changes]
HeadExists == ws.head \in WorkTasks => ws.branch[ws.head] # Nothing

(* What every variable holds, whatever overlaps.                           *)
Types ==
  /\ repo \in {"absent", "bare", "rooted"}
  /\ bareBranch \in [WorkTasks -> Trees]
  /\ bareMain \in Seq(Commit)
  /\ ws # Nothing => ws \in Clones /\ HeadExists
  /\ pc \in [Sessions -> Steps]
  /\ task \in [Sessions -> WorkTasks \cup {Nothing}]
  /\ \A s \in Sessions : pc[s] # "idle" => task[s] \in WorkTasks
  /\ gated \in [Sessions -> SUBSET Changes]
  /\ done \subseteq WorkTasks
  /\ overlapped \in BOOLEAN

(* Nothing is merged before the root commit.                               *)
RootFirst ==
  repo # "rooted" => /\ bareMain = << >>
                     /\ \A t \in WorkTasks : bareBranch[t] = Nothing
                     /\ \A s \in Sessions : ~Merging(s)

(* Sessions keep out of each other's way.                                  *)
Apart ==
  /\ \A s \in Sessions : Provisioning(s) => repo # "rooted"
  /\ \A r, s \in Sessions : Provisioning(r) /\ Provisioning(s) => r = s
  /\ \A r, s \in Sessions : Merging(r) /\ Merging(s) => r = s

(* A commit as the gate saw it, made of its task's changes.                *)
Sound(c) == /\ c.adds \subseteq c.gated /\ c.gated \in Green
            /\ c.adds # {}
            /\ \A x \in c.adds : Author[x] = c.task

AllSound(commits) == \A n \in DOMAIN commits : Sound(commits[n])
Lists(commits, t) == \E n \in DOMAIN commits : commits[n].task = t

(* A branch holds its task's changes, on top of what main has.             *)
OwnWork(branches, commits) ==
  \A t \in WorkTasks : branches[t] # Nothing =>
    \A c \in branches[t] : Author[c] = t \/ c \in TreeOf(commits)

(* The workspace of the session in a complete, command by command.         *)
Cloned(s) == pc[s] \in {"checkout", "gate", "main", "squash", "commit", "push"} =>
  /\ AllSound(ws.main)
  /\ OwnWork(ws.branch, ws.main)

Gated(s) ==
  /\ pc[s] \in {"checkout", "squash", "commit"} => ws.head = "main"
  /\ pc[s] \in {"gate", "main"} => ws.head = task[s]
  /\ pc[s] \in {"checkout", "gate", "main", "squash"} => ws.staged = {}
  /\ pc[s] \in {"main", "squash", "commit"} =>
       ws.branch[task[s]] \subseteq gated[s] /\ gated[s] \in Green
  /\ pc[s] = "commit" => ws.staged \subseteq ws.branch[task[s]] \ TreeOf(ws.main)

Pushable(s) ==
  /\ pc[s] \in {"main", "squash", "commit"} => ws.branch[task[s]] # Nothing
  /\ pc[s] = "push" => Lists(ws.main, task[s])
  /\ pc[s] = "clean" => Lists(bareMain, task[s])

MergeInv ==
  /\ Apart
  /\ AllSound(bareMain)
  /\ OwnWork(bareBranch, bareMain)
  /\ \A t \in done : Lists(bareMain, t)
  /\ \A s \in Sessions : Cloned(s) /\ Gated(s) /\ Pushable(s)

Inv == Types /\ RootFirst /\ (~overlapped => MergeInv)

-----------------------------------------------------------------------------
(* Sequences of commits.                                                   *)

LEMMA PrefixElements ==
  ASSUME NEW S, NEW s \in Seq(S), NEW t \in Seq(S), IsPrefix(s, t), NEW n \in DOMAIN s
  PROVE  n \in DOMAIN t /\ t[n] = s[n]
<1>1. Len(s) <= Len(t) /\ SubSeq(s, 1, Len(s)) = SubSeq(t, 1, Len(s)) /\ n \in 1..Len(s)
  BY DEF IsPrefix
<1>2. SubSeq(s, 1, Len(s))[n] = s[n] /\ SubSeq(t, 1, Len(s))[n] = t[n]
  BY <1>1
<1>3. QED
  BY <1>1, <1>2

LEMMA PrefixOfItself == ASSUME NEW S, NEW s \in Seq(S) PROVE IsPrefix(s, s)
BY DEF IsPrefix

(* What a commit adds to the tree, and what stays in it.                   *)
LEMMA TreeGrows ==
  ASSUME NEW s \in Seq(Commit), NEW t \in Seq(Commit),
         \A n \in DOMAIN s : n \in DOMAIN t /\ t[n] = s[n]
  PROVE  TreeOf(s) \subseteq TreeOf(t)
BY DEF TreeOf

LEMMA TreeType == ASSUME NEW s \in Seq(Commit) PROVE TreeOf(s) \subseteq Changes
<1>1. \A n \in DOMAIN s : s[n] \in Commit
  OBVIOUS
<1>2. \A n \in DOMAIN s : s[n].adds \subseteq Changes
  BY <1>1 DEF Commit
<1>3. QED
  BY <1>2 DEF TreeOf

LEMMA AppendCommit ==
  ASSUME NEW s \in Seq(Commit), NEW c \in Commit
  PROVE  /\ Append(s, c) \in Seq(Commit)
         /\ \A n \in DOMAIN s : n \in DOMAIN Append(s, c) /\ Append(s, c)[n] = s[n]
         /\ Len(s) + 1 \in DOMAIN Append(s, c) /\ Append(s, c)[Len(s) + 1] = c
         /\ \A n \in DOMAIN Append(s, c) : n \in DOMAIN s \/ n = Len(s) + 1
OBVIOUS

-----------------------------------------------------------------------------
LEMMA CheckedOutType ==
  ASSUME Types, ws # Nothing PROVE CheckedOut \subseteq Changes
<1>1. ws \in Clones /\ HeadExists
  BY DEF Types
<1>2. ws.main \in Seq(Commit) /\ ws.staged \subseteq Changes /\ ws.head \in WorkTasks \cup {"main"}
      /\ ws.branch \in [WorkTasks -> Trees]
  BY <1>1 DEF Clones
<1>3. CASE ws.head = "main"
  BY <1>2, <1>3, TreeType DEF CheckedOut
<1>4. CASE ws.head # "main"
  <2>1. ws.head \in WorkTasks /\ ws.branch[ws.head] # Nothing
    BY <1>1, <1>2, <1>4 DEF HeadExists
  <2>2. ws.branch[ws.head] \in Trees
    BY <1>2, <2>1
  <2>3. ws.branch[ws.head] \subseteq Changes
    BY <2>1, <2>2 DEF Trees
  <2>4. QED
    BY <1>2, <1>4, <2>3 DEF CheckedOut
<1>5. QED
  BY <1>3, <1>4

(* Types are kept by every step, in a workspace two sessions share too.    *)
(* Types are kept by every step, in a workspace two sessions share too.    *)
LEMMA TypesStep == Types /\ [NextMerges]_mergeVars => Types'
<1> SUFFICES ASSUME Types, [NextMerges]_mergeVars PROVE Types'
  OBVIOUS

<1>0. /\ bareBranch \in [WorkTasks -> Trees] /\ bareMain \in Seq(Commit)
      /\ pc \in [Sessions -> Steps] /\ task \in [Sessions -> WorkTasks \cup {Nothing}]
      /\ \A s \in Sessions : pc[s] # "idle" => task[s] \in WorkTasks
      /\ gated \in [Sessions -> SUBSET Changes] /\ done \subseteq WorkTasks
      /\ ws # Nothing => ws \in Clones /\ HeadExists
  BY DEF Types
<1>1. ASSUME NEW s \in Sessions, NEW t \in WorkTasks, BeginClaim(s, t) \/ BeginComplete(s, t) PROVE Types'
  <2>1. /\ UNCHANGED <<repo, bareBranch, bareMain, ws, gated, done>>
        /\ task' = [task EXCEPT ![s] = t]
        /\ pc' = [pc EXCEPT ![s] = "find"] \/ pc' = [pc EXCEPT ![s] = "remove"]
    BY <1>1 DEF BeginClaim, BeginComplete, Step
  <2>2. /\ pc' \in [Sessions -> Steps] /\ task' \in [Sessions -> WorkTasks \cup {Nothing}]
        /\ \A o \in Sessions : pc'[o] # "idle" => task'[o] \in WorkTasks
    BY <1>0, <2>1 DEF Steps
  <2>3. overlapped' \in BOOLEAN
    BY <1>1 DEF BeginClaim, BeginComplete, Types
  <2>4. QED
    BY <2>1, <2>2, <2>3 DEF Types, HeadExists
<1>2. ASSUME NEW s \in Sessions, FindRepo(s) \/ InitRepo(s) \/ NoBase(s) \/ Refuse(s) \/ Die(s)
      PROVE  Types'
  BY <1>2 DEF FindRepo, InitRepo, NoBase, Refuse, Die, Fail, Step, Types, HeadExists, Steps
<1>3. ASSUME NEW s \in Sessions, RootCommit(s) PROVE Types'
  BY <1>3 DEF RootCommit, Step, Types, HeadExists, Steps
<1>4. ASSUME NEW s \in Sessions, EnsureBranch(s) PROVE Types'
  <2>1. TreeOf(bareMain) \in Trees
    BY <1>0, TreeType DEF Trees
  <2>2. bareBranch' \in [WorkTasks -> Trees]
    BY <1>0, <1>4, <2>1 DEF EnsureBranch
  <2>3. pc' \in [Sessions -> Steps] /\ \A r \in Sessions : pc'[r] # "idle" => pc[r] # "idle"
    BY <1>0, <1>4 DEF EnsureBranch, Steps
  <2>4. QED
    BY <1>4, <2>2, <2>3 DEF EnsureBranch, Types, HeadExists
<1>5. ASSUME NEW s \in Sessions, RemoveLeftover(s) \/ Finish(s) PROVE Types'
  BY <1>5 DEF RemoveLeftover, Finish, Step, Types, Steps
<1>6. ASSUME NEW s \in Sessions, Clone(s) PROVE Types'
  <2>1. ws' \in Clones /\ HeadExists'
    BY <1>0, <1>6, MainIsNoTask DEF Clone, Clones, HeadExists
  <2>2. QED
    BY <1>6, <2>1 DEF Clone, Step, Types, Steps
<1>7. ASSUME NEW s \in Sessions, CheckoutBranch(s) \/ CheckoutMain(s) PROVE Types'
  <2>1. ws # Nothing /\ ws \in Clones /\ task[s] \in WorkTasks
    BY <1>0, <1>7 DEF CheckoutBranch, CheckoutMain, Step
  <2>2. ws' \in Clones /\ HeadExists'
    BY <1>7, <2>1, MainIsNoTask DEF CheckoutBranch, CheckoutMain, Clones, HeadExists
  <2>3. QED
    BY <1>7, <2>2 DEF CheckoutBranch, CheckoutMain, Step, Types, Steps
<1>8. ASSUME NEW s \in Sessions, GateGreen(s) PROVE Types'
  <2>1. gated' \in [Sessions -> SUBSET Changes]
    BY <1>0, <1>8, CheckedOutType DEF GateGreen
  <2>2. QED
    BY <1>8, <2>1 DEF GateGreen, Step, Types, Steps, HeadExists
<1>9. ASSUME NEW s \in Sessions, Squash(s) PROVE Types'
  <2>1. ws # Nothing /\ ws \in Clones /\ HeadExists /\ task[s] \in WorkTasks /\ ws.branch[task[s]] # Nothing
    BY <1>0, <1>9 DEF Squash, Step
  <2>2. ws.branch[task[s]] \in Trees
    BY <2>1 DEF Clones
  <2>3. Unmerged(task[s]) \subseteq Changes
    BY <2>1, <2>2 DEF Unmerged, Trees
  <2>4. ws' \in Clones /\ HeadExists'
    BY <1>9, <2>1, <2>3 DEF Squash, Clones, HeadExists
  <2>5. QED
    BY <1>9, <2>4 DEF Squash, Step, Types, Steps
<1>10. ASSUME NEW s \in Sessions, CommitSquash(s) PROVE Types'
  <2>1. ws # Nothing /\ ws \in Clones /\ HeadExists /\ task[s] \in WorkTasks
    BY <1>0, <1>10 DEF CommitSquash, Step
  <2>2. ws' \in Clones /\ HeadExists'
    <3>1. CASE ws.head = "main"
      <4> DEFINE c == [task |-> task[s], adds |-> ws.staged, gated |-> gated[s]]
      <4>1. ws.main \in Seq(Commit) /\ ws.staged \subseteq Changes
        BY <2>1 DEF Clones
      <4>2. c \in Commit
        BY <1>0, <2>1, <4>1 DEF Commit
      <4>3. Append(ws.main, c) \in Seq(Commit)
        BY <4>1, <4>2
      <4>4. ws' = [ws EXCEPT !.staged = {}, !.main = Append(ws.main, c)]
        BY <1>10, <3>1 DEF CommitSquash
      <4>5. QED
        BY <2>1, <4>3, <4>4 DEF Clones, HeadExists
    <3>2. CASE ws.head # "main"
      <4>1. ws' = [ws EXCEPT !.staged = {}, !.branch[ws.head] = CheckedOut]
        BY <1>10, <3>2 DEF CommitSquash
      <4>2. ws.head \in WorkTasks /\ ws.branch \in [WorkTasks -> Trees] /\ CheckedOut \in Trees
        BY <2>1, <3>2, CheckedOutType DEF Clones, Trees
      <4>3. CheckedOut # Nothing
        BY <2>1, CheckedOutType, NothingIsNone
      <4>4. ws' \in Clones
        BY <2>1, <4>1, <4>2 DEF Clones
      <4>5. HeadExists'
        BY <2>1, <4>1, <4>2, <4>3 DEF Clones, HeadExists
      <4>6. QED
        BY <4>4, <4>5
    <3>3. QED
      BY <3>1, <3>2
  <2>3. pc' \in [Sessions -> Steps] /\ \A r \in Sessions : pc'[r] # "idle" => pc[r] # "idle"
    BY <1>0, <1>10 DEF CommitSquash, Step, Steps
  <2>4. UNCHANGED <<repo, bareBranch, bareMain, task, gated, done, overlapped>>
    BY <1>10 DEF CommitSquash
  <2>5. QED
    BY <2>2, <2>3, <2>4 DEF Types
<1>11. ASSUME NEW s \in Sessions, Push(s) PROVE Types'
  <2>1. bareMain' \in Seq(Commit)
    BY <1>0, <1>11 DEF Push, LocalMain, Clones
  <2>2. QED
    BY <1>11, <2>1 DEF Push, Step, Types, Steps, HeadExists
<1>12. ASSUME NEW c \in Changes, PushCommit(c) PROVE Types'
  <2>1. Author[c] \in WorkTasks
    BY AuthorIsTask
  <2>2. bareBranch[Author[c]] \cup {c} \in Trees
    BY <1>0, <1>12, <2>1 DEF PushCommit, Trees
  <2>3. bareBranch' \in [WorkTasks -> Trees]
    BY <1>0, <1>12, <2>2 DEF PushCommit
  <2>4. QED
    BY <1>12, <2>3 DEF PushCommit, Types, HeadExists
<1>13. CASE UNCHANGED mergeVars
  BY <1>13 DEF mergeVars, Types, HeadExists
<1>14. QED
  BY <1>1, <1>2, <1>3, <1>4, <1>5, <1>6, <1>7, <1>8, <1>9, <1>10, <1>11, <1>12, <1>13 DEF NextMerges

(* A repository has its root commit before anything is merged into it.     *)
LEMMA RootStep == Types /\ RootFirst /\ [NextMerges]_mergeVars => RootFirst'
<1> SUFFICES ASSUME Types, RootFirst, [NextMerges]_mergeVars, repo' # "rooted"
             PROVE  /\ bareMain' = << >>
                    /\ \A t \in WorkTasks : bareBranch'[t] = Nothing
                    /\ \A s \in Sessions : ~Merging(s)'
  BY DEF RootFirst
<1> DEFINE Goal == /\ bareMain' = << >>
                   /\ \A t \in WorkTasks : bareBranch'[t] = Nothing
                   /\ \A s \in Sessions : ~Merging(s)'
<1>0. pc \in [Sessions -> Steps] /\ bareBranch \in [WorkTasks -> Trees]
      /\ \A s \in Sessions : pc[s] # "idle" => task[s] \in WorkTasks
  BY DEF Types
<1>1. repo # "rooted"
  BY DEF NextMerges, BeginClaim, BeginComplete, FindRepo, InitRepo, RootCommit, EnsureBranch,
         NoBase, RemoveLeftover, Clone, CheckoutBranch, GateGreen, CheckoutMain, Squash,
         CommitSquash, Push, Finish, Refuse, Die, Fail, PushCommit, mergeVars
<1>2. bareMain = << >> /\ (\A t \in WorkTasks : bareBranch[t] = Nothing) /\ (\A s \in Sessions : ~Merging(s))
  BY <1>1 DEF RootFirst
<1>3. ASSUME NEW s \in Sessions, NEW t \in WorkTasks, BeginClaim(s, t) \/ BeginComplete(s, t) PROVE Goal
  BY <1>0, <1>2, <1>3 DEF BeginClaim, BeginComplete, Step, Merging
<1>4. ASSUME NEW s \in Sessions,
             FindRepo(s) \/ InitRepo(s) \/ EnsureBranch(s) \/ NoBase(s) \/ Refuse(s) \/ Die(s)
      PROVE  Goal
  BY <1>0, <1>1, <1>2, <1>4
     DEF FindRepo, InitRepo, EnsureBranch, NoBase, Refuse, Die, Fail, Step, Merging
<1>5. ASSUME NEW s \in Sessions, RootCommit(s) PROVE Goal
  BY <1>5 DEF RootCommit
<1>6. ASSUME NEW s \in Sessions,
             \/ RemoveLeftover(s) \/ Clone(s) \/ CheckoutBranch(s) \/ GateGreen(s)
             \/ CheckoutMain(s) \/ Squash(s) \/ CommitSquash(s) \/ Push(s) \/ Finish(s)
      PROVE  FALSE
  BY <1>2, <1>6 DEF RemoveLeftover, Clone, CheckoutBranch, GateGreen, CheckoutMain, Squash,
                    CommitSquash, Push, Finish, Step, Merging
<1>7. ASSUME NEW c \in Changes, PushCommit(c) PROVE FALSE
  BY <1>2, <1>7, AuthorIsTask DEF PushCommit
<1>8. CASE UNCHANGED mergeVars
  BY <1>2, <1>8 DEF mergeVars, Merging
<1>9. QED
  BY <1>3, <1>4, <1>5, <1>6, <1>7, <1>8 DEF NextMerges

-----------------------------------------------------------------------------
(* What a step that leaves the workspace and main alone keeps of MergeInv: *)
(* a session may leave its complete, or stay in place.                     *)
LEMMA Elsewhere ==
  ASSUME Types, MergeInv, Apart',
         UNCHANGED <<bareMain, ws, gated, done>>,
         OwnWork(bareBranch', bareMain),
         \A r \in Sessions : Merging(r)' /\ pc'[r] # "remove" => pc'[r] = pc[r] /\ task'[r] = task[r]
  PROVE  MergeInv'
<1>1. AllSound(bareMain') /\ OwnWork(bareBranch', bareMain') /\ \A t \in done' : Lists(bareMain', t)
  BY DEF MergeInv
<1>2. ASSUME NEW s \in Sessions PROVE (Cloned(s) /\ Gated(s) /\ Pushable(s))'
  <2>1. CASE Merging(s)' /\ pc'[s] # "remove"
    <3>1. pc'[s] = pc[s] /\ task'[s] = task[s] /\ Cloned(s) /\ Gated(s) /\ Pushable(s)
      BY <2>1 DEF MergeInv
    <3>2. QED
      BY <3>1 DEF Cloned, Gated, Pushable
  <2>2. CASE ~(Merging(s)' /\ pc'[s] # "remove")
    BY <2>2 DEF Merging, Cloned, Gated, Pushable
  <2>3. QED
    BY <2>1, <2>2
<1>3. QED
  BY <1>1, <1>2 DEF MergeInv

(* The same for a step of the session in a complete.                       *)
LEMMA OnlyMerger ==
  ASSUME Types, MergeInv, NEW s \in Sessions, Merging(s),
         pc' \in [Sessions -> Steps],
         \A r \in Sessions : r # s => pc'[r] = pc[r],
         ~Provisioning(s)', UNCHANGED <<repo, bareBranch, task>>,
         AllSound(bareMain'), OwnWork(bareBranch, bareMain'), \A t \in done' : Lists(bareMain', t),
         (Cloned(s) /\ Gated(s) /\ Pushable(s))'
  PROVE  MergeInv'
<1>1. \A r \in Sessions : Merging(r)' => r = s
  BY DEF MergeInv, Apart, Merging
<1>2. Apart'
  BY <1>1 DEF MergeInv, Apart, Provisioning
<1>3. \A r \in Sessions : r # s => (Cloned(r) /\ Gated(r) /\ Pushable(r))'
  BY <1>1 DEF Merging, Cloned, Gated, Pushable
<1>4. QED
  BY <1>2, <1>3 DEF MergeInv

(* Every step keeps what the properties rest on, as long as nothing        *)
(* overlaps.                                                               *)
LEMMA MergeStep ==
  Types /\ RootFirst /\ MergeInv /\ [NextMerges]_mergeVars /\ ~overlapped' => MergeInv'
<1> SUFFICES ASSUME Types, RootFirst, MergeInv, [NextMerges]_mergeVars, ~overlapped'
             PROVE  MergeInv'
  OBVIOUS
<1>0. /\ bareBranch \in [WorkTasks -> Trees] /\ bareMain \in Seq(Commit)
      /\ pc \in [Sessions -> Steps] /\ task \in [Sessions -> WorkTasks \cup {Nothing}]
      /\ \A s \in Sessions : pc[s] # "idle" => task[s] \in WorkTasks
      /\ gated \in [Sessions -> SUBSET Changes]
      /\ ws # Nothing => ws \in Clones
      /\ AllSound(bareMain) /\ OwnWork(bareBranch, bareMain) /\ \A t \in done : Lists(bareMain, t)
      /\ Apart
  BY DEF Types, MergeInv
<1>a. pc' \in [Sessions -> Steps]
  BY TypesStep DEF Types
<1>1. ASSUME NEW s \in Sessions, NEW t \in WorkTasks, BeginClaim(s, t) PROVE MergeInv'
  <2>1. UNCHANGED <<repo, bareBranch, bareMain, ws, gated, done>> /\ pc[s] = "idle"
        /\ pc' = [pc EXCEPT ![s] = "find"] /\ task' = [task EXCEPT ![s] = t]
    BY <1>1 DEF BeginClaim, Step
  <2>2. Apart'
    BY <1>0, <2>1 DEF Apart, Provisioning, Merging
  <2>3. \A r \in Sessions : Merging(r)' => pc'[r] = pc[r] /\ task'[r] = task[r]
    BY <1>0, <2>1 DEF Merging
  <2>4. QED
    BY <1>0, <2>1, <2>2, <2>3, Elsewhere
<1>2. ASSUME NEW s \in Sessions, NEW t \in WorkTasks, BeginComplete(s, t) PROVE MergeInv'
  <2>1. UNCHANGED <<repo, bareBranch, bareMain, ws, gated, done>> /\ pc[s] = "idle"
        /\ pc' = [pc EXCEPT ![s] = "remove"] /\ task' = [task EXCEPT ![s] = t]
        /\ \A o \in Sessions : ~Merging(o)
    BY <1>2 DEF BeginComplete, Step
  <2>2. Apart'
    BY <1>0, <2>1 DEF Apart, Provisioning, Merging
  <2>3. \A r \in Sessions : Merging(r)' /\ pc'[r] # "remove" => pc'[r] = pc[r] /\ task'[r] = task[r]
    BY <1>0, <2>1 DEF Merging
  <2>4. QED
    BY <1>0, <2>1, <2>2, <2>3, Elsewhere
<1>3. ASSUME NEW s \in Sessions, FindRepo(s) PROVE MergeInv'
  <2>1. UNCHANGED <<repo, bareBranch, bareMain, ws, task, gated, done>> /\ pc[s] = "find"
        /\ pc' = [pc EXCEPT ![s] = IF HasHead THEN "branch" ELSE "init"]
        /\ (~HasHead => \A o \in Sessions : ~Provisioning(o))
    BY <1>3 DEF FindRepo
  <2>2. Apart'
    <3>1. CASE HasHead
      BY <1>0, <2>1, <3>1 DEF Apart, Provisioning, Merging
    <3>2. CASE ~HasHead
      BY <1>0, <2>1, <3>2 DEF Apart, Provisioning, Merging, HasHead
    <3>3. QED
      BY <3>1, <3>2
  <2>3. \A r \in Sessions : Merging(r)' => pc'[r] = pc[r] /\ task'[r] = task[r]
    BY <1>0, <2>1 DEF Merging
  <2>4. QED
    BY <1>0, <2>1, <2>2, <2>3, Elsewhere
<1>4. ASSUME NEW s \in Sessions, InitRepo(s) PROVE MergeInv'
  <2>1. UNCHANGED <<bareBranch, bareMain, ws, task, gated, done>> /\ pc[s] = "init"
        /\ pc' = [pc EXCEPT ![s] = "root"] /\ (repo' = "rooted" => repo = "rooted")
    BY <1>4 DEF InitRepo, Step
  <2>2. Apart'
    BY <1>0, <2>1 DEF Apart, Provisioning, Merging
  <2>3. \A r \in Sessions : Merging(r)' => pc'[r] = pc[r] /\ task'[r] = task[r]
    BY <1>0, <2>1 DEF Merging
  <2>4. QED
    BY <1>0, <2>1, <2>2, <2>3, Elsewhere
<1>5. ASSUME NEW s \in Sessions, RootCommit(s) PROVE MergeInv'
  <2>1. UNCHANGED <<bareBranch, ws, task, gated, done>> /\ bareMain' = << >> /\ pc[s] = "root"
        /\ pc' = [pc EXCEPT ![s] = "branch"]
    BY <1>5 DEF RootCommit, Step
  <2>2. bareMain = << >>
    BY <1>0, <2>1 DEF Apart, Provisioning, RootFirst
  <2>3. Apart'
    BY <1>0, <2>1 DEF Apart, Provisioning, Merging
  <2>4. \A r \in Sessions : Merging(r)' => pc'[r] = pc[r] /\ task'[r] = task[r]
    BY <1>0, <2>1 DEF Merging
  <2>5. QED
    BY <1>0, <2>1, <2>2, <2>3, <2>4, Elsewhere
<1>6. ASSUME NEW s \in Sessions, EnsureBranch(s) PROVE MergeInv'
  <2>1. UNCHANGED <<repo, bareMain, ws, task, gated, done>> /\ pc' = [pc EXCEPT ![s] = "idle"]
        /\ bareBranch' = [bareBranch EXCEPT ![task[s]] = IF @ = Nothing THEN TreeOf(bareMain) ELSE @]
    BY <1>6 DEF EnsureBranch
  <2>2. Apart'
    BY <1>0, <2>1 DEF Apart, Provisioning, Merging
  <2>3. \A r \in Sessions : Merging(r)' => pc'[r] = pc[r] /\ task'[r] = task[r]
    BY <1>0, <2>1 DEF Merging
  <2>4. OwnWork(bareBranch', bareMain)
    BY <1>0, <2>1 DEF OwnWork
  <2>5. QED
    BY <1>0, <2>1, <2>2, <2>3, <2>4, Elsewhere
<1>7. ASSUME NEW s \in Sessions, NoBase(s) \/ Refuse(s) \/ Die(s) PROVE MergeInv'
  <2>1. UNCHANGED <<repo, bareBranch, bareMain, ws, task, gated, done>> /\ pc' = [pc EXCEPT ![s] = "idle"]
    BY <1>7 DEF NoBase, Refuse, Die, Fail
  <2>2. Apart'
    BY <1>0, <2>1 DEF Apart, Provisioning, Merging
  <2>3. \A r \in Sessions : Merging(r)' => pc'[r] = pc[r] /\ task'[r] = task[r]
    BY <1>0, <2>1 DEF Merging
  <2>4. QED
    BY <1>0, <2>1, <2>2, <2>3, Elsewhere
<1>8. ASSUME NEW s \in Sessions, RemoveLeftover(s) PROVE MergeInv'
  <2>1. UNCHANGED <<repo, bareBranch, bareMain, task, gated, done>> /\ pc[s] = "remove"
        /\ pc' = [pc EXCEPT ![s] = "clone"]
    BY <1>8 DEF RemoveLeftover, Step
  <2>2. pc'[s] = "clone" /\ Merging(s) /\ ~Provisioning(s)' /\ \A r \in Sessions : r # s => pc'[r] = pc[r]
    BY <1>0, <2>1 DEF Merging, Provisioning
  <2>3. (Cloned(s) /\ Gated(s) /\ Pushable(s))'
    BY <2>2 DEF Cloned, Gated, Pushable
  <2>4. QED
    BY <1>0, <1>a, <2>1, <2>2, <2>3, OnlyMerger
<1>9. ASSUME NEW s \in Sessions, Clone(s) PROVE MergeInv'
  <2>1. UNCHANGED <<repo, bareBranch, bareMain, task, gated, done>> /\ pc[s] = "clone"
        /\ pc' = [pc EXCEPT ![s] = "checkout"]
        /\ ws' = [main |-> bareMain, branch |-> bareBranch, head |-> "main", staged |-> {}]
    BY <1>9 DEF Clone, Step
  <2>2. pc'[s] = "checkout" /\ Merging(s) /\ ~Provisioning(s)' /\ \A r \in Sessions : r # s => pc'[r] = pc[r]
    BY <1>0, <2>1 DEF Merging, Provisioning
  <2>3. ws'.main = bareMain /\ ws'.branch = bareBranch /\ ws'.head = "main" /\ ws'.staged = {}
    BY <2>1
  <2>4. (Cloned(s) /\ Gated(s) /\ Pushable(s))'
    BY <1>0, <2>2, <2>3 DEF Cloned, Gated, Pushable
  <2>5. QED
    BY <1>0, <1>a, <2>1, <2>2, <2>4, OnlyMerger
<1>10. ASSUME NEW s \in Sessions, CheckoutBranch(s) \/ CheckoutMain(s) PROVE MergeInv'
  <2>1. UNCHANGED <<repo, bareBranch, bareMain, task, gated, done>> /\ ws # Nothing
        /\ \A r \in Sessions : r # s => pc'[r] = pc[r]
    BY <1>0, <1>10 DEF CheckoutBranch, CheckoutMain, Step
  <2>2. Merging(s) /\ ~Provisioning(s)' /\ Cloned(s) /\ Gated(s) /\ Pushable(s) /\ ws \in Clones
    BY <1>0, <1>10 DEF CheckoutBranch, CheckoutMain, Step, Merging, Provisioning, MergeInv
  <2>3. (Cloned(s) /\ Gated(s) /\ Pushable(s))'
    <3>1. CASE CheckoutBranch(s)
      <4>1. pc[s] = "checkout" /\ pc'[s] = "gate" /\ ws' = [ws EXCEPT !.head = task[s]]
        BY <1>0, <3>1 DEF CheckoutBranch, Step
      <4>2. ws'.main = ws.main /\ ws'.branch = ws.branch /\ ws'.staged = ws.staged /\ ws'.head = task[s]
        BY <2>2, <4>1 DEF Clones
      <4>3. QED
        BY <2>1, <2>2, <4>1, <4>2 DEF Cloned, Gated, Pushable
    <3>2. CASE CheckoutMain(s)
      <4>1. pc[s] = "main" /\ pc'[s] = "squash" /\ ws' = [ws EXCEPT !.head = "main"]
        BY <1>0, <3>2 DEF CheckoutMain, Step
      <4>2. ws'.main = ws.main /\ ws'.branch = ws.branch /\ ws'.staged = ws.staged /\ ws'.head = "main"
        BY <2>2, <4>1 DEF Clones
      <4>3. QED
        BY <2>1, <2>2, <4>1, <4>2 DEF Cloned, Gated, Pushable
    <3>3. QED
      BY <1>10, <3>1, <3>2
  <2>4. QED
    BY <1>0, <1>a, <2>1, <2>2, <2>3, OnlyMerger
<1>11. ASSUME NEW s \in Sessions, GateGreen(s) PROVE MergeInv'
  <2>1. UNCHANGED <<repo, bareBranch, bareMain, ws, task, done>> /\ ws # Nothing /\ ws \in Clones
        /\ pc[s] = "gate" /\ pc'[s] = "main" /\ CheckedOut \in Green
        /\ gated' = [gated EXCEPT ![s] = CheckedOut]
        /\ \A r \in Sessions : r # s => pc'[r] = pc[r]
    BY <1>0, <1>11 DEF GateGreen, Step
  <2>2. Merging(s) /\ ~Provisioning(s)' /\ Cloned(s) /\ Gated(s) /\ Pushable(s) /\ task[s] \in WorkTasks
    BY <1>0, <2>1 DEF Merging, Provisioning, MergeInv
  <2>3. ws.head = task[s] /\ ws.staged = {} /\ task[s] # "main" /\ gated'[s] = CheckedOut
    BY <1>0, <2>1, <2>2, MainIsNoTask DEF Gated
  <2>4. CheckedOut = ws.branch[task[s]] /\ ws.branch[task[s]] # Nothing
    BY <2>1, <2>3, <2>2 DEF CheckedOut, HeadExists, Types
  <2>5. (Cloned(s) /\ Gated(s) /\ Pushable(s))'
    BY <2>1, <2>2, <2>3, <2>4 DEF Cloned, Gated, Pushable
  <2>6. QED
    BY <1>0, <1>a, <2>1, <2>2, <2>5, OnlyMerger
<1>12. ASSUME NEW s \in Sessions, Squash(s) PROVE MergeInv'
  <2>1. UNCHANGED <<repo, bareBranch, bareMain, task, gated, done>> /\ ws # Nothing /\ ws \in Clones
        /\ pc[s] = "squash" /\ pc'[s] = "commit"
        /\ ws' = [ws EXCEPT !.staged = @ \cup Unmerged(task[s])]
        /\ \A r \in Sessions : r # s => pc'[r] = pc[r]
    BY <1>0, <1>12 DEF Squash, Step
  <2>2. Merging(s) /\ ~Provisioning(s)' /\ Cloned(s) /\ Gated(s) /\ Pushable(s) /\ task[s] \in WorkTasks
    BY <1>0, <2>1 DEF Merging, Provisioning, MergeInv
  <2>3. ws.head = "main" /\ ws.staged = {}
    BY <2>1, <2>2 DEF Gated
  <2>4. Unmerged(task[s]) = ws.branch[task[s]] \ TreeOf(ws.main)
    BY <2>3 DEF Unmerged, CheckedOut
  <2>5. ws'.main = ws.main /\ ws'.branch = ws.branch /\ ws'.head = ws.head
        /\ ws'.staged = ws.branch[task[s]] \ TreeOf(ws.main)
    BY <2>1, <2>3, <2>4 DEF Clones
  <2>6. (Cloned(s) /\ Gated(s) /\ Pushable(s))'
    BY <2>1, <2>2, <2>3, <2>5 DEF Cloned, Gated, Pushable
  <2>7. QED
    BY <1>0, <1>a, <2>1, <2>2, <2>6, OnlyMerger
<1>13. ASSUME NEW s \in Sessions, CommitSquash(s) PROVE MergeInv'
  <2> DEFINE c == [task |-> task[s], adds |-> ws.staged, gated |-> gated[s]]
  <2>1. UNCHANGED <<repo, bareBranch, bareMain, task, gated, done>> /\ ws # Nothing /\ ws \in Clones
        /\ pc[s] = "commit" /\ pc'[s] = "push" /\ ws.staged # {}
        /\ \A r \in Sessions : r # s => pc'[r] = pc[r]
    BY <1>0, <1>13 DEF CommitSquash, Step, SomethingStaged
  <2>2. Merging(s) /\ ~Provisioning(s)' /\ Cloned(s) /\ Gated(s) /\ Pushable(s) /\ task[s] \in WorkTasks
    BY <1>0, <2>1 DEF Merging, Provisioning, MergeInv
  <2>3. /\ ws.head = "main" /\ ws.staged \subseteq ws.branch[task[s]] \ TreeOf(ws.main)
        /\ ws.branch[task[s]] \subseteq gated[s] /\ gated[s] \in Green /\ ws.branch[task[s]] # Nothing
        /\ AllSound(ws.main) /\ OwnWork(ws.branch, ws.main)
    BY <2>1, <2>2 DEF Gated, Cloned, Pushable
  <2>4. ws' = [ws EXCEPT !.staged = {}, !.main = Append(ws.main, c)]
    BY <1>13, <2>3 DEF CommitSquash
  <2>5. ws'.main = Append(ws.main, c) /\ ws'.branch = ws.branch
    BY <2>1, <2>4 DEF Clones
  <2>6. c \in Commit /\ ws.main \in Seq(Commit)
    BY <1>0, <2>1, <2>2 DEF Clones, Commit
  <2>7. Sound(c)
    BY <2>1, <2>2, <2>3 DEF Sound, OwnWork
  <2> HIDE DEF c
  <2>8. /\ \A n \in DOMAIN ws.main : n \in DOMAIN ws'.main /\ ws'.main[n] = ws.main[n]
        /\ Len(ws.main) + 1 \in DOMAIN ws'.main /\ ws'.main[Len(ws.main) + 1] = c
        /\ \A n \in DOMAIN ws'.main : n \in DOMAIN ws.main \/ n = Len(ws.main) + 1
        /\ ws'.main \in Seq(Commit)
    BY <2>5, <2>6, AppendCommit
  <2>9. AllSound(ws'.main)
    BY <2>3, <2>7, <2>8 DEF AllSound
  <2>10. OwnWork(ws'.branch, ws'.main)
    <3>1. TreeOf(ws.main) \subseteq TreeOf(ws'.main)
      BY <2>6, <2>8, TreeGrows
    <3>2. QED
      BY <2>3, <2>5, <3>1 DEF OwnWork
  <2>11. Lists(ws'.main, task[s])
    <3>1. c.task = task[s]
      BY DEF c
    <3>2. QED
      BY <2>8, <3>1 DEF Lists
  <2>12. (Cloned(s) /\ Gated(s) /\ Pushable(s))'
    BY <2>1, <2>9, <2>10, <2>11 DEF Cloned, Gated, Pushable
  <2>13. QED
    BY <1>0, <1>a, <2>1, <2>2, <2>12, OnlyMerger
<1>14. ASSUME NEW s \in Sessions, Push(s) PROVE MergeInv'
  <2>1. UNCHANGED <<repo, bareBranch, ws, task, gated, done>> /\ ws # Nothing /\ ws \in Clones
        /\ pc[s] = "push" /\ pc'[s] = "clean" /\ IsPrefix(bareMain, ws.main) /\ bareMain' = ws.main
        /\ \A r \in Sessions : r # s => pc'[r] = pc[r]
    BY <1>0, <1>14 DEF Push, LocalMain, Step
  <2>2. Merging(s) /\ ~Provisioning(s)' /\ Cloned(s) /\ Gated(s) /\ Pushable(s)
    BY <1>0, <2>1 DEF Merging, Provisioning, MergeInv
  <2>3. AllSound(bareMain') /\ Lists(bareMain', task[s]) /\ bareMain' \in Seq(Commit)
    BY <2>1, <2>2 DEF Cloned, Pushable, Clones
  <2>4. \A n \in DOMAIN bareMain : n \in DOMAIN bareMain' /\ bareMain'[n] = bareMain[n]
    BY <1>0, <2>1, <2>3, PrefixElements
  <2>5. OwnWork(bareBranch, bareMain')
    <3>1. TreeOf(bareMain) \subseteq TreeOf(bareMain')
      BY <1>0, <2>3, <2>4, TreeGrows
    <3>2. QED
      BY <1>0, <3>1 DEF OwnWork
  <2>6. \A t \in done' : Lists(bareMain', t)
    BY <1>0, <2>1, <2>4 DEF Lists
  <2>7. (Cloned(s) /\ Gated(s) /\ Pushable(s))'
    BY <2>1, <2>3 DEF Cloned, Gated, Pushable
  <2>8. QED
    BY <1>0, <1>a, <2>1, <2>2, <2>3, <2>5, <2>6, <2>7, OnlyMerger
<1>15. ASSUME NEW s \in Sessions, Finish(s) PROVE MergeInv'
  <2>1. UNCHANGED <<repo, bareBranch, bareMain, task, gated>> /\ done' = done \cup {task[s]}
        /\ pc[s] = "clean" /\ pc'[s] = "idle" /\ \A r \in Sessions : r # s => pc'[r] = pc[r]
    BY <1>0, <1>15 DEF Finish, Step
  <2>2. Merging(s) /\ ~Provisioning(s)' /\ Pushable(s)
    BY <1>0, <2>1 DEF Merging, Provisioning, MergeInv
  <2>3. \A t \in done' : Lists(bareMain', t)
    BY <1>0, <2>1, <2>2 DEF Pushable
  <2>4. (Cloned(s) /\ Gated(s) /\ Pushable(s))'
    BY <2>1 DEF Cloned, Gated, Pushable
  <2>5. QED
    BY <1>0, <1>a, <2>1, <2>2, <2>3, <2>4, OnlyMerger
<1>16. ASSUME NEW x \in Changes, PushCommit(x) PROVE MergeInv'
  <2>1. UNCHANGED <<repo, bareMain, ws, pc, task, gated, done>>
        /\ bareBranch' = [bareBranch EXCEPT ![Author[x]] = @ \cup {x}] /\ bareBranch[Author[x]] # Nothing
    BY <1>16 DEF PushCommit
  <2>2. OwnWork(bareBranch', bareMain)
    BY <1>0, <2>1, AuthorIsTask DEF OwnWork
  <2>3. Apart'
    BY <1>0, <2>1 DEF Apart, Provisioning, Merging
  <2>4. QED
    BY <2>1, <2>2, <2>3, Elsewhere
<1>17. CASE UNCHANGED mergeVars
  <2>1. UNCHANGED <<repo, bareBranch, bareMain, ws, pc, task, gated, done>>
    BY <1>17 DEF mergeVars
  <2>2. Apart' /\ OwnWork(bareBranch', bareMain)
    BY <1>0, <2>1 DEF Apart, Provisioning, Merging
  <2>3. QED
    BY <2>1, <2>2, Elsewhere
<1>18. QED
  BY <1>1, <1>2, <1>3, <1>4, <1>5, <1>6, <1>7, <1>8, <1>9, <1>10, <1>11, <1>12, <1>13, <1>14,
     <1>15, <1>16, <1>17 DEF NextMerges

-----------------------------------------------------------------------------
LEMMA InitInv == InitMerges => Inv
<1> SUFFICES ASSUME InitMerges PROVE Inv
  OBVIOUS
<1>1. Types
  <2>0. bareMain \in Seq(Commit) /\ repo \in {"absent", "bare", "rooted"}
    BY DEF InitMerges
  <2>1. /\ ws = Nothing /\ bareBranch \in [WorkTasks -> Trees] /\ done \subseteq WorkTasks
        /\ overlapped \in BOOLEAN
    BY DEF InitMerges, Trees
  <2>2. pc \in [Sessions -> Steps] /\ (\A s \in Sessions : pc[s] = "idle")
        /\ task \in [Sessions -> WorkTasks \cup {Nothing}] /\ gated \in [Sessions -> SUBSET Changes]
    BY DEF InitMerges, Steps
  <2>3. QED
    BY <2>0, <2>1, <2>2 DEF Types
<1>2. RootFirst
  BY DEF InitMerges, RootFirst, Merging
<1>3. MergeInv
  <2>1. Apart
    BY DEF InitMerges, Apart, Provisioning, Merging
  <2>2. AllSound(bareMain) /\ OwnWork(bareBranch, bareMain) /\ \A t \in done : Lists(bareMain, t)
    BY DEF InitMerges, AllSound, OwnWork
  <2>3. \A s \in Sessions : Cloned(s) /\ Gated(s) /\ Pushable(s)
    BY DEF InitMerges, Cloned, Gated, Pushable
  <2>4. QED
    BY <2>1, <2>2, <2>3 DEF MergeInv
<1>4. QED
  BY <1>1, <1>2, <1>3 DEF Inv

(* An overlap is never forgotten.                                          *)
LEMMA OverlapStays == overlapped \in BOOLEAN /\ [NextMerges]_mergeVars /\ ~overlapped' => ~overlapped
BY DEF NextMerges, BeginClaim, BeginComplete, FindRepo, InitRepo, RootCommit, EnsureBranch,
       NoBase, RemoveLeftover, Clone, CheckoutBranch, GateGreen, CheckoutMain, Squash,
       CommitSquash, Push, Finish, Refuse, Die, Fail, PushCommit, mergeVars

LEMMA InvStep == Inv /\ [NextMerges]_mergeVars => Inv'
<1> SUFFICES ASSUME Inv, [NextMerges]_mergeVars PROVE Inv'
  OBVIOUS
<1>1. Types' /\ RootFirst'
  BY TypesStep, RootStep DEF Inv
<1>2. ~overlapped' => MergeInv'
  BY MergeStep, OverlapStays DEF Inv, Types
<1>3. QED
  BY <1>1, <1>2 DEF Inv

LEMMA Invariance == SpecMerges => []Inv
BY InitInv, InvStep, PTL DEF SpecMerges

(* Whatever claims and pushes of work run beside a complete, and wherever  *)
(* sessions die: main holds what its gates passed, each commit the changes *)
(* of its task, and every task reported done, until two completes share    *)
(* the workspace or two sessions provision at once.                        *)
THEOREM MainHoldsWhatTheGatePassed == SpecMerges => []MainIsAsGated
<1>1. Inv => MainIsAsGated
  <2> SUFFICES ASSUME Inv PROVE MainIsAsGated
    OBVIOUS
  <2>1. RepoTypeOK
    BY DEF Inv, Types, RepoTypeOK, Trees, Clones
  <2>2. ASSUME ~overlapped PROVE GateSawWhatLanded /\ CommitIsItsTasks /\ DoneIsOnMain
    BY <2>2 DEF Inv, MergeInv, AllSound, Sound, Lists, GateSawWhatLanded, CommitIsItsTasks,
                DoneIsOnMain
  <2>3. QED
    BY <2>1, <2>2 DEF MainIsAsGated
<1>2. QED
  BY <1>1, Invariance, PTL

(* No push rewrites a commit of main and no provisioning resets it, unless *)
(* two sessions provisioned at once.                                       *)
THEOREM MainIsNeverRewritten == SpecMerges => MainOnlyGrows
<1>1. Inv /\ [NextMerges]_mergeVars => [~overlapped' => IsPrefix(bareMain, bareMain')]_mergeVars
  <2> SUFFICES ASSUME Inv, [NextMerges]_mergeVars, ~overlapped' PROVE IsPrefix(bareMain, bareMain')
    OBVIOUS
  <2>1. bareMain \in Seq(Commit) /\ Apart
    BY OverlapStays DEF Inv, Types, MergeInv
  <2>2. CASE bareMain' = bareMain
    BY <2>1, <2>2, PrefixOfItself
  <2>3. ASSUME NEW s \in Sessions, Push(s) PROVE IsPrefix(bareMain, bareMain')
    BY <2>3 DEF Push, LocalMain
  <2>4. ASSUME NEW s \in Sessions, RootCommit(s) PROVE bareMain' = bareMain
    BY <2>1, <2>4 DEF RootCommit, Step, Apart, Provisioning, Inv, RootFirst
  <2>5. QED
    BY <2>2, <2>3, <2>4
       DEF NextMerges, BeginClaim, BeginComplete, FindRepo, InitRepo, EnsureBranch, NoBase,
           RemoveLeftover, Clone, CheckoutBranch, GateGreen, CheckoutMain, Squash, CommitSquash,
           Finish, Refuse, Die, Fail, PushCommit, mergeVars
<1>2. QED
  BY <1>1, Invariance, PTL DEF SpecMerges, MainOnlyGrows

----------------------------------------------------------------------------
(* The doors.                                                              *)

USE ClassesDisjoint, ParentIsOneClassUp, NoSealIsNoBody

(* The parent of an item is an item, one class up, and the project of a    *)
(* task is a project.                                                      *)
LEMMA ParentIsItem ==
  /\ \A i \in Stories \cup Tasks : Parent[i] \in Items /\ Parent[i] # i
  /\ \A s \in Stories : Parent[s] \in Projects
  /\ \A t \in Tasks : Parent[t] \in Stories
  /\ \A t \in Tasks : ProjectOf(t) \in Projects
BY DEF Items, ProjectOf

(* A subtree is closed downwards: it holds the children of its members.    *)
LEMMA SubtreeDownClosed ==
  ASSUME NEW i \in Items, NEW j \in Stories \cup Tasks, Parent[j] \in Subtree(i)
  PROVE  j \in Subtree(i)
BY ParentIsItem DEF Subtree, Items, ProjectOf

(* What the rule table asks of the item and of its parent, per target.     *)
LEMMA AllowedFacts ==
  ASSUME NEW i \in Items, NEW actor \in Actor, NEW to \in Status,
         Allowed(i, actor, to)
  PROVE  /\ status[i] \notin Terminal \cup {"absent"}
         /\ to = "ready" => /\ status[i] = "draft"
                            /\ i \notin Projects => status[Parent[i]] \in SignedOpen
         /\ to = "in-progress" => status[i] = "ready"
         /\ to = "done" => status[i] \in SignedOpen
         /\ to = "done" /\ i \notin Tasks => /\ ChildrenStatuses(i) \subseteq Terminal
                                             /\ "done" \in ChildrenStatuses(i)
<1>1. to = "ready" /\ i \notin Projects => ClassOf(i) # "project"
  BY DEF ClassOf
<1>2. to = "done" /\ i \notin Tasks => ClassOf(i) # "task"
  BY DEF ClassOf, Items
<1>3. QED
  BY <1>1, <1>2 DEF Allowed, TransitionAllowed, SignoffRule, TaskDoneRule, CloseRule, ChildrenLanded,
     Terminal, SignedOpen, ParentStatus, Status, Actor

-----------------------------------------------------------------------------
(* Types.                                                                  *)

(* Every variable keeps its type: the statuses, seals and branches the     *)
(* verbs write, and the squash commits they push, are of the kinds         *)
(* declared.                                                               *)
THEOREM TypeCorrect == Spec => []TypeOK
<1>1. Init => TypeOK
  BY DEF Init, TypeOK
<1>2. TypeOK /\ [Next]_vars => TypeOK'
  <2> SUFFICES ASSUME TypeOK, [Next]_vars PROVE TypeOK'
    OBVIOUS
  <2> USE DEF TypeOK
  <2>1. ASSUME NEW i \in Items, BounceSubtree(i) PROVE TypeOK'
    BY <2>1 DEF BounceSubtree, BounceHits, Stripped, Status
  <2>2. ASSUME NEW i \in Items, NEW b \in Bodies, New(i, b) PROVE TypeOK'
    BY <2>2 DEF New, Status
  <2>3. ASSUME NEW i \in Items, NEW b \in Bodies, EditBody(i, b) PROVE TypeOK'
    BY <2>3 DEF EditBody
  <2>4. ASSUME NEW i \in Items, Signoff(i) PROVE TypeOK'
    BY <2>4 DEF Signoff, Status
  <2>5. ASSUME NEW i \in Items, NEW actor \in Caller, Close(i, actor) PROVE TypeOK'
    BY <2>5 DEF Close, Status
  <2>6. ASSUME NEW i \in Items, NEW actor \in Caller, Cancel(i, actor) PROVE TypeOK'
    BY <2>6 DEF Cancel, Status
  <2>7. ASSUME NEW t \in Tasks, NEW actor \in Caller, Claim(t, actor) PROVE TypeOK'
    BY <2>7 DEF Claim, Status, Items
  <2>8. ASSUME NEW t \in Tasks, Complete(t) PROVE TypeOK'
    <3>1. ProjectOf(t) \in Projects
      BY ParentIsItem
    <3>2. Append(main[ProjectOf(t)], t) \in Seq(Tasks)
      BY <3>1
    <3>3. QED
      BY <2>8, <3>1, <3>2 DEF Complete, Squashed, Status, Items
  <2>9. ASSUME NEW t \in Tasks, PushWork(t) PROVE TypeOK'
    BY <2>9 DEF PushWork
  <2>10. CASE UNCHANGED vars
    BY <2>10 DEF vars
  <2>11. QED
    BY <2>1, <2>2, <2>3, <2>4, <2>5, <2>6, <2>7, <2>8, <2>9, <2>10
    DEF Next, Bounce, ForcedBounce
<1>3. QED
  BY <1>1, <1>2, PTL DEF Spec

-----------------------------------------------------------------------------
(* The promises, one step lemma each.                                      *)

(* Under every status change a step can make, an open child keeps an open  *)
(* parent: a bounce and a cancel take the whole subtree, a close waits for *)
(* terminal children, a sign-off and a claim find the parent open.         *)
LEMMA DownhillStep == TypeOK /\ Downhill /\ [Next]_vars => Downhill'
<1> SUFFICES ASSUME TypeOK, Downhill, [Next]_vars,
                    NEW j \in Stories \cup Tasks, status'[j] \in SignedOpen
             PROVE  status'[Parent[j]] \in SignedOpen
  BY DEF Downhill
<1>0. j \in Items /\ Parent[j] \in Items /\ Parent[j] # j
  BY ParentIsItem DEF Items
<1>1. ASSUME NEW i \in Items, BounceSubtree(i) PROVE status'[Parent[j]] \in SignedOpen
  <2>1. status[j] \in SignedOpen /\ j \notin Subtree(i)
    BY <1>0, <1>1 DEF BounceSubtree, BounceHits, Stripped, SignedOpen
  <2>2. Parent[j] \notin Subtree(i)
    BY <2>1, SubtreeDownClosed
  <2>3. QED
    BY <1>0, <1>1, <2>1, <2>2 DEF BounceSubtree, BounceHits, Stripped, Downhill
<1>2. ASSUME NEW i \in Items, NEW b \in Bodies, New(i, b)
      PROVE  status'[Parent[j]] \in SignedOpen
  BY <1>0, <1>2 DEF New, TypeOK, Downhill, SignedOpen
<1>3. ASSUME NEW i \in Items, Signoff(i) PROVE status'[Parent[j]] \in SignedOpen
  <2>1. j = i => status[Parent[j]] \in SignedOpen
    <3>1. i \notin Projects => status[Parent[i]] \in SignedOpen
      BY <1>3, AllowedFacts DEF Signoff, Actor, Status
    <3>2. QED
      BY <3>1
  <2>2. QED
    BY <1>0, <1>3, <2>1 DEF Signoff, TypeOK, Downhill, SignedOpen
<1>4. ASSUME NEW i \in Items, NEW actor \in Caller, Close(i, actor)
      PROVE  status'[Parent[j]] \in SignedOpen
  <2>1. status[j] \in SignedOpen /\ j # i
    BY <1>0, <1>4 DEF Close, TypeOK, SignedOpen
  <2>2. Parent[j] # i
    <3>1. ChildrenStatuses(i) \subseteq Terminal
      BY <1>4, AllowedFacts DEF Close, Actor, Caller, Status
    <3>2. Parent[j] = i => status[j] \in ChildrenStatuses(i)
      BY <2>1 DEF ChildrenStatuses, Children, SignedOpen
    <3>3. QED
      BY <2>1, <3>1, <3>2 DEF Terminal, SignedOpen
  <2>3. QED
    BY <1>0, <1>4, <2>1, <2>2 DEF Close, TypeOK, Downhill
<1>5. ASSUME NEW i \in Items, NEW actor \in Caller, Cancel(i, actor)
      PROVE  status'[Parent[j]] \in SignedOpen
  <2>1. status[j] \in SignedOpen /\ j \notin Subtree(i)
    BY <1>0, <1>5 DEF Cancel, SignedOpen, Terminal
  <2>2. Parent[j] \notin Subtree(i)
    BY <2>1, SubtreeDownClosed
  <2>3. QED
    BY <1>0, <1>5, <2>1, <2>2 DEF Cancel, Downhill
<1>6. ASSUME NEW t \in Tasks, NEW actor \in Caller, Claim(t, actor)
      PROVE  status'[Parent[j]] \in SignedOpen
  <2>1. status[t] = "ready"
    BY <1>6, AllowedFacts DEF Claim, Actor, Caller, Status, Items
  <2>2. QED
    BY <1>0, <1>6, <2>1 DEF Claim, TypeOK, Downhill, SignedOpen
<1>7. ASSUME NEW t \in Tasks, Complete(t) PROVE status'[Parent[j]] \in SignedOpen
  <2>1. Parent[j] # t
    BY ParentIsItem
  <2>2. QED
    BY <1>0, <1>7, <2>1 DEF Complete, Squashed, TypeOK, Downhill, SignedOpen
<1>8. CASE UNCHANGED status
  BY <1>0, <1>8 DEF Downhill
<1>9. QED
  BY <1>1, <1>2, <1>3, <1>4, <1>5, <1>6, <1>7, <1>8
  DEF Next, Bounce, ForcedBounce, EditBody, PushWork, vars

(* A status that opens an item seals it in the same write, and a bounce    *)
(* strips what it drafts.                                                  *)
LEMMA SealStep == TypeOK /\ SealedIffSigned /\ [Next]_vars => SealedIffSigned'
<1> SUFFICES ASSUME TypeOK, SealedIffSigned, [Next]_vars, NEW j \in Items
             PROVE  /\ status'[j] \in SignedOpen \cup {"done"} => seal'[j] # NoSeal
                    /\ status'[j] \in {"absent", "draft"} => seal'[j] = NoSeal
  BY DEF SealedIffSigned
<1> DEFINE Goal == /\ status'[j] \in SignedOpen \cup {"done"} => seal'[j] # NoSeal
                   /\ status'[j] \in {"absent", "draft"} => seal'[j] = NoSeal
<1> USE DEF SealedIffSigned, TypeOK, SignedOpen
<1>1. ASSUME NEW i \in Items, BounceSubtree(i) PROVE Goal
  BY <1>1 DEF BounceSubtree, BounceHits, Stripped
<1>2. ASSUME NEW i \in Items, NEW b \in Bodies, New(i, b) PROVE Goal
  BY <1>2 DEF New
<1>3. ASSUME NEW i \in Items, Signoff(i) PROVE Goal
  BY <1>3 DEF Signoff
<1>4. ASSUME NEW i \in Items, NEW actor \in Caller, Close(i, actor) PROVE Goal
  <2>1. status[i] \in SignedOpen
    BY <1>4, AllowedFacts DEF Close, Actor, Caller, Status
  <2>2. QED
    BY <1>4, <2>1 DEF Close
<1>5. ASSUME NEW i \in Items, NEW actor \in Caller, Cancel(i, actor) PROVE Goal
  BY <1>5 DEF Cancel, Terminal
<1>6. ASSUME NEW t \in Tasks, NEW actor \in Caller, Claim(t, actor) PROVE Goal
  <2>1. status[t] = "ready" /\ t \in Items
    BY <1>6, AllowedFacts DEF Claim, Actor, Caller, Status, Items
  <2>2. QED
    BY <1>6, <2>1 DEF Claim
<1>7. ASSUME NEW t \in Tasks, Complete(t) PROVE Goal
  <2>1. status[t] \in SignedOpen /\ t \in Items
    BY <1>7, AllowedFacts DEF Complete, Squashed, Actor, Status, Items
  <2>2. QED
    BY <1>7, <2>1 DEF Complete, Squashed
<1>8. CASE UNCHANGED <<status, seal>>
  BY <1>8
<1>9. QED
  BY <1>1, <1>2, <1>3, <1>4, <1>5, <1>6, <1>7, <1>8
  DEF Next, Bounce, ForcedBounce, EditBody, PushWork, vars

(* A done story or project keeps its landed child, which is terminal, and  *)
(* gains no open one: a child opens only under an open parent.             *)
LEMMA UphillStep ==
  TypeOK /\ Downhill /\ Uphill /\ [Next]_vars => Uphill'
<1> SUFFICES ASSUME TypeOK, Downhill, Uphill, [Next]_vars,
                    NEW k \in Projects \cup Stories, status'[k] = "done"
             PROVE  /\ \A j \in Children(k)' : status'[j] \notin SignedOpen
                    /\ \E j \in Children(k)' : status'[j] = "done"
  BY DEF Uphill
<1> DEFINE Kids == {j \in Stories \cup Tasks : Parent[j] = k}
<1>0. k \in Items /\ Kids \subseteq Items /\ k \notin Kids
  BY ParentIsItem DEF Items
<1>1. SUFFICES /\ \A j \in Kids : status'[j] \notin SignedOpen
               /\ \E j \in Kids : status'[j] = "done"
  BY DEF Children
<1> DEFINE Was == /\ \A j \in Kids : status[j] \notin SignedOpen
                  /\ \E j \in Kids : status[j] = "done"
           Goal == /\ \A j \in Kids : status'[j] \notin SignedOpen
                   /\ \E j \in Kids : status'[j] = "done"
<1>2. status[k] = "done" => Was
  BY DEF Uphill, Children, SignedOpen
<1>3. \A j \in Kids : status[j] \in SignedOpen => status[k] \in SignedOpen
  BY DEF Downhill
<1>4. ASSUME NEW i \in Items, BounceSubtree(i) PROVE Goal
  <2>1. status[k] = "done"
    BY <1>0, <1>4 DEF BounceSubtree, BounceHits, Stripped
  <2>2. QED
    BY <1>0, <1>2, <1>4, <2>1 DEF BounceSubtree, BounceHits, Stripped, SignedOpen
<1>5. ASSUME NEW i \in Items, NEW b \in Bodies, New(i, b) PROVE Goal
  <2>1. status[k] = "done"
    BY <1>0, <1>5 DEF New, TypeOK
  <2>2. QED
    BY <1>0, <1>2, <1>5, <2>1 DEF New, TypeOK, SignedOpen
<1>6. ASSUME NEW i \in Items, Signoff(i) PROVE Goal
  <2>1. status[k] = "done"
    BY <1>0, <1>6 DEF Signoff, TypeOK
  <2>2. status[i] = "draft" /\ (i \notin Projects => status[Parent[i]] \in SignedOpen)
    BY <1>6, AllowedFacts DEF Signoff, Actor, Status
  <2>3. i \notin Kids
    <3>1. i \in Kids => i \notin Projects
      BY ClassesDisjoint
    <3>2. QED
      BY <2>1, <2>2, <3>1 DEF SignedOpen
  <2>4. QED
    BY <1>0, <1>2, <1>6, <2>1, <2>3 DEF Signoff, TypeOK
<1>7. ASSUME NEW i \in Items, NEW actor \in Caller, Close(i, actor) PROVE Goal
  <2>1. /\ status[i] \in SignedOpen
        /\ ChildrenStatuses(i) \subseteq Terminal
        /\ "done" \in ChildrenStatuses(i)
    BY <1>7, AllowedFacts DEF Close, Actor, Caller, Status
  <2>2. CASE i = k
    <3>1. \A j \in Kids : status[j] # "absent" => status[j] \in Terminal
      BY <2>1, <2>2 DEF ChildrenStatuses, Children
    <3>2. PICK j \in Kids : status[j] = "done"
      BY <2>1, <2>2 DEF ChildrenStatuses, Children
    <3>3. \A l \in Kids : status'[l] = status[l]
      BY <1>0, <1>7, <2>2 DEF Close, TypeOK
    <3>4. QED
      BY <3>1, <3>2, <3>3 DEF Terminal, SignedOpen
  <2>3. CASE i # k
    <3>1. status[k] = "done"
      BY <1>0, <1>7, <2>3 DEF Close, TypeOK
    <3>2. QED
      BY <1>0, <1>2, <1>7, <3>1 DEF Close, TypeOK, SignedOpen
  <2>4. QED
    BY <2>2, <2>3
<1>8. ASSUME NEW i \in Items, NEW actor \in Caller, Cancel(i, actor) PROVE Goal
  <2>1. status[k] = "done"
    BY <1>0, <1>8 DEF Cancel
  <2>2. QED
    BY <1>0, <1>2, <1>8, <2>1 DEF Cancel, Terminal, SignedOpen
<1>9. ASSUME NEW t \in Tasks, NEW actor \in Caller, Claim(t, actor) PROVE Goal
  <2>1. status[t] = "ready" /\ t \in Items
    BY <1>9, AllowedFacts DEF Claim, Actor, Caller, Status, Items
  <2>2. status[k] = "done" /\ t # k
    BY <1>0, <1>9, <2>1 DEF Claim, TypeOK
  <2>3. t \notin Kids
    BY <1>2, <2>1, <2>2 DEF SignedOpen
  <2>4. QED
    BY <1>0, <1>2, <1>9, <2>2, <2>3 DEF Claim, TypeOK
<1>10. ASSUME NEW t \in Tasks, Complete(t) PROVE Goal
  <2>1. status[t] = "in-progress" \/ status[t] = "ready"
    BY <1>10, AllowedFacts DEF Complete, Squashed, Actor, Status, Items, SignedOpen
  <2>2. t # k /\ t \in Items
    BY ClassesDisjoint DEF Items
  <2>3. status[k] = "done"
    BY <1>0, <1>10, <2>2 DEF Complete, Squashed, TypeOK
  <2>4. QED
    BY <1>0, <1>2, <1>10, <2>2, <2>3 DEF Complete, Squashed, TypeOK, SignedOpen
<1>11. CASE UNCHANGED status
  BY <1>2, <1>11
<1>12. QED
  BY <1>4, <1>5, <1>6, <1>7, <1>8, <1>9, <1>10, <1>11
  DEF Next, Bounce, ForcedBounce, EditBody, PushWork, vars

(* Only the merge door writes done on a task, in the step that pushes its  *)
(* commit; it finds the task in progress, hence with no commit yet.        *)
LEMMA LandedStep == TypeOK /\ DoneIffLanded /\ [Next]_vars => DoneIffLanded'
<1> SUFFICES ASSUME TypeOK, DoneIffLanded, [Next]_vars PROVE DoneIffLanded'
  OBVIOUS
<1>0. \A t \in Tasks : t \in Items
  BY DEF Items
<1>1. ASSUME UNCHANGED main, \A t \in Tasks : status'[t] = "done" <=> status[t] = "done"
      PROVE  DoneIffLanded'
  BY <1>1 DEF DoneIffLanded, ProjectOf
<1>2. ASSUME NEW i \in Items, BounceSubtree(i) PROVE DoneIffLanded'
  BY <1>0, <1>1, <1>2 DEF BounceSubtree, BounceHits, Stripped, SignedOpen
<1>3. ASSUME NEW i \in Items, NEW b \in Bodies, New(i, b) PROVE DoneIffLanded'
  BY <1>0, <1>1, <1>3 DEF New, TypeOK
<1>4. ASSUME NEW i \in Items, Signoff(i) PROVE DoneIffLanded'
  <2>1. status[i] = "draft"
    BY <1>4, AllowedFacts DEF Signoff, Actor, Status
  <2>2. QED
    BY <1>0, <1>1, <1>4, <2>1 DEF Signoff, TypeOK
<1>5. ASSUME NEW i \in Items, NEW actor \in Caller, Close(i, actor) PROVE DoneIffLanded'
  BY <1>0, <1>1, <1>5 DEF Close, TypeOK
<1>6. ASSUME NEW i \in Items, NEW actor \in Caller, Cancel(i, actor) PROVE DoneIffLanded'
  BY <1>0, <1>1, <1>6 DEF Cancel, Terminal
<1>7. ASSUME NEW t \in Tasks, NEW actor \in Caller, Claim(t, actor) PROVE DoneIffLanded'
  <2>1. status[t] = "ready"
    BY <1>0, <1>7, AllowedFacts DEF Claim, Actor, Caller, Status
  <2>2. QED
    BY <1>0, <1>1, <1>7, <2>1 DEF Claim, TypeOK
<1>8. ASSUME NEW t \in Tasks, Complete(t) PROVE DoneIffLanded'
  <2> DEFINE q == ProjectOf(t)
  <2>1. status[t] # "done"
    BY <1>0, <1>8, AllowedFacts DEF Complete, Squashed, Actor, Status, SignedOpen
  <2>2. q \in Projects /\ main[q] \in Seq(Tasks)
    BY ParentIsItem DEF TypeOK
  <2>3. /\ main'[q] = Append(main[q], t)
        /\ \A p \in Projects \ {q} : main'[p] = main[p]
        /\ \A u \in Tasks : status'[u] = IF u = t THEN "done" ELSE status[u]
    BY <1>0, <1>8, <2>2 DEF Complete, Squashed, TypeOK
  <2>4. /\ Len(main'[q]) = Len(main[q]) + 1
        /\ \A n \in 1..Len(main[q]) : main'[q][n] = main[q][n]
        /\ main'[q][Len(main[q]) + 1] = t
    BY <2>2, <2>3
  <2>5. \A n \in 1..Len(main[q]) : main[q][n] # t
    BY <2>1 DEF DoneIffLanded
  <2>6. \A n \in 1..Len(main'[q]) : n \in 1..Len(main[q]) \/ n = Len(main[q]) + 1
    BY <2>2, <2>4
  <2>7. ASSUME NEW p \in Projects, NEW m \in 1..Len(main'[p]), NEW n \in 1..Len(main'[p]),
               main'[p][m] = main'[p][n]
        PROVE  m = n
    <3>1. CASE p # q
      BY <2>3, <2>7, <3>1 DEF DoneIffLanded
    <3>2. CASE p = q
      <4>1. \A k, l \in 1..Len(main[q]) : main[q][k] = main[q][l] => k = l
        BY <2>2 DEF DoneIffLanded
      <4>2. /\ m \in 1..Len(main[q]) \/ m = Len(main[q]) + 1
            /\ n \in 1..Len(main[q]) \/ n = Len(main[q]) + 1
        BY <2>6, <3>2
      <4>3. QED
        BY <2>4, <2>5, <2>7, <3>2, <4>1, <4>2
    <3>3. QED
      BY <3>1, <3>2
  <2>8. ASSUME NEW u \in Tasks
        PROVE  status'[u] = "done" <=>
                 \E n \in 1..Len(main'[ProjectOf(u)]) : main'[ProjectOf(u)][n] = u
    <3>1. CASE u = t
      BY <2>2, <2>3, <2>4, <3>1
    <3>2. CASE u # t /\ ProjectOf(u) = q
      <4>1. status'[u] = status[u]
        BY <2>3, <3>2
      <4>2. status[u] = "done" <=> \E n \in 1..Len(main[q]) : main[q][n] = u
        BY <3>2 DEF DoneIffLanded
      <4>3. ASSUME NEW n \in 1..Len(main[q]) PROVE n \in 1..Len(main'[q])
        BY <2>2, <2>4
      <4>4. (\E n \in 1..Len(main'[q]) : main'[q][n] = u)
              <=> \E n \in 1..Len(main[q]) : main[q][n] = u
        BY <2>4, <2>6, <3>2, <4>3
      <4>5. QED
        BY <3>2, <4>1, <4>2, <4>4
    <3>3. CASE ProjectOf(u) # q
      BY <2>3, <3>3, ParentIsItem DEF DoneIffLanded
    <3>4. QED
      BY <3>1, <3>2, <3>3
  <2>9. QED
    BY <2>7, <2>8 DEF DoneIffLanded, ProjectOf
<1>9. CASE UNCHANGED <<status, main>>
  BY <1>1, <1>9
<1>10. QED
  BY <1>2, <1>3, <1>4, <1>5, <1>6, <1>7, <1>8, <1>9
  DEF Next, Bounce, ForcedBounce, EditBody, PushWork, vars

-----------------------------------------------------------------------------
(* Nothing stays executable under an unsigned parent, an open item is      *)
(* sealed and a draft is not, done flows uphill, and a task is done        *)
(* exactly when its one squash commit is on main: for every tree, in every *)
(* state the doors can reach one call at a time.                           *)
THEOREM DoorsKeepPromises ==
  Spec => []DoorsAgree
<1> DEFINE Promises == Downhill /\ SealedIffSigned /\ Uphill /\ DoneIffLanded
<1>1. Init => Promises
  BY ParentIsItem
  DEF Init, Downhill, SealedIffSigned, Uphill, DoneIffLanded, SignedOpen, Items
<1>2. TypeOK /\ Promises /\ [Next]_vars => Promises'
  BY DownhillStep, SealStep, UphillStep, LandedStep
<1>3. QED
  BY <1>1, <1>2, TypeCorrect, PTL DEF Spec, DoorsAgree

(* What the merge door lands is a claimed task under the contract that was *)
(* signed, with its story and its project still signed: the door reads the *)
(* task alone, the rest is Downhill.                                       *)
THEOREM MergesAreSigned == Spec => LandingIsSigned
<1> DEFINE Landing ==
      \A p \in Projects : main'[p] # main[p] =>
        \E t \in Tasks :
          /\ ProjectOf(t) = p
          /\ main'[p] = Append(main[p], t)
          /\ status[t] = "in-progress" /\ seal[t] = body[t]
          /\ status[Parent[t]] \in SignedOpen
          /\ status[p] \in SignedOpen
<1>1. TypeOK /\ Downhill /\ [Next]_vars => [Landing]_vars
  <2> SUFFICES ASSUME TypeOK, Downhill, [Next]_vars, NEW p \in Projects,
                      main'[p] # main[p]
               PROVE  \E t \in Tasks :
                        /\ ProjectOf(t) = p
                        /\ main'[p] = Append(main[p], t)
                        /\ status[t] = "in-progress" /\ seal[t] = body[t]
                        /\ status[Parent[t]] \in SignedOpen
                        /\ status[p] \in SignedOpen
    OBVIOUS
  <2>1. PICK t \in Tasks : Complete(t)
    BY DEF Next, New, EditBody, Signoff, ForcedBounce, Bounce, BounceSubtree,
           Close, Cancel, Claim, PushWork, vars
  <2>2. ProjectOf(t) = p /\ main'[p] = Append(main[p], t)
    BY <2>1, ParentIsItem DEF Complete, Squashed, TypeOK
  <2>3. status[t] = "in-progress" /\ seal[t] = body[t]
    <3>1. ClassOf(t) = "task"
      BY DEF ClassOf
    <3>2. QED
      BY <2>1, <3>1 DEF Complete, Intact, Allowed, TransitionAllowed, TaskDoneRule
  <2>4. status[Parent[t]] \in SignedOpen
    BY <2>3 DEF Downhill, SignedOpen
  <2>5. status[ProjectOf(t)] \in SignedOpen
    BY <2>4, ParentIsItem DEF Downhill, ProjectOf
  <2>6. QED
    BY <2>2, <2>3, <2>4, <2>5
<1>2. Spec => []Downhill
  BY DoorsKeepPromises, PTL DEF DoorsAgree
<1>3. QED
  BY <1>1, <1>2, TypeCorrect, PTL DEF Spec, LandingIsSigned

(* A closed item never moves again, whatever cascades run above it.        *)
THEOREM ClosedItemsStay == Spec => TerminalFrozen
<1> DEFINE Frozen == \A i \in Items : status[i] \in Terminal =>
                        status'[i] = status[i] /\ seal'[i] = seal[i]
<1>1. TypeOK /\ [Next]_vars => [Frozen]_vars
  <2> SUFFICES ASSUME TypeOK, [Next]_vars, NEW j \in Items, status[j] \in Terminal
               PROVE  status'[j] = status[j] /\ seal'[j] = seal[j]
    OBVIOUS
  <2> DEFINE Kept == status'[j] = status[j] /\ seal'[j] = seal[j]
  <2>1. ASSUME NEW i \in Items, NEW actor \in Actor, NEW to \in Status, Allowed(i, actor, to)
        PROVE  i # j
    BY <2>1, AllowedFacts
  <2>2. ASSUME NEW i \in Items, BounceSubtree(i) PROVE Kept
    BY <2>2 DEF BounceSubtree, BounceHits, Stripped, Terminal, SignedOpen
  <2>3. ASSUME NEW i \in Items, NEW b \in Bodies, New(i, b) PROVE Kept
    BY <2>3 DEF New, TypeOK, Terminal
  <2>4. ASSUME NEW i \in Items, Signoff(i) PROVE Kept
    BY <2>1, <2>4 DEF Signoff, TypeOK, Actor, Status
  <2>5. ASSUME NEW i \in Items, NEW actor \in Caller, Close(i, actor) PROVE Kept
    BY <2>1, <2>5 DEF Close, TypeOK, Actor, Caller, Status
  <2>6. ASSUME NEW i \in Items, NEW actor \in Caller, Cancel(i, actor) PROVE Kept
    BY <2>6 DEF Cancel
  <2>7. ASSUME NEW t \in Tasks, NEW actor \in Caller, Claim(t, actor) PROVE Kept
    <3>1. t # j
      BY <2>1, <2>7 DEF Claim, Actor, Caller, Status, Items
    <3>2. QED
      BY <2>7, <3>1 DEF Claim, TypeOK
  <2>8. ASSUME NEW t \in Tasks, Complete(t) PROVE Kept
    <3>1. t # j
      BY <2>1, <2>8 DEF Complete, Squashed, Actor, Status, Items
    <3>2. QED
      BY <2>8, <3>1 DEF Complete, Squashed, TypeOK
  <2>9. CASE UNCHANGED <<status, seal>>
    BY <2>9
  <2>10. QED
    BY <2>2, <2>3, <2>4, <2>5, <2>6, <2>7, <2>8, <2>9
    DEF Next, Bounce, ForcedBounce, EditBody, PushWork, vars
<1>2. QED
  BY <1>1, TypeCorrect, PTL DEF Spec, TerminalFrozen

=============================================================================
