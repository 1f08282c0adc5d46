-------------------------- MODULE WikiIndexProofs --------------------------
(***************************************************************************)
(* Proofs about llm-wiki's index (WikiIndex) and the graph caches above it *)
(* (WikiGraphCache), for any engines, pages, types, contents and bounds.   *)
(***************************************************************************)
EXTENDS WikiIndex, WikiGraphCache, TLAPS, SequenceTheorems

Places == {"down", "opening", "idle", "diffing", "diffed", "indexed", "clearing", "cleared",
           "filled", "retyping", "retyped", "advancing", "recording"}
Holding == {"indexed", "cleared", "filled", "retyped", "advancing", "recording"}

Tasks == [for : {"none", "mount", "watch", "rebuild", "ingest", "commit"}, pages : SUBSET Pages,
          gone : SUBSET Pages, types : SUBSET Types, head : Nat,
          commit : Nat, raced : BOOLEAN, validated : BOOLEAN, warned : BOOLEAN]

WorkTypes ==
  /\ worktree \in Files /\ commits \in Seq(Files) /\ CurrentHead \in 1..MaxCommits
  /\ edits \in 0..MaxEdits /\ schema \in Versions /\ \A t \in Types : schema[t] <= edits
  /\ docs \in DocSets
  /\ lock \in Engines \cup {None} /\ wrote \in Engines \cup {None}
  /\ state \in [commit : Nat, types : Versions] \cup {None} /\ (Built => state.commit \in 1..CurrentHead)
  /\ registry \in [Engines -> Versions \cup {None}] /\ reader \in [Engines -> DocSets \cup {None}]
  /\ at \in [Engines -> Places] /\ task \in [Engines -> Tasks]
  /\ \A e \in Engines : at[e] # "down" => registry[e] # None
  /\ lock # None => at[lock] \in Holding

(* A registry that was compiled earlier knows no later version.            *)
Behind(v) == \A t \in Types : v[t] <= schema[t]

VersionsGrow == /\ Built => Behind(state.types)
                /\ \A e \in Engines : registry[e] # None => Behind(registry[e])

(* The page has one document, of its present type and text; where the      *)
(* versions v are those on disk, it was indexed under them.                *)
Fits(p, v) ==
  IF worktree[p] = None THEN docs[p] = {}
  ELSE \E d \in docs[p] :
         /\ docs[p] = {d} /\ d.type = worktree[p].type /\ d.text = worktree[p].text
         /\ IF Kind(worktree[p]) \in Types
            THEN v[Kind(worktree[p])] = schema[Kind(worktree[p])] => d.under = schema[Kind(worktree[p])]
            ELSE d.under = 0

(* While sound, one engine at a time works on the index, and there is one  *)
(* before anybody works on it otherwise than by rebuilding.                *)
OneHolder == \A e \in Engines : at[e] \in Holding => lock = e
BuiltFirst == \A e \in Engines : at[e] \notin {"down", "clearing", "cleared", "filled", "recording"} => Built

(* Where nothing is being rewritten, every page that no diff would name    *)
(* fits; and an engine at work knows the pages that will not when it has   *)
(* recorded HEAD.                                                          *)
Kept == Rewriting = {} /\ Built => \A p \in Pages \ Changed : Fits(p, state.types)

Diffed(e) ==
  /\ \A p \in Pages \ task[e].pages : commits[state.commit][p] = Tree[p]
  /\ \A p \in task[e].gone : worktree[p] = None \/ worktree[p] # Tree[p]

Indexing(e) == \A p \in Pages : worktree[p] = Tree[p] => Fits(p, registry[e])

Phases == \A e \in Engines :
  /\ at[e] = "diffed" => Diffed(e)
  /\ at[e] = "indexed" => state.types = registry[e]
  /\ at[e] \in {"indexed", "filled", "retyped", "advancing", "recording"} => Indexing(e)
  /\ at[e] \in {"advancing", "recording"} => task[e].head = CurrentHead

SoundInv == sound => OneHolder /\ BuiltFirst /\ Kept /\ Phases

IndexInv == WorkTypes /\ VersionsGrow /\ SoundInv

(* What an engine read as HEAD is a commit.                                *)
HeadsExist == \A e \in Recorders : task[e].head \in 1..CurrentHead

-----------------------------------------------------------------------------
(* Types.                                                                  *)

LEMMA TypesAreOK == WorkTypes => TypeOK
<1> SUFFICES ASSUME WorkTypes PROVE TypeOK
  OBVIOUS
<1>1. \A n \in 1..CurrentHead : commits[n] \in Files
  BY DEF WorkTypes, CurrentHead
<1>2. \A t \in Types : schema[t] \in 0..MaxEdits
  BY BoundsAreNaturals DEF WorkTypes, Versions
<1>3. Built => state.commit \in 1..CurrentHead /\ state.types \in Versions
  BY DEF WorkTypes, Built
<1>4. lock # None => at[lock] \in {"indexed", "cleared", "filled", "retyped"} \/ lock \in Recorders
  BY DEF WorkTypes, Holding, Recorders
<1>5. QED
  BY <1>1, <1>2, <1>3, <1>4 DEF WorkTypes, TypeOK

LEMMA TreeIs ==
  ASSUME WorkTypes
  PROVE  /\ Tree \in Files /\ CurrentHead \in Nat \ {0}
         /\ Built => commits[state.commit] \in Files
BY DEF WorkTypes, Tree, CurrentHead, Built

LEMMA DocumentIs ==
  ASSUME WorkTypes, NEW p \in Pages, NEW v \in Versions
  PROVE  /\ Documents(p, v) \subseteq [type : {c.type : c \in Contents}, text : {c.text : c \in Contents}, under : Nat]
         /\ worktree[p] = None => Documents(p, v) = {}
         /\ worktree[p] # None =>
              \E u \in Nat :
                /\ Documents(p, v) = {[type |-> worktree[p].type, text |-> worktree[p].text, under |-> u]}
                /\ u = IF Kind(worktree[p]) \in Types THEN v[Kind(worktree[p])] ELSE 0
<1>1. worktree[p] \in Contents \cup {None}
  BY DEF WorkTypes, Files
<1>2. (IF Kind(worktree[p]) \in Types THEN v[Kind(worktree[p])] ELSE 0) \in Nat
  BY DEF Versions
<1>3. QED
  BY <1>1, <1>2 DEF Documents, Document

LEMMA StartIs ==
  ASSUME WorkTypes, NEW e \in Engines, NEW where \in Places, NEW what \in Tasks, Start(e, where, what)
  PROVE  /\ at' \in [Engines -> Places] /\ task' \in [Engines -> Tasks]
         /\ at'[e] = where /\ task'[e] = what
         /\ \A o \in Engines \ {e} : at'[o] = at[o] /\ task'[o] = task[o]
BY DEF Start, WorkTypes

LEMMA JobIs ==
  /\ NoTask \in Tasks
  /\ \A for \in {"none", "mount", "watch", "rebuild", "ingest", "commit"} :
       /\ Job(for) \in Tasks /\ Job(for).for = for /\ Job(for).pages = {} /\ Job(for).gone = {}
       /\ Job(for).commit = 0 /\ ~Job(for).warned
BY DEF NoTask, Job, Tasks

LEMMA LeaveIs ==
  ASSUME WorkTypes, NEW e \in Engines, NEW warned \in BOOLEAN, Leave(e, warned)
  PROVE  \E where \in {"opening", "idle"}, what \in Tasks :
            /\ Start(e, where, what)
            /\ where = "opening" <=> task[e].for = "mount"
            /\ what.for = IF task[e].for = "mount" THEN "mount" ELSE "none"
            /\ what.commit = task[e].commit /\ what.raced = task[e].raced /\ what.warned = warned
<1>1. PICK where \in {"opening", "idle"} : where = IF task[e].for = "mount" THEN "opening" ELSE "idle"
  OBVIOUS
<1>2. PICK for \in {"none", "mount"} : for = IF task[e].for = "mount" THEN "mount" ELSE "none"
  OBVIOUS
<1>3. PICK what : what = [Job(for) EXCEPT !.commit = task[e].commit, !.raced = task[e].raced, !.warned = warned]
  OBVIOUS
<1>4. Job(for) \in Tasks /\ Job(for).for = for /\ task[e].commit \in Nat /\ task[e].raced \in BOOLEAN
  <2>1. Job(for) \in Tasks /\ Job(for).for = for
    BY <1>2, JobIs
  <2>2. task[e] \in Tasks
    BY DEF WorkTypes
  <2>3. QED
    BY <2>1, <2>2 DEF Tasks
<1>5. what \in Tasks /\ what.for = for /\ what.commit = task[e].commit /\ what.raced = task[e].raced
      /\ what.warned = warned
  BY <1>3, <1>4 DEF Tasks
<1>6. Start(e, where, what)
  BY <1>1, <1>2, <1>3 DEF Leave
<1>7. QED
  BY <1>1, <1>2, <1>5, <1>6

LEMMA RebuildingIs ==
  ASSUME WorkTypes, NEW e \in Engines
  PROVE  /\ Rebuilding(e) \in Tasks /\ Rebuilding(e).for = task[e].for
         /\ Rebuilding(e).commit = task[e].commit /\ Rebuilding(e).raced = task[e].raced
         /\ ~Rebuilding(e).warned
<1>1. task[e] \in Tasks
  BY DEF WorkTypes
<1>2. task[e].for \in {"none", "mount", "watch", "rebuild", "ingest", "commit"} /\ task[e].commit \in Nat
      /\ task[e].raced \in BOOLEAN
  BY <1>1 DEF Tasks
<1>3. Job(task[e].for) \in Tasks /\ Job(task[e].for).for = task[e].for /\ ~Job(task[e].for).warned
  BY <1>2, JobIs
<1>4. QED
  BY <1>2, <1>3 DEF Rebuilding, Tasks

LEMMA RemedyIs ==
  /\ Staleness \in {"current", "commit", "types", "never"}
  /\ Remedy[Staleness] \in {"opening", "diffing", "retyping", "clearing"}
  /\ ~Built => Remedy[Staleness] = "clearing"
BY DEF Staleness, Remedy

-----------------------------------------------------------------------------
(* Steps that leave the index and the repository as they are.              *)

(* Where the tree, HEAD, the documents and state.toml stay, so does what   *)
(* the pages are asked.                                                    *)
LEMMA SameIndex ==
  ASSUME UNCHANGED <<repo, index>>
  PROVE  /\ Tree' = Tree /\ CurrentHead' = CurrentHead /\ Changed' = Changed /\ Built' = Built
         /\ \A p \in Pages : Fits(p, state.types)' <=> Fits(p, state.types)
<1>1. Tree' = Tree /\ CurrentHead' = CurrentHead /\ Built' = Built
  BY DEF repo, index, Tree, CurrentHead, Built
<1>2. Changed' = Changed
  BY <1>1 DEF repo, index, Changed
<1>3. \A p \in Pages : Fits(p, state.types)' <=> Fits(p, state.types)
  BY DEF repo, index, Fits
<1>4. QED
  BY <1>1, <1>2, <1>3

(* An engine goes on to something that holds no writer.                    *)
LEMMA MoveKeeps ==
  ASSUME IndexInv, NEW e \in Engines, NEW where \in Places \ (Holding \cup {"down"}), NEW what \in Tasks,
         Start(e, where, what), lock # e, UNCHANGED <<repo, index, sound>>,
         registry' \in [Engines -> Versions \cup {None}],
         registry'[e] # None, registry'[e] = registry[e] \/ registry'[e] = schema,
         \A o \in Engines \ {e} : registry'[o] = registry[o],
         reader' \in [Engines -> DocSets \cup {None}],
         sound /\ where # "clearing" => Built,
         sound /\ where = "diffed" => Diffed(e)'
  PROVE  IndexInv'
<1> USE DEF IndexInv
<1>a. WorkTypes
  OBVIOUS
<1>b. where \in Places
  OBVIOUS
<1>1. /\ at' \in [Engines -> Places] /\ task' \in [Engines -> Tasks]
      /\ at'[e] = where /\ task'[e] = what
      /\ \A o \in Engines \ {e} : at'[o] = at[o] /\ task'[o] = task[o]
  BY <1>a, <1>b, StartIs
<1>2. /\ Tree' = Tree /\ CurrentHead' = CurrentHead /\ Changed' = Changed /\ Built' = Built
      /\ \A p \in Pages : Fits(p, state.types)' <=> Fits(p, state.types)
  BY SameIndex
<1>3. WorkTypes'
  <2>1. worktree' = worktree /\ commits' = commits /\ edits' = edits /\ schema' = schema /\ docs' = docs
        /\ lock' = lock /\ wrote' = wrote /\ state' = state
    BY DEF repo, index
  <2>2. \A o \in Engines : at'[o] # "down" => registry'[o] # None
    BY <1>a, <1>1 DEF WorkTypes
  <2>3. lock' # None => at'[lock'] \in Holding
    BY <1>a, <1>1, <2>1 DEF WorkTypes
  <2>4. QED
    BY <1>a, <1>1, <1>2, <2>1, <2>2, <2>3 DEF WorkTypes
<1>4. VersionsGrow'
  <2>1. schema' = schema /\ state' = state
    BY DEF repo, index
  <2>2. \A t \in Types : schema[t] \in Nat
    BY <1>a DEF WorkTypes, Versions
  <2>3. Behind(schema)
    BY <2>2 DEF Behind
  <2>4. QED
    BY <1>2, <2>1, <2>3 DEF VersionsGrow, Behind
<1>5. ASSUME sound' PROVE (OneHolder /\ BuiltFirst /\ Kept /\ Phases)'
  <2>1. sound /\ OneHolder /\ BuiltFirst /\ Kept /\ Phases
    BY <1>5 DEF SoundInv
  <2>2. at[e] \notin Holding /\ lock' = lock /\ state' = state
    BY <2>1 DEF OneHolder, index
  <2>3. OneHolder'
    BY <1>1, <2>1, <2>2 DEF OneHolder
  <2>4. BuiltFirst'
    BY <1>1, <1>2, <2>1 DEF BuiltFirst
  <2>5. Kept'
    <3>1. Rewriting' = Rewriting
      BY <1>1, <2>2 DEF Rewriting, Holding
    <3>2. QED
      BY <3>1, <1>2, <2>1 DEF Kept
  <2>6. Phases'
    <3>1. ASSUME NEW o \in Engines \ {e}
          PROVE  /\ at'[o] = "diffed" => Diffed(o)'
                 /\ at'[o] = "indexed" => state'.types = registry'[o]
                 /\ at'[o] \in {"indexed", "filled", "retyped", "advancing", "recording"} => Indexing(o)'
                 /\ at'[o] \in {"advancing", "recording"} => task'[o].head = CurrentHead'
      <4>1. Diffed(o) => Diffed(o)'
        BY <1>1, <1>2, <2>2 DEF Diffed, repo
      <4>2. Indexing(o) => Indexing(o)'
        BY <1>2 DEF Indexing, Fits, repo, index
      <4>3. QED
        BY <1>1, <1>2, <2>1, <2>2, <4>1, <4>2 DEF Phases
    <3>2. at'[e] = "diffed" => Diffed(e)'
      BY <1>1, <2>1
    <3>3. at'[e] \notin {"indexed", "filled", "retyped", "advancing", "recording"}
      BY <1>1 DEF Holding
    <3>4. QED
      BY <3>1, <3>2, <3>3 DEF Phases
  <2>7. QED
    BY <2>3, <2>4, <2>5, <2>6
<1>6. QED
  BY <1>3, <1>4, <1>5 DEF SoundInv

(* An engine that holds no writer is not the one that locked the index.    *)
LEMMA LockIs ==
  ASSUME WorkTypes, NEW e \in Engines, at[e] \notin Holding
  PROVE  lock # e
BY NoneIsNone DEF WorkTypes

LEMMA MountKeeps ==
  ASSUME IndexInv, NEW e \in Engines, Mount(e)
  PROVE  IndexInv'
<1>1. WorkTypes /\ lock # e
  BY LockIs DEF IndexInv, Mount, Holding
<1>2. PICK where \in {"opening", "diffing", "retyping", "clearing"} :
        where = IF ~Built \/ AutoRebuild THEN Remedy[Staleness] ELSE "opening"
  BY RemedyIs
<1>3. PICK types \in SUBSET Types : types = IF Built THEN StaleTypes ELSE {}
  BY DEF StaleTypes
<1>4. PICK what : what = [Job("mount") EXCEPT !.types = types]
  OBVIOUS
<1>5. what \in Tasks
  BY <1>4, JobIs DEF Tasks
<1>6. Start(e, where, what) /\ registry' = [registry EXCEPT ![e] = schema]
  BY <1>2, <1>3, <1>4 DEF Mount
<1>7. schema \in Versions /\ schema # None /\ registry \in [Engines -> Versions \cup {None}]
      /\ reader \in [Engines -> DocSets \cup {None}]
  BY <1>1, NoneIsNoValue DEF WorkTypes
<1>8. /\ registry' \in [Engines -> Versions \cup {None}] /\ registry'[e] # None /\ registry'[e] = schema
      /\ \A o \in Engines \ {e} : registry'[o] = registry[o]
  BY <1>6, <1>7
<1>9. reader' \in [Engines -> DocSets \cup {None}] /\ UNCHANGED <<repo, index, sound>>
  BY <1>7 DEF Mount
<1>10. sound /\ where # "clearing" => Built
  BY <1>2, RemedyIs
<1>11. where \in Places \ (Holding \cup {"down"}) /\ where # "diffed"
  BY DEF Places, Holding
<1>12. QED
  BY <1>1, <1>5, <1>6, <1>8, <1>9, <1>10, <1>11, MoveKeeps

(* What is true of an engine that is up and holds no writer when it takes  *)
(* up its next work, and of one that has lost the index to another.        *)
LEMMA UpKeeps ==
  ASSUME IndexInv, NEW e \in Engines, NEW where \in Places \ (Holding \cup {"down"}), NEW what \in Tasks,
         Start(e, where, what), lock # e, at[e] # "down", UNCHANGED <<repo, index, sound, registry, reader>>,
         sound /\ where # "clearing" => Built,
         sound /\ where = "diffed" => Diffed(e)'
  PROVE  IndexInv'
<1>1. registry \in [Engines -> Versions \cup {None}] /\ registry[e] # None /\ reader \in [Engines -> DocSets \cup {None}]
  BY DEF IndexInv, WorkTypes
<1>2. /\ registry' \in [Engines -> Versions \cup {None}] /\ registry'[e] # None /\ registry'[e] = registry[e]
      /\ \A o \in Engines \ {e} : registry'[o] = registry[o]
      /\ reader' \in [Engines -> DocSets \cup {None}] /\ UNCHANGED <<repo, index, sound>>
  BY <1>1
<1>3. QED
  BY <1>2, MoveKeeps

LEMMA OpenKeeps ==
  ASSUME IndexInv, NEW e \in Engines, Open(e)
  PROVE  IndexInv'
<1>1. WorkTypes /\ lock # e /\ at[e] = "opening"
  BY LockIs DEF IndexInv, Open, Holding
<1>2. Start(e, "idle", NoTask) /\ NoTask \in Tasks /\ "idle" \in Places \ (Holding \cup {"down"})
  BY JobIs DEF Open, Start, Places, Holding
<1>3. /\ registry' \in [Engines -> Versions \cup {None}] /\ registry'[e] # None /\ registry'[e] = registry[e]
      /\ \A o \in Engines \ {e} : registry'[o] = registry[o]
      /\ reader' \in [Engines -> DocSets \cup {None}] /\ UNCHANGED <<repo, index, sound>>
  BY <1>1 DEF Open, WorkTypes
<1>4. sound => Built
  BY <1>1 DEF IndexInv, SoundInv, BuiltFirst
<1>5. QED
  BY <1>1, <1>2, <1>3, <1>4, MoveKeeps

LEMMA WatchKeeps ==
  ASSUME IndexInv, NEW e \in Engines, WatchPages(e) \/ WatchSchema(e) \/ RebuildIndex(e)
  PROVE  IndexInv'
<1>1. at[e] = "idle" /\ UNCHANGED <<repo, index, registry, reader, sound>>
  BY DEF WatchPages, WatchSchema, RebuildIndex
<1>2. WorkTypes /\ lock # e
  BY <1>1, LockIs DEF IndexInv, Holding
<1>3. sound => Built
  BY <1>1 DEF IndexInv, SoundInv, BuiltFirst
<1>4. PICK where \in {"diffing", "clearing", "opening", "retyping"}, what \in Tasks : Start(e, where, what)
  <2>1. CASE WatchPages(e)
    BY <2>1, JobIs DEF WatchPages
  <2>2. CASE RebuildIndex(e)
    BY <2>2, JobIs DEF RebuildIndex
  <2>3. CASE WatchSchema(e)
    <3>1. PICK types \in SUBSET Types : types = IF Built THEN StaleTypes ELSE {}
      BY DEF StaleTypes
    <3>2. [Job("watch") EXCEPT !.types = types] \in Tasks
      BY JobIs DEF Tasks
    <3>3. Start(e, Remedy[Staleness], [Job("watch") EXCEPT !.types = types])
      BY <2>3, <3>1 DEF WatchSchema
    <3>4. QED
      BY <3>2, <3>3, RemedyIs
  <2>4. QED
    BY <2>1, <2>2, <2>3
<1>5. where \in Places \ (Holding \cup {"down"}) /\ where # "diffed"
  BY DEF Places, Holding
<1>6. QED
  BY <1>1, <1>2, <1>3, <1>4, <1>5, UpKeeps

LEMMA DiffKeeps ==
  ASSUME IndexInv, NEW e \in Engines, Diff(e)
  PROVE  IndexInv'
<1>1. at[e] = "diffing" /\ UNCHANGED <<repo, index, registry, reader, sound>>
  BY DEF Diff
<1>2. WorkTypes /\ lock # e
  BY <1>1, LockIs DEF IndexInv, Holding
<1>3. sound => Built
  BY <1>1 DEF IndexInv, SoundInv, BuiltFirst
<1>4. CASE Changed # {}
  <2>1. PICK what : what = [task[e] EXCEPT !.pages = Changed, !.gone = {p \in Changed : worktree[p] = None}]
    OBVIOUS
  <2>2. task[e] \in Tasks /\ Changed \subseteq Pages
    BY <1>2 DEF WorkTypes, Changed
  <2>3. what \in Tasks /\ what.pages = Changed /\ what.gone = {p \in Changed : worktree[p] = None}
    BY <2>1, <2>2 DEF Tasks
  <2>4. Start(e, "diffed", what) /\ "diffed" \in Places \ (Holding \cup {"down"})
    BY <1>4, <2>1 DEF Diff, Places, Holding
  <2>5. task'[e] = what
    BY <1>2, <2>3, <2>4, StartIs DEF Places
  <2>6. ASSUME sound PROVE Diffed(e)'
    <3>1. /\ Tree' = Tree /\ commits' = commits /\ state' = state /\ worktree' = worktree
      BY <1>1 DEF repo, index, Tree, CurrentHead
    <3>2. \A p \in Pages \ Changed : commits[state.commit][p] = Tree[p]
      BY <2>6, <1>3 DEF Changed
    <3>3. QED
      BY <2>3, <2>5, <3>1, <3>2 DEF Diffed
  <2>7. QED
    BY <1>1, <1>2, <1>3, <2>3, <2>4, <2>6, UpKeeps
<1>5. CASE Changed = {} /\ Unindexed(task[e], {})
  <2>1. Start(e, "clearing", Rebuilding(e)) /\ "clearing" \in Places \ (Holding \cup {"down"})
    BY <1>5 DEF Diff, Places, Holding
  <2>2. QED
    BY <1>1, <1>2, <1>3, <2>1, RebuildingIs, UpKeeps
<1>6. CASE Changed = {} /\ ~Unindexed(task[e], {})
  <2>1. Leave(e, FALSE)
    BY <1>6 DEF Diff
  <2>2. PICK where \in {"opening", "idle"}, what \in Tasks : Start(e, where, what)
    BY <1>2, <2>1, LeaveIs
  <2>3. where \in Places \ (Holding \cup {"down"}) /\ where # "diffed"
    BY DEF Places, Holding
  <2>4. QED
    BY <1>1, <1>2, <1>3, <2>2, <2>3, UpKeeps
<1>7. QED
  BY <1>4, <1>5, <1>6

(* A warning, or a full rebuild in place of what could not be done.        *)
LEMMA FailureKeeps ==
  ASSUME IndexInv, NEW e \in Engines, WriterBusy(e) \/ FillFails(e) \/ RetypeFails(e) \/ RecordFails(e)
  PROVE  IndexInv'
<1>1. at[e] # "down" /\ UNCHANGED <<repo, index, registry, reader, sound>>
      /\ (at[e] \notin Holding \/ lock # e) /\ at[e] \in {"diffed", "cleared", "retyping", "indexed"}
  BY DEF WriterBusy, FillFails, RetypeFails, RecordFails, Holding
<1>2. WorkTypes /\ lock # e
  BY <1>1, LockIs DEF IndexInv
<1>3. sound => Built
  <2>1. ASSUME sound PROVE at[e] \notin Holding
    BY <1>2, <2>1 DEF IndexInv, SoundInv, OneHolder
  <2>2. QED
    BY <1>1, <2>1 DEF IndexInv, SoundInv, BuiltFirst, Holding
<1>4. CASE Start(e, "clearing", Rebuilding(e))
  <2>1. "clearing" \in Places \ (Holding \cup {"down"})
    BY DEF Places, Holding
  <2>2. QED
    BY <1>1, <1>2, <1>3, <1>4, <2>1, RebuildingIs, UpKeeps
<1>5. CASE Leave(e, TRUE)
  <2>1. PICK where \in {"opening", "idle"}, what \in Tasks : Start(e, where, what)
    BY <1>2, <1>5, LeaveIs
  <2>2. where \in Places \ (Holding \cup {"down"}) /\ where # "diffed"
    BY DEF Places, Holding
  <2>3. QED
    BY <1>1, <1>2, <1>3, <2>1, <2>2, UpKeeps
<1>6. QED
  BY <1>4, <1>5 DEF WriterBusy, FillFails, RetypeFails, RecordFails

-----------------------------------------------------------------------------
(* The world, and the admissions that commit.                              *)

LEMMA EditPageKeeps ==
  ASSUME IndexInv, NEW p \in Pages, NEW c \in Contents \cup {None}, EditPage(p, c)
  PROVE  IndexInv'
<1>1. WorkTypes /\ worktree' = [worktree EXCEPT ![p] = c] /\ edits' = edits + 1 /\ edits < MaxEdits
      /\ UNCHANGED <<commits, schema, docs, lock, state, wrote, registry, reader, at, task>>
  BY DEF IndexInv, EditPage, index, engine
<1>2. worktree' \in Files /\ worktree'[p] = c /\ \A q \in Pages \ {p} : worktree'[q] = worktree[q]
  BY <1>1 DEF WorkTypes, Files
<1>3. Tree' = Tree /\ CurrentHead' = CurrentHead /\ Built' = Built
  BY <1>1 DEF Tree, CurrentHead, Built
<1>4. WorkTypes'
  <2>1. edits' \in 0..MaxEdits /\ \A t \in Types : schema[t] <= edits'
    BY <1>1, BoundsAreNaturals DEF WorkTypes, Versions
  <2>2. QED
    BY <1>1, <1>2, <1>3, <2>1 DEF WorkTypes
<1>5. VersionsGrow'
  BY <1>1, <1>3 DEF IndexInv, VersionsGrow, Behind
<1>6. ASSUME sound' PROVE (OneHolder /\ BuiltFirst /\ Kept /\ Phases)'
  <2>1. sound /\ c # Tree[p]
    BY <1>6 DEF EditPage, Undoes
  <2>2. OneHolder /\ BuiltFirst /\ Kept /\ Phases
    BY <2>1 DEF IndexInv, SoundInv
  <2>3. OneHolder' /\ BuiltFirst'
    BY <1>1, <1>3, <2>2 DEF OneHolder, BuiltFirst
  <2>4. \A q \in Pages \ Changed' : q \in Pages \ Changed /\ q # p
    BY <1>1, <1>2, <1>3, <2>1 DEF Changed
  <2>5. ASSUME NEW q \in Pages \ {p}, NEW v PROVE Fits(q, v)' <=> Fits(q, v)
    BY <1>1, <1>2 DEF Fits
  <2>6. Kept'
    <3>1. ASSUME Rewriting' = {}, Built', NEW q \in Pages \ Changed'
          PROVE  Fits(q, state.types)'
      <4>1. Rewriting = {} /\ Built
        BY <1>1, <1>3, <3>1 DEF Rewriting
      <4>2. Fits(q, state.types)
        BY <2>2, <2>4, <4>1 DEF Kept
      <4>3. QED
        BY <1>1, <1>2, <2>4, <4>2 DEF Fits
    <3>2. QED
      BY <3>1 DEF Kept
  <2>7. ASSUME NEW e \in Engines, Diffed(e) PROVE Diffed(e)'
    BY <1>1, <1>2, <1>3, <2>1, <2>7 DEF Diffed, WorkTypes, Tasks
  <2>8. ASSUME NEW e \in Engines, Indexing(e) PROVE Indexing(e)'
    BY <1>1, <1>2, <1>3, <2>1, <2>8 DEF Indexing, Fits
  <2>9. QED
    BY <1>1, <1>3, <2>2, <2>3, <2>6, <2>7, <2>8 DEF Phases
<1>7. QED
  BY <1>4, <1>5, <1>6 DEF IndexInv, SoundInv

LEMMA EditSchemaKeeps ==
  ASSUME IndexInv, NEW t \in Types, EditSchema(t)
  PROVE  IndexInv'
<1>1. WorkTypes /\ schema' = [schema EXCEPT ![t] = @ + 1] /\ edits' = edits + 1 /\ edits < MaxEdits
      /\ UNCHANGED <<worktree, commits, docs, lock, state, wrote, registry, reader, at, task, sound>>
  BY DEF IndexInv, EditSchema, index, engine
<1>2. schema \in Versions /\ schema' \in Versions /\ schema'[t] = schema[t] + 1
      /\ \A u \in Types \ {t} : schema'[u] = schema[u]
  BY <1>1 DEF WorkTypes, Versions
<1>3. Tree' = Tree /\ CurrentHead' = CurrentHead /\ Built' = Built /\ Changed' = Changed
  BY <1>1 DEF Tree, CurrentHead, Built, Changed
<1>4. WorkTypes'
  <2>1. edits' \in 0..MaxEdits /\ \A u \in Types : schema'[u] <= edits'
    BY <1>1, <1>2, BoundsAreNaturals DEF WorkTypes, Versions
  <2>2. QED
    BY <1>1, <1>2, <1>3, <2>1 DEF WorkTypes
<1>5. ASSUME NEW v \in Versions, Behind(v)
      PROVE  Behind(v)' /\ \A p \in Pages : Fits(p, v) => Fits(p, v)'
  <2>1. \A u \in Types : v[u] \in Nat /\ schema[u] \in Nat
    BY <1>2 DEF Versions
  <2>2. \A u \in Types : v[u] <= schema'[u] /\ (v[u] = schema'[u] => schema'[u] = schema[u])
    BY <1>2, <1>5, <2>1 DEF Behind
  <2>3. QED
    BY <1>1, <2>2 DEF Behind, Fits
<1>6. Built => state.types \in Versions /\ Behind(state.types)
  BY <1>1 DEF IndexInv, VersionsGrow, WorkTypes, Built
<1>7. \A e \in Engines : registry[e] # None => registry[e] \in Versions /\ Behind(registry[e])
  BY <1>1 DEF IndexInv, VersionsGrow, WorkTypes
<1>8. VersionsGrow'
  BY <1>1, <1>2, <1>3, <1>5, <1>6, <1>7 DEF VersionsGrow, Behind
<1>9. ASSUME sound' PROVE (OneHolder /\ BuiltFirst /\ Kept /\ Phases)'
  <2>1. OneHolder /\ BuiltFirst /\ Kept /\ Phases
    BY <1>1, <1>9 DEF IndexInv, SoundInv
  <2>2. OneHolder' /\ BuiltFirst'
    BY <1>1, <1>3, <2>1 DEF OneHolder, BuiltFirst
  <2>3. Kept'
    <3>1. ASSUME Rewriting' = {}, Built', NEW p \in Pages \ Changed'
          PROVE  Fits(p, state.types)'
      <4>1. Rewriting = {} /\ Built /\ p \in Pages \ Changed
        BY <1>1, <1>3, <3>1 DEF Rewriting
      <4>2. PICK v \in Versions : v = state.types /\ Behind(v)
        BY <1>6, <4>1
      <4>3. Fits(p, v)
        BY <2>1, <4>1, <4>2 DEF Kept
      <4>4. Fits(p, v)'
        BY <1>5, <4>1, <4>2, <4>3
      <4>5. QED
        BY <1>1, <4>2, <4>4 DEF Fits
    <3>2. QED
      BY <3>1 DEF Kept
  <2>4. ASSUME NEW e \in Engines, Diffed(e) PROVE Diffed(e)'
    BY <1>1, <1>3, <2>4 DEF Diffed
  <2>5. ASSUME NEW e \in Engines, at[e] # "down", Indexing(e) PROVE Indexing(e)'
    <3>1. PICK v \in Versions : v = registry[e] /\ Behind(v)
      BY <1>1, <1>7, <2>5 DEF WorkTypes
    <3>2. ASSUME NEW p \in Pages, worktree'[p] = Tree'[p] PROVE Fits(p, registry[e])'
      <4>1. Fits(p, v)
        BY <1>1, <1>3, <2>5, <3>1, <3>2 DEF Indexing
      <4>2. Fits(p, v)'
        BY <1>5, <3>1, <4>1
      <4>3. QED
        BY <1>1, <3>1, <4>2 DEF Fits
    <3>3. QED
      BY <3>2 DEF Indexing
  <2>6. QED
    BY <1>1, <1>3, <2>1, <2>2, <2>3, <2>4, <2>5 DEF Phases
<1>10. QED
  BY <1>4, <1>8, <1>9 DEF IndexInv, SoundInv

(* A commit, with the engine that made it, if one did, going on to update  *)
(* the index.                                                              *)
LEMMA CommitKeeps ==
  ASSUME IndexInv, NEW S \in SUBSET Pages, Commit(S),
         UNCHANGED <<worktree, schema, edits, index, registry, reader>>,
         at' \in [Engines -> Places], task' \in [Engines -> Tasks],
         \A e \in Engines : at'[e] = at[e] \/ (at[e] = "idle" /\ at'[e] = "diffing")
  PROVE  IndexInv'
<1>1. WorkTypes /\ commits' = Append(commits, Staged(S)) /\ CurrentHead < MaxCommits
      /\ UNCHANGED <<docs, lock, state, wrote>>
  BY DEF IndexInv, Commit, index
<1>2. Staged(S) \in Files
  BY <1>1, TreeIs DEF Staged, Files, WorkTypes
<1>3. /\ commits' \in Seq(Files) /\ CurrentHead' = CurrentHead + 1 /\ CurrentHead' \in 1..MaxCommits
      /\ Tree' = Staged(S) /\ Built' = Built
      /\ \A n \in 1..CurrentHead : commits'[n] = commits[n]
  BY <1>1, <1>2, BoundsAreNaturals DEF WorkTypes, CurrentHead, Tree, Built
<1>4. WorkTypes'
  <2>1. Built' => state'.commit \in 1..CurrentHead'
    BY <1>1, <1>3 DEF WorkTypes
  <2>2. \A e \in Engines : at'[e] # "down" => registry'[e] # None
    BY <1>1 DEF WorkTypes
  <2>3. lock' # None => at'[lock'] \in Holding
    BY <1>1 DEF WorkTypes, Holding
  <2>4. QED
    BY <1>1, <1>3, <2>1, <2>2, <2>3 DEF WorkTypes
<1>5. VersionsGrow'
  BY <1>1, <1>3 DEF IndexInv, VersionsGrow, Behind
<1>6. ASSUME sound' PROVE (OneHolder /\ BuiltFirst /\ Kept /\ Phases)'
  <2>1. sound /\ ~Interferes /\ ~Reverts(Staged(S))
    BY <1>6 DEF Commit
  <2>2. OneHolder /\ BuiltFirst /\ Kept /\ Phases
    BY <2>1 DEF IndexInv, SoundInv
  <2>3. OneHolder' /\ BuiltFirst'
    BY <1>1, <1>3, <2>2 DEF OneHolder, BuiltFirst, Holding
  <2>4. ASSUME Rewriting' = {}, Built', NEW p \in Pages \ Changed'
        PROVE  Fits(p, state.types)'
    <3>1. Rewriting = {} /\ Built
      BY <1>3, <2>4 DEF Rewriting
    <3>2. commits'[state.commit] = commits[state.commit]
      BY <1>1, <1>3, <3>1 DEF WorkTypes
    <3>3. worktree[p] = Staged(S)[p] /\ commits[state.commit][p] = Staged(S)[p]
      BY <1>1, <1>3, <2>4, <3>2 DEF Changed
    <3>4. Staged(S)[p] = Tree[p]
      BY <2>1, <3>1, <3>3 DEF Reverts
    <3>5. Fits(p, state.types)
      BY <2>2, <3>1, <3>3, <3>4 DEF Kept, Changed
    <3>6. QED
      BY <1>1, <3>5 DEF Fits
  <2>5. Kept'
    BY <2>4 DEF Kept
  <2>6. \A e \in Engines : at'[e] \notin {"diffed", "indexed", "filled", "retyped", "advancing", "recording"}
    BY <2>1 DEF Interferes, Recorders
  <2>7. Phases'
    BY <2>6 DEF Phases
  <2>8. QED
    BY <2>3, <2>5, <2>7
<1>7. QED
  BY <1>4, <1>5, <1>6 DEF IndexInv, SoundInv

LEMMA AdmissionKeeps ==
  ASSUME IndexInv, NEW e \in Engines, NEW S \in SUBSET Pages, Ingest(e, S) \/ ContentCommit(e, S)
  PROVE  IndexInv'
<1>1. WorkTypes /\ at[e] = "idle" /\ UNCHANGED <<worktree, schema, edits, index, registry, reader>>
  BY DEF IndexInv, Ingest, ContentCommit
<1>2. PICK what \in Tasks : Start(e, "diffing", what)
  <2>1. CurrentHead + 1 \in Nat
    BY <1>1, TreeIs
  <2>2. CASE ContentCommit(e, S)
    <3>1. PICK r \in BOOLEAN : r = (Recorders # {})
      OBVIOUS
    <3>2. [Job("commit") EXCEPT !.commit = CurrentHead + 1, !.raced = r] \in Tasks
      BY <2>1, JobIs DEF Tasks
    <3>3. Start(e, "diffing", [Job("commit") EXCEPT !.commit = CurrentHead + 1, !.raced = r])
      BY <2>2, <3>1 DEF ContentCommit
    <3>4. QED
      BY <3>2, <3>3
  <2>3. CASE Ingest(e, S)
    <3>1. PICK n \in Nat : n = IF Staged(S) # Tree THEN CurrentHead + 1 ELSE 0
      BY <2>1
    <3>2. PICK b \in BOOLEAN : b = (\E p \in S : worktree[p] # None /\ (p \in Changed \/ Changed = {}))
      OBVIOUS
    <3>3. PICK r \in BOOLEAN : r = (Staged(S) # Tree /\ Recorders # {})
      OBVIOUS
    <3>4. [Job("ingest") EXCEPT !.validated = b, !.commit = n, !.raced = r] \in Tasks
      BY JobIs DEF Tasks
    <3>5. Start(e, "diffing", [Job("ingest") EXCEPT !.validated = b, !.commit = n, !.raced = r])
      BY <2>3, <3>1, <3>2, <3>3 DEF Ingest
    <3>6. QED
      BY <3>4, <3>5
  <2>4. QED
    BY <2>2, <2>3
<1>3. CASE Commit(S)
  <2>1. /\ at' \in [Engines -> Places] /\ task' \in [Engines -> Tasks] /\ at'[e] = "diffing"
        /\ \A o \in Engines \ {e} : at'[o] = at[o]
    BY <1>1, <1>2, StartIs DEF Places
  <2>2. QED
    BY <1>1, <1>3, <2>1, CommitKeeps
<1>4. CASE UNCHANGED <<commits, sound>>
  <2>1. UNCHANGED <<repo, index, sound, registry, reader>>
    BY <1>1, <1>4 DEF repo
  <2>2. "diffing" \in Places \ (Holding \cup {"down"}) /\ lock # e
    BY <1>1, LockIs DEF Places, Holding
  <2>3. sound => Built
    BY <1>1 DEF IndexInv, SoundInv, BuiltFirst
  <2>4. QED
    BY <1>1, <1>2, <2>1, <2>2, <2>3, UpKeeps
<1>5. QED
  BY <1>3, <1>4 DEF Ingest, ContentCommit

LEMMA ExternalCommitKeeps ==
  ASSUME IndexInv, NEW S \in SUBSET Pages, ExternalCommit(S)
  PROVE  IndexInv'
<1>1. Commit(S) /\ UNCHANGED <<worktree, schema, edits, index, registry, reader, at, task>>
  BY DEF ExternalCommit, engine
<1>2. at' \in [Engines -> Places] /\ task' \in [Engines -> Tasks]
  BY <1>1 DEF IndexInv, WorkTypes
<1>3. QED
  BY <1>1, <1>2, CommitKeeps

-----------------------------------------------------------------------------
(* Steps that write to the index.                                          *)

(* An engine writes documents, as the holder of the directory's writer.    *)
LEMMA WriteTypes ==
  ASSUME IndexInv, NEW e \in Engines, NEW where \in Holding, NEW what \in Tasks, Start(e, where, what),
         at[e] # "down", docs' \in DocSets, lock' = e, wrote' = e,
         reader' \in [Engines -> DocSets \cup {None}], UNCHANGED <<repo, state, registry>>
  PROVE  /\ WorkTypes' /\ VersionsGrow'
         /\ Tree' = Tree /\ CurrentHead' = CurrentHead /\ Built' = Built /\ Changed' = Changed
         /\ at'[e] = where /\ \A o \in Engines \ {e} : at'[o] = at[o] /\ task'[o] = task[o]
         /\ \A o \in Engines \ {e} : Diffed(o) => Diffed(o)'
<1>1. WorkTypes /\ UNCHANGED <<worktree, commits, schema, edits>>
  BY DEF IndexInv, repo
<1>2. /\ at' \in [Engines -> Places] /\ task' \in [Engines -> Tasks] /\ at'[e] = where
      /\ \A o \in Engines \ {e} : at'[o] = at[o] /\ task'[o] = task[o]
  BY <1>1, StartIs DEF Places, Holding
<1>3. Tree' = Tree /\ CurrentHead' = CurrentHead /\ Built' = Built
  BY <1>1 DEF Tree, CurrentHead, Built
<1>4. Changed' = Changed
  BY <1>1, <1>3 DEF Changed
<1>5. WorkTypes'
  <2>1. \A o \in Engines : at'[o] # "down" => registry'[o] # None
    BY <1>1, <1>2 DEF WorkTypes
  <2>2. QED
    BY <1>1, <1>2, <1>3, <2>1 DEF WorkTypes
<1>6. VersionsGrow'
  BY <1>1, <1>3 DEF IndexInv, VersionsGrow, Behind
<1>7. \A o \in Engines \ {e} : Diffed(o) => Diffed(o)'
  BY <1>1, <1>2, <1>3 DEF Diffed
<1>8. QED
  BY <1>2, <1>3, <1>4, <1>5, <1>6, <1>7

(* A document made now fits the versions it was made under.                *)
LEMMA DocumentFits ==
  ASSUME WorkTypes, NEW p \in Pages, NEW v \in Versions,
         UNCHANGED <<worktree, schema>>, docs'[p] = Documents(p, v)
  PROVE  Fits(p, v)'
<1>1. CASE worktree[p] = None
  BY <1>1, DocumentIs DEF Fits
<1>2. CASE worktree[p] # None
  <2>1. PICK u \in Nat :
          /\ Documents(p, v) = {[type |-> worktree[p].type, text |-> worktree[p].text, under |-> u]}
          /\ u = IF Kind(worktree[p]) \in Types THEN v[Kind(worktree[p])] ELSE 0
    BY <1>2, DocumentIs
  <2>2. PICK d : d = [type |-> worktree[p].type, text |-> worktree[p].text, under |-> u]
    OBVIOUS
  <2>3. d \in docs'[p] /\ docs'[p] = {d} /\ d.type = worktree[p].type /\ d.text = worktree[p].text /\ d.under = u
    BY <2>1, <2>2
  <2>4. IF Kind(worktree[p]) \in Types
        THEN v[Kind(worktree[p])] = schema[Kind(worktree[p])] => d.under = schema[Kind(worktree[p])]
        ELSE d.under = 0
    BY <2>1, <2>3
  <2>5. QED
    BY <1>2, <2>3, <2>4 DEF Fits
<1>3. QED
  BY <1>1, <1>2

LEMMA ReloadIs ==
  ASSUME WorkTypes, NEW e \in Engines, NEW new \in DocSets
  PROVE  /\ Reloaded(e, new) \in [Engines -> DocSets \cup {None}]
         /\ [reader EXCEPT ![e] = new] \in [Engines -> DocSets \cup {None}]
BY DEF Reloaded, WorkTypes

LEMMA RegistryIs ==
  ASSUME WorkTypes, NEW e \in Engines, at[e] # "down"
  PROVE  registry[e] \in Versions
BY DEF WorkTypes

LEMMA IndexChangedKeeps ==
  ASSUME IndexInv, NEW e \in Engines, IndexChanged(e)
  PROVE  IndexInv'
<1> DEFINE job == task[e]
           added == {p \in job.pages \ job.gone : worktree[p] # None}
           new == [p \in Pages |-> IF p \in added THEN Documents(p, registry[e])
                                   ELSE IF p \in job.pages THEN {} ELSE docs[p]]
<1>1. /\ WorkTypes /\ at[e] = "diffed" /\ lock = None /\ lock' = e /\ wrote' = e /\ docs' = new
      /\ reader' = Reloaded(e, new) /\ sound' = (sound /\ ~Outgrown(e))
      /\ UNCHANGED <<repo, state, registry>>
  BY DEF IndexInv, IndexChanged
<1>2. registry[e] \in Versions
  BY <1>1, RegistryIs
<1>3. new \in DocSets
  <2>1. ASSUME NEW p \in Pages
        PROVE  new[p] \in SUBSET [type : {c.type : c \in Contents}, text : {c.text : c \in Contents}, under : Nat]
    <3>1. docs[p] \subseteq [type : {c.type : c \in Contents}, text : {c.text : c \in Contents}, under : Nat]
      BY <1>1 DEF WorkTypes, DocSets
    <3>2. Documents(p, registry[e]) \subseteq [type : {c.type : c \in Contents}, text : {c.text : c \in Contents}, under : Nat]
      BY <1>1, <1>2, DocumentIs
    <3>3. QED
      BY <3>1, <3>2
  <2>2. QED
    BY <2>1 DEF DocSets
<1>4. PICK what \in Tasks : Start(e, "indexed", what)
  <2>1. PICK b \in BOOLEAN : b = Unindexed(job, added \cup job.gone)
    BY DEF Unindexed
  <2>2. [job EXCEPT !.pages = {}, !.gone = {}, !.validated = b] \in Tasks
    <3>1. task[e] \in Tasks
      BY <1>1 DEF WorkTypes
    <3>2. QED
      BY <3>1 DEF Tasks
  <2>3. Start(e, "indexed", [job EXCEPT !.pages = {}, !.gone = {}, !.validated = b])
    BY <2>1 DEF IndexChanged
  <2>4. QED
    BY <2>2, <2>3
<1>5. reader' \in [Engines -> DocSets \cup {None}] /\ "indexed" \in Holding
  BY <1>1, <1>3, ReloadIs DEF Holding
<1>6. /\ WorkTypes' /\ VersionsGrow'
      /\ Tree' = Tree /\ CurrentHead' = CurrentHead /\ Built' = Built /\ Changed' = Changed
      /\ at'[e] = "indexed" /\ \A o \in Engines \ {e} : at'[o] = at[o] /\ task'[o] = task[o]
      /\ \A o \in Engines \ {e} : Diffed(o) => Diffed(o)'
  BY <1>1, <1>3, <1>4, <1>5, WriteTypes
<1>7. ASSUME sound' PROVE (OneHolder /\ BuiltFirst /\ Kept /\ Phases)'
  <2>1. OneHolder /\ BuiltFirst /\ Kept /\ Phases /\ ~Outgrown(e)
    BY <1>1, <1>7 DEF IndexInv, SoundInv
  <2>2. Built /\ Built' /\ state.types = registry[e] /\ state' = state
    BY <1>1, <1>6, <2>1 DEF BuiltFirst, Outgrown
  <2>3. \A o \in Engines : at[o] \notin Holding
    BY <1>1, <2>1, NoneIsNone DEF OneHolder
  <2>4. Rewriting = {}
    BY <2>3 DEF Rewriting, Holding
  <2>5. ASSUME NEW p \in Pages, worktree[p] = Tree[p], p \in job.pages \/ p \notin Changed
        PROVE  Fits(p, registry[e])'
    <3>1. CASE p \in added
      BY <1>1, <1>2, <3>1, DocumentFits DEF repo
    <3>2. CASE p \in job.pages \ added
      <4>1. worktree[p] = None
        <5>1. p \in job.gone => worktree[p] = None \/ worktree[p] # Tree[p]
          BY <1>1, <2>1 DEF Phases, Diffed
        <5>2. QED
          BY <2>5, <3>2, <5>1
      <4>2. docs'[p] = {}
        BY <1>1, <3>2
      <4>3. QED
        BY <1>1, <4>1, <4>2 DEF Fits, repo
    <3>3. CASE p \notin job.pages
      <4>1. docs'[p] = docs[p]
        BY <1>1, <3>3
      <4>2. Fits(p, state.types)
        BY <2>1, <2>2, <2>4, <2>5, <3>3 DEF Kept
      <4>3. QED
        BY <1>1, <2>2, <4>1, <4>2 DEF Fits, repo
    <3>4. QED
      BY <3>1, <3>2, <3>3
  <2>6. Kept'
    <3>1. \A p \in Pages \ Changed : worktree[p] = Tree[p]
      BY DEF Changed
    <3>2. \A p \in Pages \ Changed : Fits(p, registry[e])'
      BY <2>5, <3>1
    <3>3. \A p \in Pages \ Changed : Fits(p, state.types)'
      BY <1>1, <2>2, <3>2 DEF Fits
    <3>4. QED
      BY <1>6, <3>3 DEF Kept
  <2>7. Indexing(e)'
    <3>1. \A p \in Pages \ job.pages : worktree[p] = Tree[p] => p \notin Changed
      BY <1>1, <2>1, <2>2 DEF Phases, Diffed, Changed
    <3>2. \A p \in Pages : worktree[p] = Tree[p] => Fits(p, registry[e])'
      BY <2>5, <3>1
    <3>3. worktree' = worktree /\ registry' = registry
      BY <1>1 DEF repo
    <3>4. \A p \in Pages : worktree'[p] = Tree'[p] => Fits(p, registry[e])'
      BY <1>6, <3>2, <3>3
    <3>5. QED
      BY <3>4 DEF Indexing
  <2>8. OneHolder' /\ BuiltFirst'
    BY <1>1, <1>6, <2>2, <2>3 DEF OneHolder, BuiltFirst
  <2>9. Phases'
    <3>1. \A o \in Engines \ {e} : at'[o] \notin {"indexed", "filled", "retyped", "advancing", "recording"}
                                    /\ (at'[o] = "diffed" => Diffed(o)')
      BY <1>6, <2>1, <2>3 DEF Phases, Holding
    <3>2. state'.types = registry'[e]
      BY <1>1, <2>2
    <3>3. QED
      BY <1>6, <2>7, <3>1, <3>2 DEF Phases
  <2>10. QED
    BY <2>6, <2>8, <2>9
<1>8. QED
  BY <1>6, <1>7 DEF IndexInv, SoundInv

LEMMA ClearKeeps ==
  ASSUME IndexInv, NEW e \in Engines, Clear(e)
  PROVE  IndexInv'
<1>1. /\ WorkTypes /\ at[e] = "clearing" /\ lock' = e /\ wrote' = e /\ docs' = [p \in Pages |-> {}]
      /\ sound' = (sound /\ lock = None) /\ Start(e, "cleared", task[e])
      /\ UNCHANGED <<repo, state, registry, reader>>
  BY DEF IndexInv, Clear
<1>2. docs' \in DocSets /\ reader' \in [Engines -> DocSets \cup {None}] /\ task[e] \in Tasks /\ "cleared" \in Holding
  BY <1>1 DEF WorkTypes, DocSets, Holding
<1>3. /\ WorkTypes' /\ VersionsGrow' /\ Built' = Built
      /\ at'[e] = "cleared" /\ \A o \in Engines \ {e} : at'[o] = at[o] /\ task'[o] = task[o]
      /\ \A o \in Engines \ {e} : Diffed(o) => Diffed(o)'
  BY <1>1, <1>2, WriteTypes
<1>4. ASSUME sound' PROVE (OneHolder /\ BuiltFirst /\ Kept /\ Phases)'
  <2>1. OneHolder /\ BuiltFirst /\ Kept /\ Phases /\ lock = None
    BY <1>1, <1>4 DEF IndexInv, SoundInv
  <2>2. \A o \in Engines : at[o] \notin Holding
    BY <2>1, NoneIsNone DEF OneHolder
  <2>3. OneHolder' /\ BuiltFirst'
    BY <1>1, <1>3, <2>1, <2>2 DEF OneHolder, BuiltFirst
  <2>4. Kept'
    BY <1>3 DEF Kept, Rewriting
  <2>5. \A o \in Engines \ {e} : at'[o] \notin {"indexed", "filled", "retyped", "advancing", "recording"}
                                  /\ (at'[o] = "diffed" => Diffed(o)')
    BY <1>3, <2>1, <2>2 DEF Phases, Holding
  <2>6. Phases'
    BY <1>3, <2>5 DEF Phases
  <2>7. QED
    BY <2>3, <2>4, <2>6
<1>5. QED
  BY <1>3, <1>4 DEF IndexInv, SoundInv

LEMMA FillKeeps ==
  ASSUME IndexInv, NEW e \in Engines, Fill(e)
  PROVE  IndexInv'
<1> DEFINE new == [p \in Pages |-> Documents(p, registry[e])]
<1>1. /\ WorkTypes /\ at[e] = "cleared" /\ lock = e /\ lock' = e /\ wrote' = e /\ docs' = new
      /\ reader' = [reader EXCEPT ![e] = new] /\ sound' = sound /\ Start(e, "filled", task[e])
      /\ UNCHANGED <<repo, state, registry>>
  BY DEF IndexInv, Fill
<1>2. registry[e] \in Versions
  BY <1>1, RegistryIs
<1>3. new \in DocSets
  BY <1>1, <1>2, DocumentIs DEF DocSets
<1>4. reader' \in [Engines -> DocSets \cup {None}] /\ task[e] \in Tasks /\ "filled" \in Holding
  BY <1>1, <1>3, ReloadIs DEF WorkTypes, Holding
<1>5. /\ WorkTypes' /\ VersionsGrow' /\ Built' = Built
      /\ at'[e] = "filled" /\ \A o \in Engines \ {e} : at'[o] = at[o] /\ task'[o] = task[o]
      /\ \A o \in Engines \ {e} : Diffed(o) => Diffed(o)'
  BY <1>1, <1>3, <1>4, WriteTypes
<1>6. ASSUME sound' PROVE (OneHolder /\ BuiltFirst /\ Kept /\ Phases)'
  <2>1. OneHolder /\ BuiltFirst /\ Kept /\ Phases
    BY <1>1, <1>6 DEF IndexInv, SoundInv
  <2>2. \A o \in Engines \ {e} : at[o] \notin Holding
    BY <1>1, <2>1 DEF OneHolder
  <2>3. OneHolder' /\ BuiltFirst'
    BY <1>1, <1>5, <2>1, <2>2 DEF OneHolder, BuiltFirst
  <2>4. Kept'
    BY <1>5 DEF Kept, Rewriting
  <2>5. \A o \in Engines \ {e} : at'[o] \notin {"indexed", "filled", "retyped", "advancing", "recording"}
                                  /\ (at'[o] = "diffed" => Diffed(o)')
    BY <1>5, <2>1, <2>2 DEF Phases, Holding
  <2>6. Indexing(e)'
    <3>1. \A p \in Pages : Fits(p, registry[e])'
      BY <1>1, <1>2, DocumentFits DEF repo
    <3>2. QED
      BY <1>1, <3>1 DEF Indexing
  <2>7. Phases'
    BY <1>5, <2>5, <2>6 DEF Phases
  <2>8. QED
    BY <2>3, <2>4, <2>7
<1>7. QED
  BY <1>5, <1>6 DEF IndexInv, SoundInv

LEMMA RetypeKeeps ==
  ASSUME IndexInv, NEW e \in Engines, Retype(e)
  PROVE  IndexInv'
<1> DEFINE types == task[e].types
           Of(p) == worktree[p] # None /\ Kind(worktree[p]) \in types
           new == [p \in Pages |-> {d \in docs[p] : d.type \notin types}
                                     \cup IF Of(p) THEN Documents(p, registry[e]) ELSE {}]
           partial == \/ Changed # {} \/ types # StaleTypes
                      \/ \E p \in Pages : Of(p) /\ worktree[p].type = None
<1>1. /\ WorkTypes /\ at[e] = "retyping" /\ lock = None /\ lock' = e /\ wrote' = e /\ docs' = new
      /\ reader' = Reloaded(e, new) /\ sound' = (sound /\ ~partial) /\ Start(e, "retyped", task[e])
      /\ UNCHANGED <<repo, state, registry>>
  BY DEF IndexInv, Retype
<1>2. registry[e] \in Versions
  BY <1>1, RegistryIs
<1>3. new \in DocSets
  <2>1. ASSUME NEW p \in Pages
        PROVE  new[p] \in SUBSET [type : {c.type : c \in Contents}, text : {c.text : c \in Contents}, under : Nat]
    <3>1. docs[p] \subseteq [type : {c.type : c \in Contents}, text : {c.text : c \in Contents}, under : Nat]
      BY <1>1 DEF WorkTypes, DocSets
    <3>2. Documents(p, registry[e]) \subseteq [type : {c.type : c \in Contents}, text : {c.text : c \in Contents}, under : Nat]
      BY <1>1, <1>2, DocumentIs
    <3>3. QED
      BY <3>1, <3>2
  <2>2. QED
    BY <2>1 DEF DocSets
<1>4. reader' \in [Engines -> DocSets \cup {None}] /\ task[e] \in Tasks /\ "retyped" \in Holding
  BY <1>1, <1>3, ReloadIs DEF WorkTypes, Holding
<1>5. /\ WorkTypes' /\ VersionsGrow' /\ Built' = Built
      /\ at'[e] = "retyped" /\ \A o \in Engines \ {e} : at'[o] = at[o] /\ task'[o] = task[o]
      /\ \A o \in Engines \ {e} : Diffed(o) => Diffed(o)'
  BY <1>1, <1>3, <1>4, WriteTypes
<1>6. ASSUME sound' PROVE (OneHolder /\ BuiltFirst /\ Kept /\ Phases)'
  <2>1. OneHolder /\ BuiltFirst /\ Kept /\ Phases /\ ~partial
    BY <1>1, <1>6 DEF IndexInv, SoundInv
  <2>2. \A o \in Engines : at[o] \notin Holding
    BY <1>1, <2>1, NoneIsNone DEF OneHolder
  <2>3. Built /\ Rewriting = {}
    BY <1>1, <2>1, <2>2 DEF BuiltFirst, Rewriting, Holding
  <2>4. OneHolder' /\ BuiltFirst'
    BY <1>1, <1>5, <2>1, <2>2, <2>3 DEF OneHolder, BuiltFirst
  <2>5. Kept'
    BY <1>5 DEF Kept, Rewriting
  <2>6. \A o \in Engines \ {e} : at'[o] \notin {"indexed", "filled", "retyped", "advancing", "recording"}
                                  /\ (at'[o] = "diffed" => Diffed(o)')
    BY <1>5, <2>1, <2>2 DEF Phases, Holding
  <2>7. ASSUME NEW p \in Pages PROVE Fits(p, registry[e])'
    <3>1. Fits(p, state.types)
      BY <2>1, <2>3 DEF Kept
    <3>2. docs'[p] = {d \in docs[p] : d.type \notin types} \cup IF Of(p) THEN Documents(p, registry[e]) ELSE {}
      BY <1>1
    <3>3. worktree' = worktree /\ schema' = schema /\ types \subseteq Types
      BY <1>1 DEF repo, WorkTypes, Tasks
    <3>4. CASE worktree[p] = None
      <4>1. docs'[p] = {}
        BY <3>1, <3>2, <3>4 DEF Fits
      <4>2. QED
        BY <3>3, <3>4, <4>1 DEF Fits
    <3>5. CASE worktree[p] # None
      <4>1. PICK d \in docs[p] :
              /\ docs[p] = {d} /\ d.type = worktree[p].type /\ d.text = worktree[p].text
              /\ IF Kind(worktree[p]) \in Types
                 THEN state.types[Kind(worktree[p])] = schema[Kind(worktree[p])] => d.under = schema[Kind(worktree[p])]
                 ELSE d.under = 0
        BY <3>1, <3>5 DEF Fits
      <4>2. CASE Of(p)
        <5>1. Kind(worktree[p]) = worktree[p].type /\ d.type \in types
          BY <2>1, <4>1, <4>2 DEF Kind
        <5>2. docs'[p] = Documents(p, registry[e])
          BY <3>2, <4>1, <4>2, <5>1
        <5>3. QED
          BY <1>1, <1>2, <3>3, <5>2, DocumentFits
      <4>3. CASE ~Of(p)
        <5>1. Kind(worktree[p]) \notin types /\ d.type \notin types
          BY <3>3, <3>5, <4>1, <4>3, NoneIsNone DEF Kind
        <5>2. docs'[p] = {d}
          BY <3>2, <4>1, <4>3, <5>1
        <5>3. Kind(worktree[p]) \in Types => state.types[Kind(worktree[p])] = schema[Kind(worktree[p])]
          BY <2>1, <5>1 DEF StaleTypes
        <5>4. QED
          BY <3>3, <3>5, <4>1, <5>2, <5>3 DEF Fits
      <4>4. QED
        BY <4>2, <4>3
    <3>6. QED
      BY <3>4, <3>5
  <2>8. Indexing(e)'
    BY <1>1, <2>7 DEF Indexing
  <2>9. Phases'
    BY <1>5, <2>6, <2>8 DEF Phases
  <2>10. QED
    BY <2>4, <2>5, <2>9
<1>7. QED
  BY <1>5, <1>6 DEF IndexInv, SoundInv

(* The two steps at the end: HEAD is read, and written to state.toml.      *)
LEMMA ReadHeadIs ==
  ASSUME WorkTypes, NEW e \in Engines, ReadHead(e)
  PROVE  \E where \in {"advancing", "recording"}, what \in Tasks :
            /\ Start(e, where, what) /\ (where = "advancing" <=> at[e] = "indexed")
            /\ what.head = CurrentHead /\ what.for = task[e].for
            /\ what.commit = task[e].commit /\ what.raced = task[e].raced
<1>1. PICK where \in {"advancing", "recording"} : where = IF at[e] = "indexed" THEN "advancing" ELSE "recording"
  OBVIOUS
<1>2. PICK what : what = [task[e] EXCEPT !.head = CurrentHead]
  OBVIOUS
<1>3. task[e] \in Tasks /\ CurrentHead \in Nat
  BY TreeIs DEF WorkTypes
<1>4. /\ what \in Tasks /\ what.head = CurrentHead /\ what.for = task[e].for
      /\ what.commit = task[e].commit /\ what.raced = task[e].raced
  BY <1>2, <1>3 DEF Tasks
<1>5. Start(e, where, what)
  BY <1>1, <1>2 DEF ReadHead
<1>6. QED
  BY <1>1, <1>4, <1>5

LEMMA ReadHeadKeeps ==
  ASSUME IndexInv, NEW e \in Engines, ReadHead(e)
  PROVE  IndexInv'
<1>1. /\ WorkTypes /\ at[e] \in {"indexed", "filled", "retyped"}
      /\ UNCHANGED <<repo, index, registry, reader, sound>>
  BY DEF IndexInv, ReadHead
<1>2. PICK where \in {"advancing", "recording"}, what \in Tasks :
        Start(e, where, what) /\ (where = "advancing" <=> at[e] = "indexed") /\ what.head = CurrentHead
  BY <1>1, ReadHeadIs
<1>3. /\ at' \in [Engines -> Places] /\ task' \in [Engines -> Tasks]
      /\ at'[e] = where /\ task'[e].head = CurrentHead
      /\ \A o \in Engines \ {e} : at'[o] = at[o] /\ task'[o] = task[o]
  BY <1>1, <1>2, StartIs DEF Places
<1>4. /\ Tree' = Tree /\ CurrentHead' = CurrentHead /\ Changed' = Changed /\ Built' = Built
      /\ \A p \in Pages : Fits(p, state.types)' <=> Fits(p, state.types)
  BY <1>1, SameIndex
<1>5. UNCHANGED <<worktree, commits, schema, edits, docs, lock, state, wrote>>
  BY <1>1 DEF repo, index
<1>6. WorkTypes'
  <2>1. \A o \in Engines : at'[o] # "down" => registry'[o] # None
    BY <1>1, <1>3 DEF WorkTypes
  <2>2. lock' # None => at'[lock'] \in Holding
    BY <1>1, <1>2, <1>3, <1>5 DEF WorkTypes, Holding
  <2>3. QED
    BY <1>1, <1>3, <1>4, <1>5, <2>1, <2>2 DEF WorkTypes
<1>7. VersionsGrow'
  BY <1>1, <1>4, <1>5 DEF IndexInv, VersionsGrow, Behind
<1>8. ASSUME sound' PROVE (OneHolder /\ BuiltFirst /\ Kept /\ Phases)'
  <2>1. OneHolder /\ BuiltFirst /\ Kept /\ Phases
    BY <1>1, <1>8 DEF IndexInv, SoundInv
  <2>2. OneHolder'
    BY <1>1, <1>3, <1>5, <2>1 DEF OneHolder, Holding
  <2>3. BuiltFirst'
    BY <1>1, <1>2, <1>3, <1>4, <2>1 DEF BuiltFirst
  <2>4. Rewriting = {} <=> Rewriting' = {}
    <3>1. e \in Rewriting <=> e \in Rewriting'
      BY <1>1, <1>2, <1>3 DEF Rewriting
    <3>2. \A o \in Engines \ {e} : o \in Rewriting <=> o \in Rewriting'
      BY <1>3 DEF Rewriting
    <3>3. Rewriting \subseteq Engines /\ Rewriting' \subseteq Engines
      BY DEF Rewriting
    <3>4. QED
      BY <3>1, <3>2, <3>3
  <2>5. Kept'
    BY <1>4, <2>1, <2>4 DEF Kept
  <2>6. \A o \in Engines : Indexing(o) => Indexing(o)'
    BY <1>1, <1>4, <1>5 DEF Indexing, Fits
  <2>7. \A o \in Engines \ {e} : Diffed(o) => Diffed(o)'
    BY <1>3, <1>4, <1>5 DEF Diffed
  <2>8. Indexing(e)
    BY <1>1, <2>1 DEF Phases
  <2>9. Phases'
    BY <1>1, <1>2, <1>3, <1>4, <1>5, <2>1, <2>6, <2>7, <2>8 DEF Phases
  <2>10. QED
    BY <2>2, <2>3, <2>5, <2>9
<1>9. QED
  BY <1>6, <1>7, <1>8 DEF IndexInv, SoundInv

LEMMA RecordKeeps ==
  ASSUME IndexInv, HeadsExist, NEW e \in Engines, Record(e)
  PROVE  IndexInv'
<1>1. /\ WorkTypes /\ at[e] \in {"advancing", "recording"} /\ task[e].head \in 1..CurrentHead
      /\ state' = [commit |-> task[e].head, types |-> registry[e]]
      /\ lock' = IF lock = e THEN None ELSE lock
      /\ UNCHANGED <<repo, docs, wrote, registry, reader, sound>>
  BY DEF IndexInv, HeadsExist, Record, Recorded, Recorders
<1>2. registry[e] \in Versions
  BY <1>1, RegistryIs
<1>3. PICK where \in {"clearing", "opening", "idle"}, what \in Tasks : Start(e, where, what)
  <2>1. CASE Start(e, "clearing", Rebuilding(e))
    BY <1>1, <2>1, RebuildingIs
  <2>2. CASE Leave(e, FALSE)
    BY <1>1, <2>2, LeaveIs
  <2>3. QED
    BY <2>1, <2>2 DEF Record
<1>4. /\ at' \in [Engines -> Places] /\ task' \in [Engines -> Tasks] /\ at'[e] = where
      /\ \A o \in Engines \ {e} : at'[o] = at[o] /\ task'[o] = task[o]
  BY <1>1, <1>3, StartIs DEF Places
<1>5. UNCHANGED <<worktree, commits, schema, edits>>
  BY <1>1 DEF repo
<1>6. Tree' = Tree /\ CurrentHead' = CurrentHead
  BY <1>5 DEF Tree, CurrentHead
<1>7. state' \in [commit : Nat, types : Versions] /\ state' # None /\ state'.commit = task[e].head
      /\ state'.types = registry[e]
  BY <1>1, <1>2, NoneIsNoValue
<1>8. Built' /\ Tree = commits[CurrentHead]
  BY <1>7 DEF Built, Tree
<1>9. WorkTypes'
  <2>1. Built' => state'.commit \in 1..CurrentHead'
    BY <1>1, <1>6, <1>7
  <2>2. \A o \in Engines : at'[o] # "down" => registry'[o] # None
    BY <1>1, <1>4 DEF WorkTypes
  <2>3. lock' # None => at'[lock'] \in Holding
    BY <1>1, <1>4 DEF WorkTypes
  <2>4. lock' \in Engines \cup {None}
    BY <1>1 DEF WorkTypes
  <2>5. QED
    BY <1>1, <1>4, <1>5, <1>6, <1>7, <2>1, <2>2, <2>3, <2>4 DEF WorkTypes
<1>10. VersionsGrow'
  <2>1. Behind(registry[e]) /\ \A o \in Engines : registry[o] # None => Behind(registry[o])
    BY <1>1, <1>2 DEF IndexInv, VersionsGrow, WorkTypes
  <2>2. QED
    BY <1>1, <1>5, <1>7, <2>1 DEF VersionsGrow, Behind
<1>11. ASSUME sound' PROVE (OneHolder /\ BuiltFirst /\ Kept /\ Phases)'
  <2>1. OneHolder /\ BuiltFirst /\ Kept /\ Phases
    BY <1>1, <1>11 DEF IndexInv, SoundInv
  <2>2. lock = e /\ \A o \in Engines \ {e} : at[o] \notin Holding
    BY <1>1, <2>1 DEF OneHolder, Holding
  <2>3. \A o \in Engines : at'[o] \notin Holding
    BY <1>4, <2>2 DEF Holding
  <2>4. OneHolder' /\ BuiltFirst'
    BY <1>8, <2>3 DEF OneHolder, BuiltFirst
  <2>5. Indexing(e) /\ task[e].head = CurrentHead
    BY <1>1, <2>1 DEF Phases
  <2>6. ASSUME NEW p \in Pages \ Changed' PROVE Fits(p, state.types)'
    <3>1. worktree[p] = Tree[p]
      BY <1>5, <1>6, <2>6 DEF Changed
    <3>2. Fits(p, registry[e])
      BY <2>5, <3>1 DEF Indexing
    <3>3. QED
      BY <1>1, <1>5, <1>7, <3>2 DEF Fits
  <2>7. Kept'
    BY <2>6 DEF Kept
  <2>8. ASSUME NEW o \in Engines \ {e}, at'[o] = "diffed" PROVE Diffed(o)'
    <3>1. Diffed(o)
      BY <1>4, <2>1, <2>8 DEF Phases
    <3>2. commits'[state'.commit] = Tree'
      BY <1>5, <1>6, <1>7, <1>8, <2>5
    <3>3. QED
      BY <1>4, <1>5, <1>6, <3>1, <3>2 DEF Diffed
  <2>9. \A o \in Engines : at'[o] \notin {"indexed", "filled", "retyped", "advancing", "recording"}
    BY <2>3 DEF Holding
  <2>10. Phases'
    BY <1>4, <2>8, <2>9 DEF Phases
  <2>11. QED
    BY <2>4, <2>7, <2>10
<1>12. QED
  BY <1>9, <1>10, <1>11 DEF IndexInv, SoundInv

LEMMA DieKeeps ==
  ASSUME IndexInv, NEW e \in Engines, Die(e)
  PROVE  IndexInv'
<1>1. /\ WorkTypes /\ Start(e, "down", NoTask) /\ reader' = [reader EXCEPT ![e] = None]
      /\ registry' = [registry EXCEPT ![e] = None] /\ lock' = IF lock = e THEN None ELSE lock
      /\ sound' = (sound /\ e \notin Rewriting) /\ UNCHANGED <<repo, docs, state, wrote>>
  BY DEF IndexInv, Die
<1>2. /\ at' \in [Engines -> Places] /\ task' \in [Engines -> Tasks] /\ at'[e] = "down"
      /\ \A o \in Engines \ {e} : at'[o] = at[o] /\ task'[o] = task[o]
  BY <1>1, JobIs, StartIs DEF Places
<1>3. /\ registry' \in [Engines -> Versions \cup {None}] /\ reader' \in [Engines -> DocSets \cup {None}]
      /\ registry'[e] = None /\ \A o \in Engines \ {e} : registry'[o] = registry[o]
  BY <1>1 DEF WorkTypes
<1>4. UNCHANGED <<worktree, commits, schema, edits>>
  BY <1>1 DEF repo
<1>5. Tree' = Tree /\ CurrentHead' = CurrentHead /\ Built' = Built
  BY <1>1, <1>4 DEF Tree, CurrentHead, Built
<1>6. Changed' = Changed
  BY <1>1, <1>4, <1>5 DEF Changed
<1>7. WorkTypes'
  <2>1. \A o \in Engines : at'[o] # "down" => registry'[o] # None
    BY <1>1, <1>2, <1>3 DEF WorkTypes
  <2>2. lock' \in Engines \cup {None} /\ (lock' # None => at'[lock'] \in Holding)
    BY <1>1, <1>2 DEF WorkTypes
  <2>3. QED
    BY <1>1, <1>2, <1>3, <1>4, <1>5, <2>1, <2>2 DEF WorkTypes
<1>8. VersionsGrow'
  BY <1>1, <1>3, <1>4, <1>5 DEF IndexInv, VersionsGrow, Behind
<1>9. ASSUME sound' PROVE (OneHolder /\ BuiltFirst /\ Kept /\ Phases)'
  <2>1. OneHolder /\ BuiltFirst /\ Kept /\ Phases /\ e \notin Rewriting
    BY <1>1, <1>9 DEF IndexInv, SoundInv
  <2>2. OneHolder' /\ BuiltFirst'
    BY <1>1, <1>2, <1>5, <2>1 DEF OneHolder, BuiltFirst, Holding
  <2>3. Rewriting' = Rewriting
    BY <1>2, <2>1 DEF Rewriting
  <2>4. \A p \in Pages : Fits(p, state.types)' <=> Fits(p, state.types)
    BY <1>1, <1>4 DEF Fits
  <2>5. Kept'
    BY <1>5, <1>6, <2>1, <2>3, <2>4 DEF Kept
  <2>6. ASSUME NEW o \in Engines \ {e} PROVE (Diffed(o) => Diffed(o)') /\ (Indexing(o) => Indexing(o)')
    BY <1>1, <1>2, <1>3, <1>4, <1>5 DEF Diffed, Indexing, Fits
  <2>7. Phases'
    BY <1>1, <1>2, <1>3, <1>5, <2>1, <2>6 DEF Phases
  <2>8. QED
    BY <2>2, <2>5, <2>7
<1>10. QED
  BY <1>7, <1>8, <1>9 DEF IndexInv, SoundInv

-----------------------------------------------------------------------------
(* The invariant.                                                          *)

LEMMA StartsRight == InitIndex => IndexInv
<1> SUFFICES ASSUME InitIndex PROVE IndexInv
  OBVIOUS
<1>1. worktree \in Files /\ commits = <<worktree>> /\ CurrentHead = 1 /\ ~Built /\ state = None
      /\ lock = None /\ wrote = None /\ edits = 0 /\ schema = [t \in Types |-> 0]
      /\ docs = [p \in Pages |-> {}] /\ registry = [e \in Engines |-> None]
      /\ reader = [e \in Engines |-> None] /\ at = [e \in Engines |-> "down"]
      /\ task = [e \in Engines |-> NoTask]
  BY DEF InitIndex, CurrentHead, Built
<1>2. WorkTypes
  <2>1. commits \in Seq(Files) /\ CurrentHead \in 1..MaxCommits
    BY <1>1, BoundsAreNaturals
  <2>2. schema \in Versions /\ edits \in 0..MaxEdits /\ \A t \in Types : schema[t] <= edits
    BY <1>1, BoundsAreNaturals DEF Versions
  <2>3. docs \in DocSets
    BY <1>1 DEF DocSets
  <2>4. at \in [Engines -> Places] /\ task \in [Engines -> Tasks]
    BY <1>1, JobIs DEF Places
  <2>5. \A e \in Engines : at[e] = "down"
    BY <1>1
  <2>6. QED
    BY <1>1, <2>1, <2>2, <2>3, <2>4, <2>5 DEF WorkTypes
<1>3. VersionsGrow
  BY <1>1 DEF VersionsGrow
<1>4. SoundInv
  BY <1>1 DEF SoundInv, OneHolder, BuiltFirst, Kept, Phases, Holding
<1>5. QED
  BY <1>2, <1>3, <1>4 DEF IndexInv

LEMMA StepsKeep == IndexInv /\ HeadsExist /\ [NextIndex]_indexVars => IndexInv'
<1> SUFFICES ASSUME IndexInv, HeadsExist, [NextIndex]_indexVars PROVE IndexInv'
  OBVIOUS
<1>1. Paths \subseteq SUBSET Pages
  BY DEF Paths
<1>2. CASE World
  BY <1>1, <1>2, EditPageKeeps, EditSchemaKeeps, ExternalCommitKeeps DEF World
<1>3. ASSUME NEW e \in Engines, Request(e) PROVE IndexInv'
  BY <1>1, <1>3, MountKeeps, DieKeeps, WatchKeeps, AdmissionKeeps DEF Request
<1>4. ASSUME NEW e \in Engines, Work(e) PROVE IndexInv'
  BY <1>4, OpenKeeps, DiffKeeps, IndexChangedKeeps, FailureKeeps, ClearKeeps, FillKeeps, RetypeKeeps,
     ReadHeadKeeps, RecordKeeps
     DEF Work
<1>5. CASE UNCHANGED indexVars
  <2>1. UNCHANGED <<worktree, commits, schema, edits, docs, lock, state, wrote, registry, reader, at, task, sound>>
    BY <1>5 DEF indexVars, repo, index, engine
  <2>2. Tree' = Tree /\ CurrentHead' = CurrentHead /\ Built' = Built
    BY <2>1 DEF Tree, CurrentHead, Built
  <2>3. WorkTypes' /\ VersionsGrow'
    BY <2>1, <2>2 DEF IndexInv, WorkTypes, VersionsGrow, Behind
  <2>4. (OneHolder <=> OneHolder') /\ (BuiltFirst <=> BuiltFirst')
    BY <2>1, <2>2 DEF OneHolder, BuiltFirst
  <2>5. Changed' = Changed /\ Rewriting' = Rewriting
    BY <2>1, <2>2 DEF Changed, Rewriting
  <2>6. \A p \in Pages : Fits(p, state.types)' <=> Fits(p, state.types)
    BY <2>1 DEF Fits
  <2>7. Kept <=> Kept'
    BY <2>2, <2>5, <2>6 DEF Kept
  <2>8. Phases <=> Phases'
    BY <2>1, <2>2 DEF Phases, Diffed, Indexing, Fits
  <2>9. QED
    BY <2>1, <2>3, <2>4, <2>7, <2>8 DEF IndexInv, SoundInv
<1>6. QED
  BY <1>2, <1>3, <1>4, <1>5 DEF NextIndex

(* What a step of engine e leaves to the others, and to history.           *)
Apart(e) ==
  /\ \A o \in Engines \ {e} : at'[o] = at[o] /\ task'[o] = task[o] /\ reader'[o] = reader[o]
  /\ wrote' = e \/ (UNCHANGED <<docs, wrote>> /\ (lock' = lock \/ lock = e))

Extends ==
  /\ CurrentHead <= CurrentHead' /\ \A n \in 1..CurrentHead : commits'[n] = commits[n]
  /\ \/ state' = state
     \/ Built' /\ CurrentHead' = CurrentHead /\ \E g \in Recorders : state'.commit = task[g].head

(* HEAD is read as it is, and kept until it is written.                    *)
Heads ==
  \A g \in Recorders' :
    task'[g].head = CurrentHead' \/ (g \in Recorders /\ task'[g].head = task[g].head)

(* Every step of an engine leaves the others alone, and history.           *)
LEMMA StartsApart ==
  ASSUME WorkTypes, NEW e \in Engines, NEW where, NEW what, Start(e, where, what)
  PROVE  at'[e] = where /\ task'[e] = what /\ \A o \in Engines \ {e} : at'[o] = at[o] /\ task'[o] = task[o]
BY DEF Start, WorkTypes

LEMMA EnginesApart ==
  ASSUME WorkTypes, NEW e \in Engines, Request(e) \/ Work(e)
  PROVE  Apart(e)
<1>1. \A o \in Engines \ {e} : at'[o] = at[o] /\ task'[o] = task[o]
  <2>1. CASE Open(e)
    BY <2>1 DEF Open, WorkTypes
  <2>2. CASE ~Open(e)
    <3>1. \E where, what : Start(e, where, what)
      BY <2>2, Zenon DEF Request, Work, Mount, Die, WatchPages, WatchSchema, RebuildIndex, Ingest, ContentCommit, Diff,
         IndexChanged, WriterBusy, Clear, Fill, FillFails, Retype, RetypeFails, ReadHead, Record, RecordFails, Leave
    <3>2. QED
      BY <3>1, StartsApart
  <2>3. QED
    BY <2>1, <2>2
<1>2. \A o \in Engines \ {e} : reader'[o] = reader[o]
  <2>1. \/ UNCHANGED reader \/ (\E r : reader' = [reader EXCEPT ![e] = r])
        \/ (\E new : reader' = Reloaded(e, new))
    BY Zenon DEF Request, Work, Mount, Die, WatchPages, WatchSchema, RebuildIndex, Ingest, ContentCommit, Open, Diff,
       IndexChanged, WriterBusy, Clear, Fill, FillFails, Retype, RetypeFails, ReadHead, Record, RecordFails
  <2>2. QED
    BY <2>1 DEF Reloaded, WorkTypes
<1>3. wrote' = e \/ (UNCHANGED <<docs, wrote>> /\ (lock' = lock \/ lock = e))
  BY DEF Request, Work, Mount, Die, WatchPages, WatchSchema, RebuildIndex, Ingest, ContentCommit, Open, Diff,
       IndexChanged, WriterBusy, Clear, Fill, FillFails, Retype, RetypeFails, ReadHead, Record, RecordFails, index
<1>4. QED
  BY <1>1, <1>2, <1>3 DEF Apart

(* History is only added to.                                               *)
LEMMA CommitExtends ==
  ASSUME WorkTypes, NEW S \in SUBSET Pages, Commit(S), UNCHANGED state
  PROVE  Extends
<1>1. Staged(S) \in Files
  BY TreeIs DEF Staged, Files, WorkTypes
<1>2. CurrentHead' = CurrentHead + 1 /\ \A n \in 1..CurrentHead : commits'[n] = commits[n]
  BY <1>1 DEF Commit, CurrentHead, WorkTypes
<1>3. QED
  BY <1>2, TreeIs DEF Extends

LEMMA HistoryExtends ==
  ASSUME IndexInv, NextIndex
  PROVE  Extends
<1>1. WorkTypes /\ CurrentHead \in Nat /\ Paths \subseteq SUBSET Pages
  BY TreeIs DEF IndexInv, Paths
<1>2. CASE UNCHANGED <<commits, state>>
  BY <1>1, <1>2 DEF Extends, CurrentHead
<1>3. ASSUME NEW S \in Paths, Commit(S), UNCHANGED state PROVE Extends
  BY <1>1, <1>3, CommitExtends
<1>4. CASE World
  BY <1>2, <1>3, <1>4 DEF World, EditPage, EditSchema, ExternalCommit, index
<1>5. ASSUME NEW e \in Engines, Request(e) PROVE Extends
  <2>1. CASE Mount(e) \/ Die(e) \/ WatchPages(e) \/ WatchSchema(e) \/ RebuildIndex(e)
    BY <1>2, <2>1 DEF Mount, Die, WatchPages, WatchSchema, RebuildIndex, repo, index
  <2>2. ASSUME NEW S \in Paths, Ingest(e, S) \/ ContentCommit(e, S) PROVE Extends
    BY <1>2, <1>3, <2>2 DEF Ingest, ContentCommit, index
  <2>3. QED
    BY <1>5, <2>1, <2>2 DEF Request
<1>6. ASSUME NEW e \in Engines, Work(e) PROVE Extends
  <2>1. CASE Record(e)
    <3>1. state'.commit = task[e].head /\ e \in Recorders /\ CurrentHead' = CurrentHead /\ commits' = commits
      BY <2>1 DEF Record, Recorded, repo, CurrentHead
    <3>2. Built'
      <4>1. registry[e] \in Versions /\ task[e].head \in Nat
        BY <1>1, <3>1, RegistryIs DEF Recorders, WorkTypes, Tasks
      <4>2. [commit |-> task[e].head, types |-> registry[e]] # None
        BY <4>1, NoneIsNoValue
      <4>3. QED
        BY <2>1, <4>2 DEF Record, Recorded, Built
    <3>3. QED
      BY <1>1, <3>1, <3>2 DEF Extends
  <2>2. CASE ~Record(e)
    <3>1. UNCHANGED <<commits, state>>
      BY <1>6, <2>2 DEF Work, Open, Diff, IndexChanged, WriterBusy, Clear, Fill, FillFails, Retype, RetypeFails,
         ReadHead, RecordFails, repo, index
    <3>2. QED
      BY <1>2, <3>1
  <2>3. QED
    BY <2>1, <2>2
<1>7. QED
  BY <1>4, <1>5, <1>6 DEF NextIndex

(* An engine comes to its record by reading HEAD.                          *)
LEMMA ReadsFirst ==
  ASSUME WorkTypes, NEW e \in Engines, Request(e) \/ Work(e), ~ReadHead(e)
  PROVE  e \notin Recorders'
<1>1. CASE Open(e)
  BY <1>1 DEF Open, Recorders, WorkTypes
<1>2. CASE ~Open(e)
  <2> DEFINE Elsewhere == Places \ {"advancing", "recording"}
  <2>1. CASE \/ Mount(e) \/ WatchSchema(e)
    <3>1. PICK where \in Elsewhere : \E what : Start(e, where, what)
      <4>1. Remedy[Staleness] \in Elsewhere /\ "opening" \in Elsewhere
        BY RemedyIs DEF Places
      <4>2. \A b \in BOOLEAN : (IF b THEN Remedy[Staleness] ELSE "opening") \in Elsewhere
        BY <4>1
      <4>3. (~Built \/ AutoRebuild) \in BOOLEAN
        OBVIOUS
      <4>4. QED
        BY <2>1, <4>1, <4>2, <4>3 DEF Mount, WatchSchema
    <3>2. QED
      BY <3>1, StartsApart DEF Recorders
  <2>2. CASE ~Mount(e) /\ ~WatchSchema(e)
    <3>1. PICK where \in Elsewhere : \E what : Start(e, where, what)
      <4>1. /\ "down" \in Elsewhere /\ "idle" \in Elsewhere /\ "opening" \in Elsewhere
            /\ "diffing" \in Elsewhere /\ "diffed" \in Elsewhere /\ "indexed" \in Elsewhere
            /\ "clearing" \in Elsewhere /\ "cleared" \in Elsewhere /\ "filled" \in Elsewhere
            /\ "retyped" \in Elsewhere
        BY DEF Places
      <4>2. ASSUME NEW warned, Leave(e, warned) PROVE \E where \in Elsewhere : \E what : Start(e, where, what)
        <5>1. PICK where \in Elsewhere : where = IF task[e].for = "mount" THEN "opening" ELSE "idle"
          BY <4>1
        <5>2. QED
          BY <4>2, <5>1 DEF Leave
      <4>3. QED
        BY <1>2, <2>2, <4>1, <4>2, Zenon DEF Request, Work, Die, WatchPages, RebuildIndex, Ingest, ContentCommit,
           Diff, IndexChanged, WriterBusy, Clear, Fill, FillFails, Retype, RetypeFails, Record, RecordFails
    <3>2. QED
      BY <3>1, StartsApart DEF Recorders
  <2>3. QED
    BY <2>1, <2>2
<1>3. QED
  BY <1>1, <1>2

LEMMA HeadsStay ==
  ASSUME IndexInv, NextIndex
  PROVE  Heads
<1>1. WorkTypes
  BY DEF IndexInv
<1>2. CASE World
  BY <1>2 DEF World, EditPage, EditSchema, ExternalCommit, engine, Heads, Recorders
<1>3. ASSUME NEW e \in Engines, Request(e) \/ Work(e) PROVE Heads
  <2>1. \A o \in Engines \ {e} : at'[o] = at[o] /\ task'[o] = task[o]
    BY <1>1, <1>3, EnginesApart DEF Apart
  <2>2. e \in Recorders' => task'[e].head = CurrentHead'
    <3>1. CASE ReadHead(e)
      <4>1. PICK where \in {"advancing", "recording"}, what \in Tasks : Start(e, where, what) /\ what.head = CurrentHead
        BY <1>1, <3>1, ReadHeadIs
      <4>2. task'[e].head = CurrentHead /\ CurrentHead' = CurrentHead
        BY <1>1, <3>1, <4>1, StartsApart DEF ReadHead, repo, CurrentHead
      <4>3. QED
        BY <4>2
    <3>2. CASE ~ReadHead(e)
      BY <1>1, <1>3, <3>2, ReadsFirst
    <3>3. QED
      BY <3>1, <3>2
  <2>3. QED
    BY <2>1, <2>2 DEF Heads, Recorders
<1>4. QED
  BY <1>2, <1>3 DEF NextIndex

LEMMA HeadsKeep ==
  ASSUME IndexInv, HeadsExist, [NextIndex]_indexVars
  PROVE  HeadsExist'
<1>1. CASE NextIndex
  <2>1. Heads /\ Extends /\ CurrentHead \in Nat \ {0}
    BY <1>1, HeadsStay, HistoryExtends, TreeIs DEF IndexInv
  <2>2. CurrentHead' \in Nat \ {0} /\ CurrentHead <= CurrentHead'
    <3>1. CurrentHead' \in 1..MaxCommits
      BY StepsKeep DEF IndexInv, WorkTypes
    <3>2. QED
      BY <2>1, <3>1, BoundsAreNaturals DEF Extends
  <2>3. QED
    BY <2>1, <2>2 DEF Heads, HeadsExist
<1>2. CASE UNCHANGED indexVars
  BY <1>2 DEF indexVars, engine, repo, HeadsExist, Recorders, CurrentHead
<1>3. QED
  BY <1>1, <1>2

(* The documents that fit state.toml are those the pages should have, when *)
(* state.toml names the schema on disk.                                    *)
LEMMA NothingIsForgotten == IndexInv => NothingForgotten
<1> SUFFICES ASSUME IndexInv, sound, Rewriting = {}, Built, StaleTypes = {},
                    NEW p \in Pages \ Changed
             PROVE  docs[p] = Documents(p, schema)
  BY DEF NothingForgotten, Forgotten
<1>1. WorkTypes /\ schema \in Versions
  BY DEF IndexInv, WorkTypes
<1>2. Fits(p, state.types)
  BY DEF IndexInv, SoundInv, Kept
<1>3. CASE worktree[p] = None
  BY <1>2, <1>3 DEF Fits, Documents
<1>4. CASE worktree[p] # None
  <2>1. PICK d \in docs[p] :
          /\ docs[p] = {d} /\ d.type = worktree[p].type /\ d.text = worktree[p].text
          /\ IF Kind(worktree[p]) \in Types
             THEN state.types[Kind(worktree[p])] = schema[Kind(worktree[p])] => d.under = schema[Kind(worktree[p])]
             ELSE d.under = 0
    BY <1>2, <1>4 DEF Fits
  <2>2. d.under = IF Kind(worktree[p]) \in Types THEN schema[Kind(worktree[p])] ELSE 0
    BY <2>1 DEF StaleTypes
  <2>3. d \in [type : {c.type : c \in Contents}, text : {c.text : c \in Contents}, under : Nat]
    BY <1>1, <2>1 DEF WorkTypes, DocSets
  <2>4. d = [type |-> d.type, text |-> d.text, under |-> d.under]
    BY <2>3
  <2>5. Documents(p, schema) = {d}
    BY <1>4, <2>1, <2>2, <2>4 DEF Documents, Document
  <2>6. QED
    BY <2>1, <2>5
<1>5. QED
  BY <1>3, <1>4

(* state.toml keeps its promise: once it names the schema on disk, every   *)
(* page whose document is out of date is one the next update will visit,   *)
(* until one of the events the code does not provide for.                  *)
THEOREM IndexStaysCurrent == SpecIndex => []IndexKeepsUp
<1>1. InitIndex => IndexInv /\ HeadsExist
  BY StartsRight DEF InitIndex, HeadsExist, Recorders
<1>2. IndexInv /\ HeadsExist /\ [NextIndex]_indexVars => IndexInv' /\ HeadsExist'
  BY StepsKeep, HeadsKeep
<1>3. IndexInv => IndexKeepsUp
  BY TypesAreOK, NothingIsForgotten DEF IndexInv, IndexKeepsUp
<1>4. QED
  BY <1>1, <1>2, <1>3, PTL DEF SpecIndex

-----------------------------------------------------------------------------
(* What an engine serves, and what it has been told.                       *)

(* An engine without a reader is on its way to one; the last to write      *)
(* serves what it wrote, or has the directory it cleared to itself.        *)
Serves(e) ==
  /\ at[e] = "down" => reader[e] = None
  /\ reader[e] = None /\ at[e] # "down" => task[e].for = "mount" /\ at[e] # "idle"
  /\ wrote = e => IF at[e] = "cleared" THEN lock = e ELSE reader[e] \in {None, docs}

(* An admission waits for a commit that exists, and returns without a      *)
(* warning when that commit, or one after it with the same pages, is the   *)
(* recorded one.  It stays the recorded one, because where the admission   *)
(* was not raced, no engine is about to write an earlier HEAD.             *)
Ahead(e) ==
  task[e].commit # 0 /\ ~task[e].raced => \A g \in Recorders : task[g].head >= task[e].commit
Vouched(e) ==
  Built /\ at[e] = "idle" /\ task[e].commit # 0 /\ ~task[e].warned /\ ~task[e].raced =>
    \/ state.commit >= task[e].commit
    \/ \E n \in task[e].commit..CurrentHead : commits[n] = commits[state.commit]
Admitted(e) == task[e].commit <= CurrentHead /\ Vouched(e)

WorkInv == \A e \in Engines : Serves(e) /\ Admitted(e) /\ Ahead(e)

LEMMA OthersServe ==
  ASSUME NEW e \in Engines, NEW o \in Engines \ {e}, Apart(e), Serves(o)
  PROVE  Serves(o)'
BY DEF Apart, Serves

LEMMA OthersAnswer ==
  ASSUME WorkTypes, WorkTypes', NEW o \in Engines, Extends, Admitted(o), Ahead(o),
         task'[o] = task[o], at'[o] = at[o]
  PROVE  Admitted(o)'
<1>1. task[o].commit \in Nat /\ CurrentHead \in Nat /\ CurrentHead' \in Nat
  BY TreeIs DEF WorkTypes, Tasks
<1>2. task'[o].commit <= CurrentHead'
  BY <1>1 DEF Extends, Admitted
<1>3. Vouched(o)'
  <2>1. CASE state' = state
    <3>1. ASSUME Built, at[o] = "idle", task[o].commit # 0, ~task[o].warned, ~task[o].raced
          PROVE  \/ state.commit >= task[o].commit
                 \/ \E n \in task[o].commit..CurrentHead' : commits'[n] = commits'[state.commit]
      <4>1. commits'[state.commit] = commits[state.commit]
        BY <3>1 DEF Extends, WorkTypes
      <4>2. CASE state.commit >= task[o].commit
        BY <4>2
      <4>3. ASSUME NEW n \in task[o].commit..CurrentHead, commits[n] = commits[state.commit]
            PROVE  \E m \in task[o].commit..CurrentHead' : commits'[m] = commits'[state.commit]
        <5>1. n \in 1..CurrentHead /\ n \in task[o].commit..CurrentHead'
          BY <1>1, <3>1 DEF Extends
        <5>2. commits'[n] = commits[n]
          BY <5>1 DEF Extends
        <5>3. QED
          BY <4>1, <4>3, <5>1, <5>2
      <4>4. QED
        BY <3>1, <4>2, <4>3 DEF Admitted, Vouched
    <3>2. Built' <=> Built
      BY <2>1 DEF Built
    <3>3. QED
      BY <2>1, <3>1, <3>2 DEF Vouched
  <2>2. ASSUME Built', NEW g \in Recorders, state'.commit = task[g].head PROVE Vouched(o)'
    BY <1>1, <2>2 DEF Ahead, Vouched
  <2>3. QED
    BY <2>1, <2>2 DEF Extends
<1>4. QED
  BY <1>2, <1>3 DEF Admitted

(* Engine e goes on, or returns to its caller, with the index as it is.    *)
LEMMA GoesOn ==
  ASSUME WorkTypes, NEW e \in Engines, NEW where \in Places \ {"down", "cleared"}, NEW what \in Tasks,
         Start(e, where, what), Serves(e), UNCHANGED <<docs, wrote, reader>>,
         reader[e] = None => what.for = "mount" /\ where # "idle",
         at[e] = "cleared" => lock # e
  PROVE  Serves(e)'
<1>1. at'[e] = where /\ task'[e] = what
  BY StartIs
<1>2. wrote' = e => reader'[e] \in {None, docs'}
  BY DEF Serves
<1>3. QED
  BY <1>1, <1>2 DEF Serves

LEMMA Returns ==
  ASSUME WorkTypes, NEW e \in Engines, NEW warned \in BOOLEAN, Leave(e, warned), Serves(e), Admitted(e),
         at[e] # "down", UNCHANGED <<docs, wrote, reader, commits>>,
         at[e] = "cleared" => lock # e,
         ~warned /\ Built' /\ task[e].commit # 0 /\ ~task[e].raced =>
           state'.commit >= task[e].commit \/ commits[state'.commit] = Tree
  PROVE  Serves(e)' /\ Admitted(e)'
<1>1. PICK where \in {"opening", "idle"}, what \in Tasks :
        /\ Start(e, where, what)
        /\ where = "opening" <=> task[e].for = "mount"
        /\ what.for = IF task[e].for = "mount" THEN "mount" ELSE "none"
        /\ what.commit = task[e].commit /\ what.raced = task[e].raced /\ what.warned = warned
  BY LeaveIs
<1>2. where \in Places /\ where \in Places \ {"down", "cleared"}
  BY DEF Places
<1>3. reader[e] = None => what.for = "mount" /\ where # "idle"
  BY <1>1 DEF Serves
<1>4. Serves(e)'
  BY <1>1, <1>2, <1>3, GoesOn
<1>5. at'[e] = where /\ task'[e] = what
  BY <1>1, <1>2, StartIs
<1>6. CurrentHead' = CurrentHead /\ Tree' = Tree /\ Tree = commits[CurrentHead] /\ commits' = commits
  BY DEF CurrentHead, Tree
<1>7. task[e].commit \in Nat /\ task[e].commit <= CurrentHead /\ CurrentHead \in Nat
  BY TreeIs DEF WorkTypes, Tasks, Admitted
<1>8. CASE warned
  BY <1>1, <1>4, <1>5, <1>6, <1>7, <1>8 DEF Admitted, Vouched
<1>9. CASE ~warned
  <2>1. CurrentHead \in task[e].commit..CurrentHead
    BY <1>7
  <2>2. Built' /\ task[e].commit # 0 /\ ~task[e].raced =>
          \/ state'.commit >= task[e].commit
          \/ \E n \in task[e].commit..CurrentHead : commits[n] = commits[state'.commit]
    BY <1>6, <1>9, <2>1
  <2>3. QED
    BY <1>1, <1>4, <1>5, <1>6, <1>7, <2>2 DEF Admitted, Vouched
<1>10. QED
  BY <1>4, <1>8, <1>9

LEMMA NotIdle ==
  ASSUME NEW e \in Engines, at'[e] # "idle" \/ task'[e].commit = 0, task'[e].commit <= CurrentHead'
  PROVE  Admitted(e)'
BY DEF Admitted, Vouched

(* What each step does for the engine that takes it.                       *)

(* Work that ends in a call or an event, or goes on to more work.          *)
LEMMA TakesUp ==
  ASSUME WorkTypes, NEW e \in Engines,
         NEW where \in {"opening", "diffing", "diffed", "clearing", "retyping", "advancing", "recording"},
         NEW what \in Tasks, Start(e, where, what), Serves(e), UNCHANGED <<docs, wrote, reader>>,
         reader[e] = None => what.for = "mount", at[e] = "cleared" => lock # e,
         what.commit <= CurrentHead'
  PROVE  Serves(e)' /\ Admitted(e)'
<1>1. where \in Places \ {"down", "cleared"} /\ where # "idle" /\ where \in Places
  BY DEF Places
<1>2. Serves(e)'
  BY <1>1, GoesOn
<1>3. at'[e] = where /\ task'[e] = what
  BY <1>1, StartIs
<1>4. QED
  BY <1>1, <1>2, <1>3, NotIdle

(* A full rebuild in place of what could not be done, for the same caller. *)
LEMMA TurnsToRebuild ==
  ASSUME WorkTypes, NEW e \in Engines, Start(e, "clearing", Rebuilding(e)), Serves(e), Admitted(e), at[e] # "down",
         UNCHANGED <<docs, wrote, reader, commits>>, at[e] = "cleared" => lock # e
  PROVE  Serves(e)' /\ Admitted(e)'
<1>1. Rebuilding(e) \in Tasks /\ Rebuilding(e).for = task[e].for /\ Rebuilding(e).commit = task[e].commit
  BY RebuildingIs
<1>2. Rebuilding(e).commit <= CurrentHead'
  BY <1>1 DEF Admitted, CurrentHead
<1>3. reader[e] = None => Rebuilding(e).for = "mount"
  BY <1>1 DEF Serves
<1>4. QED
  BY <1>1, <1>2, <1>3, TakesUp

(* What an admission waits for, and whether it was raced.                  *)
LEMMA ContentCommitIs ==
  ASSUME WorkTypes, NEW e \in Engines, NEW S, ContentCommit(e, S)
  PROVE  \E what \in Tasks : /\ Start(e, "diffing", what) /\ what.commit = CurrentHead + 1
                             /\ what.raced <=> Recorders # {}
<1>1. PICK r \in BOOLEAN : r = (Recorders # {})
  OBVIOUS
<1>2. PICK what : what = [Job("commit") EXCEPT !.commit = CurrentHead + 1, !.raced = r]
  OBVIOUS
<1>3. what \in Tasks /\ what.commit = CurrentHead + 1 /\ what.raced = r
  <2>1. CurrentHead + 1 \in Nat /\ Job("commit") \in Tasks
    BY TreeIs, JobIs
  <2>2. QED
    BY <1>2, <2>1 DEF Tasks
<1>4. Start(e, "diffing", what)
  BY <1>1, <1>2 DEF ContentCommit
<1>5. QED
  BY <1>1, <1>3, <1>4

LEMMA IngestIs ==
  ASSUME WorkTypes, NEW e \in Engines, NEW S, Ingest(e, S)
  PROVE  \E what \in Tasks :
            /\ Start(e, "diffing", what)
            /\ \/ what.commit = 0
               \/ Commit(S) /\ what.commit = CurrentHead + 1 /\ (what.raced <=> Recorders # {})
<1>1. PICK n \in Nat : n = IF Staged(S) # Tree THEN CurrentHead + 1 ELSE 0
  BY TreeIs
<1>2. PICK b \in BOOLEAN : b = (\E p \in S : worktree[p] # None /\ (p \in Changed \/ Changed = {}))
  OBVIOUS
<1>3. PICK r \in BOOLEAN : r = (Staged(S) # Tree /\ Recorders # {})
  OBVIOUS
<1>4. PICK what : what = [Job("ingest") EXCEPT !.validated = b, !.commit = n, !.raced = r]
  OBVIOUS
<1>5. what \in Tasks /\ what.commit = n /\ what.raced = r
  <2>1. Job("ingest") \in Tasks
    BY JobIs
  <2>2. QED
    BY <1>4, <2>1 DEF Tasks
<1>6. Start(e, "diffing", what) /\ (Staged(S) # Tree => Commit(S))
  BY <1>1, <1>2, <1>3, <1>4 DEF Ingest
<1>7. QED
  BY <1>1, <1>3, <1>5, <1>6

LEMMA RequestsServe ==
  ASSUME IndexInv, IndexInv', NEW e \in Engines, Request(e), Serves(e), Admitted(e)
  PROVE  Serves(e)' /\ Admitted(e)'
<1>1. WorkTypes /\ WorkTypes' /\ CurrentHead \in Nat /\ CurrentHead' \in Nat
  BY TreeIs DEF IndexInv, WorkTypes
<1>2. CASE Mount(e)
  <2>1. PICK where \in {"opening", "diffing", "retyping", "clearing"} :
          where = IF ~Built \/ AutoRebuild THEN Remedy[Staleness] ELSE "opening"
    BY RemedyIs
  <2>2. PICK types \in SUBSET Types : types = IF Built THEN StaleTypes ELSE {}
    BY DEF StaleTypes
  <2>3. PICK what : what = [Job("mount") EXCEPT !.types = types]
    OBVIOUS
  <2>4. what \in Tasks /\ what.for = "mount" /\ what.commit = 0
    BY <2>3, JobIs DEF Tasks
  <2>5. Start(e, where, what) /\ at[e] = "down" /\ UNCHANGED <<docs, wrote, reader>>
    BY <1>2, <2>1, <2>2, <2>3 DEF Mount, index
  <2>6. what.commit <= CurrentHead'
    BY <1>1, <2>4
  <2>7. QED
    BY <1>1, <2>4, <2>5, <2>6, TakesUp
<1>3. CASE Die(e)
  <2>1. Start(e, "down", NoTask) /\ reader' = [reader EXCEPT ![e] = None] /\ UNCHANGED <<docs, wrote>>
    BY <1>3 DEF Die
  <2>2. at'[e] = "down" /\ task'[e] = NoTask
    BY <1>1, <2>1, JobIs, StartIs DEF Places
  <2>3. reader'[e] = None
    BY <1>1, <2>1 DEF WorkTypes
  <2>4. Serves(e)'
    BY <2>1, <2>2, <2>3 DEF Serves
  <2>5. task'[e].commit = 0 /\ task'[e].commit <= CurrentHead'
    BY <1>1, <2>2 DEF NoTask
  <2>6. QED
    BY <2>4, <2>5, NotIdle
<1>4. ASSUME at[e] = "idle", NEW where \in {"opening", "diffing", "clearing", "retyping"}, NEW what \in Tasks,
             Start(e, where, what), what.commit <= CurrentHead', UNCHANGED <<docs, wrote, reader>>
      PROVE  Serves(e)' /\ Admitted(e)'
  BY <1>1, <1>4, TakesUp DEF Serves
<1>5. CASE WatchPages(e)
  BY <1>1, <1>4, <1>5, JobIs DEF WatchPages, index
<1>6. CASE RebuildIndex(e)
  BY <1>1, <1>4, <1>6, JobIs DEF RebuildIndex, index
<1>7. CASE WatchSchema(e)
  <2>1. PICK types \in SUBSET Types : types = IF Built THEN StaleTypes ELSE {}
    BY DEF StaleTypes
  <2>2. PICK what : what = [Job("watch") EXCEPT !.types = types]
    OBVIOUS
  <2>3. what \in Tasks /\ what.commit = 0
    BY <2>2, JobIs DEF Tasks
  <2>4. Start(e, Remedy[Staleness], what) /\ at[e] = "idle" /\ UNCHANGED <<docs, wrote, reader>>
    BY <1>7, <2>1, <2>2 DEF WatchSchema, index
  <2>5. what.commit <= CurrentHead'
    BY <1>1, <2>3
  <2>6. Remedy[Staleness] \in {"opening", "diffing", "clearing", "retyping"}
    BY RemedyIs
  <2>7. QED
    BY <1>4, <2>3, <2>4, <2>5, <2>6
<1>8. ASSUME NEW S \in Paths, Commit(S) PROVE CurrentHead' = CurrentHead + 1
  <2>1. Staged(S) \in Files
    BY <1>1, TreeIs DEF Staged, Files, WorkTypes
  <2>2. QED
    BY <1>1, <1>8, <2>1 DEF Commit, CurrentHead, WorkTypes
<1>9. ASSUME NEW S \in Paths, ContentCommit(e, S) PROVE Serves(e)' /\ Admitted(e)'
  <2>1. PICK what \in Tasks : Start(e, "diffing", what) /\ what.commit = CurrentHead + 1
    BY <1>1, <1>9, ContentCommitIs
  <2>2. what \in Tasks /\ what.commit = CurrentHead + 1
    BY <2>1
  <2>3. Start(e, "diffing", what) /\ at[e] = "idle" /\ UNCHANGED <<docs, wrote, reader>> /\ Commit(S)
    BY <1>9, <2>1 DEF ContentCommit, index
  <2>4. what.commit <= CurrentHead'
    BY <1>1, <1>8, <2>2, <2>3
  <2>5. QED
    BY <1>4, <2>2, <2>3, <2>4
<1>10. ASSUME NEW S \in Paths, Ingest(e, S) PROVE Serves(e)' /\ Admitted(e)'
  <2>1. PICK what \in Tasks :
          /\ Start(e, "diffing", what)
          /\ what.commit = 0 \/ (Commit(S) /\ what.commit = CurrentHead + 1)
    BY <1>1, <1>10, IngestIs
  <2>2. at[e] = "idle" /\ UNCHANGED <<docs, wrote, reader>>
    BY <1>10 DEF Ingest, index
  <2>3. what.commit <= CurrentHead'
    BY <1>1, <1>8, <2>1
  <2>4. QED
    BY <1>4, <2>1, <2>2, <2>3
<1>11. QED
  BY <1>2, <1>3, <1>5, <1>6, <1>7, <1>9, <1>10 DEF Request

LEMMA ServedAtOnce ==
  ASSUME WorkTypes, NEW e \in Engines, NEW where \in {"indexed", "filled", "retyped"}, NEW what \in Tasks,
         Start(e, where, what), Serves(e), Admitted(e), UNCHANGED commits,
         what.for = task[e].for, what.commit = task[e].commit, at[e] # "down",
         reader'[e] \in {None, docs'}, reader'[e] = None => reader[e] = None
  PROVE  Serves(e)' /\ Admitted(e)'
<1>1. at'[e] = where /\ task'[e] = what
  BY StartIs DEF Places
<1>2. Serves(e)'
  BY <1>1 DEF Serves
<1>3. Admitted(e)'
  BY <1>1 DEF Admitted, Vouched, CurrentHead
<1>4. QED
  BY <1>2, <1>3

LEMMA WorkServes ==
  ASSUME IndexInv, IndexInv', NEW e \in Engines, Work(e), Serves(e), Admitted(e), Ahead(e)
  PROVE  Serves(e)' /\ Admitted(e)'
<1>1. WorkTypes /\ WorkTypes' /\ CurrentHead \in Nat /\ task[e] \in Tasks /\ reader \in [Engines -> DocSets \cup {None}]
  BY TreeIs DEF IndexInv, WorkTypes
<1>2. docs' \in DocSets /\ docs' # None /\ docs \in DocSets /\ docs # None
  BY <1>1, NoneIsNoValue DEF WorkTypes
<1>3. CASE Open(e)
  <2>1. at'[e] = "idle" /\ task'[e] = NoTask /\ reader'[e] = docs /\ UNCHANGED <<docs, wrote, commits>>
    BY <1>1, <1>3 DEF Open, WorkTypes, index, repo
  <2>2. Serves(e)'
    BY <1>2, <2>1 DEF Serves
  <2>3. task'[e].commit = 0 /\ task'[e].commit <= CurrentHead'
    BY <1>1, <2>1 DEF NoTask, CurrentHead
  <2>4. QED
    BY <2>2, <2>3, NotIdle
<1>4. CASE Diff(e)
  <2>1. at[e] = "diffing" /\ UNCHANGED <<docs, wrote, reader, commits, state>>
    BY <1>4 DEF Diff, index, repo
  <2>2. CASE Changed # {}
    <3>1. PICK what : what = [task[e] EXCEPT !.pages = Changed, !.gone = {p \in Changed : worktree[p] = None}]
      OBVIOUS
    <3>2. what \in Tasks /\ what.for = task[e].for /\ what.commit = task[e].commit
      BY <1>1, <3>1 DEF Tasks, Changed
    <3>3. Start(e, "diffed", what)
      BY <1>4, <2>2, <3>1 DEF Diff
    <3>4. what.commit <= CurrentHead' /\ (reader[e] = None => what.for = "mount")
      BY <2>1, <3>2 DEF Admitted, Serves, CurrentHead
    <3>5. QED
      BY <1>1, <2>1, <3>2, <3>3, <3>4, TakesUp
  <2>3. CASE Changed = {} /\ Unindexed(task[e], {})
    BY <1>1, <1>4, <2>1, <2>3, TurnsToRebuild DEF Diff
  <2>4. CASE Changed = {} /\ ~Unindexed(task[e], {})
    <3>1. Leave(e, FALSE)
      BY <1>4, <2>4 DEF Diff
    <3>2. Built' => commits[state'.commit] = Tree
      <4>1. Built' => Built /\ commits[state.commit] \in Files /\ Tree \in Files
        BY <1>1, <2>1, TreeIs DEF Built
      <4>2. Built => \A p \in Pages : commits[state.commit][p] = Tree[p]
        BY <2>4 DEF Changed
      <4>3. QED
        BY <2>1, <4>1, <4>2 DEF Files
    <3>3. QED
      BY <1>1, <2>1, <3>1, <3>2, Returns
  <2>5. QED
    BY <2>2, <2>3, <2>4
<1>5. CASE WriterBusy(e) \/ FillFails(e) \/ RetypeFails(e) \/ RecordFails(e)
  <2>1. at[e] # "down" /\ UNCHANGED <<docs, wrote, reader, commits>> /\ (at[e] = "cleared" => lock # e)
    BY <1>5 DEF WriterBusy, FillFails, RetypeFails, RecordFails, index, repo
  <2>2. Start(e, "clearing", Rebuilding(e)) \/ Leave(e, TRUE)
    BY <1>5 DEF WriterBusy, FillFails, RetypeFails, RecordFails
  <2>3. QED
    BY <1>1, <2>1, <2>2, Returns, TurnsToRebuild
<1>6. CASE Record(e)
  <2>1. at[e] \in {"advancing", "recording"} /\ UNCHANGED <<docs, wrote, reader, commits>>
        /\ state'.commit = task[e].head
    BY <1>6 DEF Record, Recorders, Recorded, repo
  <2>2. Start(e, "clearing", Rebuilding(e)) \/ Leave(e, FALSE)
    BY <1>6 DEF Record
  <2>3. task[e].commit # 0 /\ ~task[e].raced => state'.commit >= task[e].commit
    BY <2>1 DEF Ahead, Recorders
  <2>4. QED
    BY <1>1, <2>1, <2>2, <2>3, Returns, TurnsToRebuild
<1>7. CASE Clear(e)
  <2>1. at[e] = "clearing" /\ Start(e, "cleared", task[e]) /\ lock' = e /\ UNCHANGED <<reader, commits>>
    BY <1>7 DEF Clear, repo
  <2>2. at'[e] = "cleared" /\ task'[e] = task[e]
    BY <1>1, <2>1, StartIs DEF Places
  <2>3. Serves(e)'
    BY <2>1, <2>2 DEF Serves
  <2>4. Admitted(e)'
    BY <2>1, <2>2 DEF Admitted, Vouched, CurrentHead
  <2>5. QED
    BY <2>3, <2>4
<1>8. CASE Fill(e)
  <2>1. at[e] = "cleared" /\ Start(e, "filled", task[e]) /\ UNCHANGED commits /\ reader' = [reader EXCEPT ![e] = docs']
    BY <1>8 DEF Fill, repo
  <2>2. reader'[e] = docs'
    BY <1>1, <2>1
  <2>3. QED
    BY <1>1, <1>2, <2>1, <2>2, ServedAtOnce
<1>9. ASSUME reader' = Reloaded(e, docs')
      PROVE  reader'[e] \in {None, docs'} /\ (reader'[e] = None => reader[e] = None)
  BY <1>1, <1>2, <1>9 DEF Reloaded
<1>10. CASE Retype(e)
  <2>1. at[e] = "retyping" /\ Start(e, "retyped", task[e]) /\ UNCHANGED commits /\ reader' = Reloaded(e, docs')
    BY <1>10 DEF Retype, repo
  <2>2. QED
    BY <1>1, <1>9, <2>1, ServedAtOnce
<1>11. CASE IndexChanged(e)
  <2> DEFINE added == {p \in task[e].pages \ task[e].gone : worktree[p] # None}
  <2>1. PICK b \in BOOLEAN : b = Unindexed(task[e], added \cup task[e].gone)
    BY DEF Unindexed
  <2>2. PICK what : what = [task[e] EXCEPT !.pages = {}, !.gone = {}, !.validated = b]
    OBVIOUS
  <2>3. what \in Tasks /\ what.for = task[e].for /\ what.commit = task[e].commit
    BY <1>1, <2>2 DEF Tasks
  <2>4. at[e] = "diffed" /\ Start(e, "indexed", what) /\ UNCHANGED commits /\ reader' = Reloaded(e, docs')
    BY <1>11, <2>1, <2>2 DEF IndexChanged, repo
  <2>5. QED
    BY <1>1, <1>9, <2>3, <2>4, ServedAtOnce
<1>12. CASE ReadHead(e)
  <2>1. PICK where \in {"advancing", "recording"}, what \in Tasks :
          Start(e, where, what) /\ what.for = task[e].for /\ what.commit = task[e].commit
    BY <1>1, <1>12, ReadHeadIs
  <2>2. at[e] \notin {"down", "cleared"} /\ UNCHANGED <<docs, wrote, reader, commits>>
    BY <1>12 DEF ReadHead, repo, index
  <2>3. what.commit <= CurrentHead' /\ (reader[e] = None => what.for = "mount")
    BY <2>1, <2>2 DEF Admitted, Serves, CurrentHead
  <2>4. QED
    BY <1>1, <2>1, <2>2, <2>3, TakesUp
<1>13. QED
  BY <1>3, <1>4, <1>5, <1>6, <1>7, <1>8, <1>10, <1>11, <1>12 DEF Work

(* A step of engine e drops the admission it answers for, carries it with  *)
(* what is known of it, or makes one; one made beside an engine that has   *)
(* read HEAD is raced.                                                     *)
LEMMA AdmissionsCarried ==
  ASSUME WorkTypes, NEW e \in Engines, Request(e) \/ Work(e)
  PROVE  \/ task'[e].commit = 0 \/ task'[e].raced
         \/ task'[e].commit = task[e].commit /\ task'[e].raced = task[e].raced
         \/ Recorders = {} /\ at'[e] = "diffing"
<1> DEFINE Carried == task'[e].commit = task[e].commit /\ task'[e].raced = task[e].raced
<1>1. task[e] \in Tasks
  BY DEF WorkTypes
<1>2. ASSUME NEW where, NEW what, Start(e, where, what) PROVE task'[e] = what /\ at'[e] = where
  BY <1>2, StartsApart
<1>3. ASSUME NEW warned \in BOOLEAN, Leave(e, warned) PROVE Carried
  BY <1>2, <1>3, LeaveIs
<1>4. ASSUME Start(e, "clearing", Rebuilding(e)) PROVE Carried
  BY <1>2, <1>4, RebuildingIs
<1>5. ASSUME NEW where, Start(e, where, task[e]) PROVE Carried
  BY <1>2, <1>5
<1>6. CASE Mount(e) \/ WatchSchema(e)
  <2>1. PICK for \in {"mount", "watch"}, types \in SUBSET Types :
          \E where : Start(e, where, [Job(for) EXCEPT !.types = types])
    <3>1. PICK types \in SUBSET Types : types = IF Built THEN StaleTypes ELSE {}
      BY DEF StaleTypes
    <3>2. QED
      BY <1>6, <3>1, Zenon DEF Mount, WatchSchema
  <2>2. PICK what : what = [Job(for) EXCEPT !.types = types]
    OBVIOUS
  <2>3. what.commit = 0
    BY <2>2, JobIs DEF Tasks
  <2>4. task'[e] = what
    BY <1>2, <2>1, <2>2
  <2>5. QED
    BY <2>3, <2>4
<1>7. CASE WatchPages(e) \/ RebuildIndex(e) \/ Die(e)
  <2>1. PICK what \in {Job("watch"), Job("rebuild"), NoTask} : \E where : Start(e, where, what)
    BY <1>7 DEF WatchPages, RebuildIndex, Die
  <2>2. what.commit = 0
    BY <2>1, JobIs DEF NoTask
  <2>3. QED
    BY <1>2, <2>1, <2>2
<1>8. CASE Open(e)
  BY <1>8 DEF Open, WorkTypes, NoTask
<1>9. ASSUME NEW S, ContentCommit(e, S) PROVE task'[e].raced \/ (Recorders = {} /\ at'[e] = "diffing")
  BY <1>2, <1>9, ContentCommitIs
<1>10. ASSUME NEW S, Ingest(e, S)
       PROVE  task'[e].commit = 0 \/ task'[e].raced \/ (Recorders = {} /\ at'[e] = "diffing")
  BY <1>2, <1>10, IngestIs
<1>11. CASE Diff(e)
  <2>1. CASE Changed # {}
    <3>1. PICK what : what = [task[e] EXCEPT !.pages = Changed, !.gone = {p \in Changed : worktree[p] = None}]
      OBVIOUS
    <3>2. what.commit = task[e].commit /\ what.raced = task[e].raced
      BY <1>1, <3>1 DEF Tasks
    <3>3. Start(e, "diffed", what)
      BY <1>11, <2>1, <3>1 DEF Diff
    <3>4. QED
      BY <1>2, <3>2, <3>3
  <2>2. CASE Changed = {}
    BY <1>3, <1>4, <1>11, <2>2 DEF Diff
  <2>3. QED
    BY <2>1, <2>2
<1>12. CASE IndexChanged(e)
  <2>1. PICK b, what : what = [task[e] EXCEPT !.pages = {}, !.gone = {}, !.validated = b] /\ Start(e, "indexed", what)
    BY <1>12, Zenon DEF IndexChanged
  <2>2. what.commit = task[e].commit /\ what.raced = task[e].raced
    BY <1>1, <2>1 DEF Tasks
  <2>3. QED
    BY <1>2, <2>1, <2>2
<1>13. CASE WriterBusy(e) \/ FillFails(e) \/ RetypeFails(e) \/ RecordFails(e)
  BY <1>3, <1>4, <1>13 DEF WriterBusy, FillFails, RetypeFails, RecordFails
<1>14. CASE Clear(e) \/ Fill(e) \/ Retype(e)
  BY <1>5, <1>14 DEF Clear, Fill, Retype
<1>15. CASE ReadHead(e)
  BY <1>2, <1>15, ReadHeadIs
<1>16. CASE Record(e)
  BY <1>3, <1>4, <1>16 DEF Record
<1>17. QED
  BY <1>6, <1>7, <1>8, <1>9, <1>10, <1>11, <1>12, <1>13, <1>14, <1>15, <1>16 DEF Request, Work

(* No engine is about to record less than an admission that was not raced. *)
LEMMA AheadKeeps ==
  ASSUME IndexInv, IndexInv', HeadsExist, WorkInv, NextIndex, NEW o \in Engines
  PROVE  Ahead(o)'
<1>1. WorkTypes /\ WorkTypes' /\ CurrentHead \in Nat /\ CurrentHead' \in Nat /\ Extends /\ Heads
  BY HistoryExtends, HeadsStay, TreeIs DEF IndexInv, WorkTypes
<1>2. task[o].commit \in Nat /\ task[o].commit <= CurrentHead /\ Ahead(o)
  BY <1>1 DEF WorkTypes, Tasks, WorkInv, Admitted
<1>3. ASSUME task'[o].commit = task[o].commit, task'[o].raced = task[o].raced PROVE Ahead(o)'
  <2>1. SUFFICES ASSUME task[o].commit # 0, ~task[o].raced, NEW g \in Recorders'
                 PROVE  task'[g].head >= task[o].commit
    BY <1>3 DEF Ahead
  <2>2. CASE task'[g].head = CurrentHead'
    BY <1>1, <1>2, <2>2 DEF Extends
  <2>3. CASE g \in Recorders /\ task'[g].head = task[g].head
    BY <1>2, <2>1, <2>3 DEF Ahead
  <2>4. QED
    BY <1>1, <2>1, <2>2, <2>3 DEF Heads
<1>4. CASE World
  BY <1>3, <1>4 DEF World, EditPage, EditSchema, ExternalCommit, engine
<1>5. ASSUME NEW e \in Engines, Request(e) \/ Work(e) PROVE Ahead(o)'
  <2>1. Apart(e)
    BY <1>1, <1>5, EnginesApart
  <2>2. CASE o # e
    BY <1>3, <2>1, <2>2 DEF Apart
  <2>3. CASE task'[o].commit = 0 \/ task'[o].raced
    BY <2>3 DEF Ahead
  <2>4. CASE o = e /\ Recorders = {} /\ at'[e] = "diffing"
    <3>1. Recorders' = {}
      BY <2>1, <2>4 DEF Recorders, Apart
    <3>2. QED
      BY <3>1 DEF Ahead
  <2>5. QED
    BY <1>1, <1>3, <1>5, <2>2, <2>3, <2>4, AdmissionsCarried
<1>6. QED
  BY <1>4, <1>5 DEF NextIndex

LEMMA WorkKeeps ==
  IndexInv /\ HeadsExist /\ WorkInv /\ IndexInv' /\ [NextIndex]_indexVars => WorkInv'
<1> SUFFICES ASSUME IndexInv, HeadsExist, WorkInv, IndexInv', [NextIndex]_indexVars PROVE WorkInv'
  OBVIOUS
<1>1. WorkTypes /\ WorkTypes' /\ \A o \in Engines : Serves(o) /\ Admitted(o) /\ Ahead(o)
  BY DEF IndexInv, WorkInv
<1>2. ASSUME NEW e \in Engines, Request(e) \/ Work(e) PROVE WorkInv'
  <2>1. Apart(e) /\ Extends
    BY <1>1, <1>2, EnginesApart, HistoryExtends DEF NextIndex
  <2>2. Serves(e)' /\ Admitted(e)'
    BY <1>1, <1>2, RequestsServe, WorkServes
  <2>3. ASSUME NEW o \in Engines \ {e} PROVE Serves(o)' /\ Admitted(o)'
    <3>1. at'[o] = at[o] /\ task'[o] = task[o]
      BY <2>1 DEF Apart
    <3>2. QED
      BY <1>1, <2>1, <3>1, OthersServe, OthersAnswer
  <2>4. \A o \in Engines : Ahead(o)'
    BY <1>2, AheadKeeps DEF NextIndex
  <2>5. QED
    BY <2>2, <2>3, <2>4 DEF WorkInv
<1>3. CASE World
  <2>1. UNCHANGED <<docs, lock, wrote, reader, at, task>>
    BY <1>3 DEF World, EditPage, EditSchema, ExternalCommit, index, engine
  <2>2. Extends
    BY <1>3, HistoryExtends DEF NextIndex
  <2>3. ASSUME NEW o \in Engines PROVE Serves(o)' /\ Admitted(o)'
    BY <1>1, <2>1, <2>2, OthersAnswer DEF Serves
  <2>4. \A o \in Engines : Ahead(o)'
    BY <1>3, AheadKeeps DEF NextIndex
  <2>5. QED
    BY <2>3, <2>4 DEF WorkInv
<1>4. CASE UNCHANGED indexVars
  BY <1>1, <1>4 DEF WorkInv, Serves, Admitted, Vouched, Ahead, Recorders, Built, CurrentHead, indexVars, repo, index,
     engine
<1>5. QED
  BY <1>2, <1>3, <1>4 DEF NextIndex

(* Whoever wrote the index last and is idle serves what it wrote; and an   *)
(* admission that returned without a warning is behind the recorded        *)
(* commit, or at one that holds the same pages, unless it committed while  *)
(* another engine had read HEAD and not yet written it.                    *)
THEOREM WorkIsAnswered == SpecIndex => []WorkIsAccountedFor
<1>1. InitIndex => IndexInv /\ HeadsExist /\ WorkInv
  <2> SUFFICES ASSUME InitIndex PROVE HeadsExist /\ WorkInv
    BY StartsRight
  <2>1. \A e \in Engines : at[e] = "down" /\ reader[e] = None /\ wrote = None /\ task[e].commit = 0 /\ CurrentHead = 1
    BY DEF InitIndex, NoTask, CurrentHead
  <2>2. QED
    BY <2>1, NoneIsNone DEF WorkInv, Serves, Admitted, Vouched, Ahead, HeadsExist, Recorders
<1>2. IndexInv /\ HeadsExist /\ WorkInv /\ [NextIndex]_indexVars => IndexInv' /\ HeadsExist' /\ WorkInv'
  BY StepsKeep, HeadsKeep, WorkKeeps
<1>3. IndexInv /\ WorkInv => WorkIsAccountedFor
  <2> SUFFICES ASSUME IndexInv, WorkInv PROVE WorkIsAccountedFor
    OBVIOUS
  <2>1. OwnWorkIsServed
    BY DEF WorkInv, Serves, OwnWorkIsServed
  <2>2. AdmissionIsRecorded
    BY DEF WorkInv, Admitted, Vouched, AdmissionIsRecorded
  <2>3. QED
    BY <2>1, <2>2 DEF WorkIsAccountedFor
<1>4. QED
  BY <1>1, <1>2, <1>3, PTL DEF SpecIndex

----------------------------------------------------------------------------
(* The graph caches, for any number of processes: what each holds, and how *)
(* it stands to the versions state.toml has recorded.                      *)
Graph == [key : Nat, version : Nat]
Requests == [pc : {"idle", "searching", "keying", "building"}, kind : {"graph", "communities"},
            searcher : Nat, gen : Nat, key : Nat]
Answer == [version : Nat, shown : Nat, excused : BOOLEAN]
Process == [reader : Nat, gen : Nat, graph : Graph, communities : Graph,
            update : {"idle", "committed", "reloaded", "refreshing"}, rebuild : BOOLEAN,
            req : Requests, answer : Answer, overlap : BOOLEAN]

CacheTypes ==
  /\ snapshot \in BOOLEAN /\ autoRebuild \in BOOLEAN
  /\ built \in Nat /\ stateToml \in Seq(Nat) /\ stateToml # <<>>
  /\ snapshots \in Seq(Graph)
  /\ server \in [Servers -> Process]

OneWriter == \A s, t \in Servers : Writing(s) /\ Writing(t) => s = t

\* Nothing is newer than the index, and no key is ahead of its counter.
Aged(p, on, toml, top) ==
  /\ p.gen > 0 /\ p.reader <= top /\ p.graph.version <= top /\ p.communities.version <= top
  /\ p.req.searcher <= top
  /\ p.graph.key <= IF on THEN Len(toml) ELSE p.gen
  /\ p.communities.key <= p.gen /\ p.req.gen <= p.gen
  /\ p.update \in {"committed", "reloaded"} => toml[Len(toml)] < top
  /\ p.update = "reloaded" => p.reader = top
  /\ p.req.pc = "building" => IF on THEN p.req.key \in 1..Len(toml) ELSE p.req.key = p.req.gen

AllAged ==
  /\ LastRecorded <= built
  /\ \A k \in DOMAIN stateToml : stateToml[k] <= built
  /\ \A k \in DOMAIN snapshots : snapshots[k].version <= built /\ snapshots[k].key <= BuildKey
  /\ \A s \in Servers : Aged(server[s], snapshot, stateToml, built)

\* Under a key, only graphs of what was recorded with it, or of later.
KeepsUp(p, toml, saved, key) ==
  /\ p.graph.key = key => p.graph.version >= toml[key]
  /\ \A k \in DOMAIN saved : saved[k].key = key => saved[k].version >= toml[key]

\* A process no overlap has touched since its last update.
Calm(p, on, toml, saved) ==
  ~p.overlap =>
    /\ p.req.pc # "idle" => p.req.searcher = p.reader
    /\ p.req.pc \in {"keying", "building"} => p.req.gen = p.gen
    /\ p.communities.key = p.gen => p.communities.version >= p.reader
    /\ ~on /\ p.communities.key = p.gen => p.communities.version = p.reader
    /\ ~on /\ p.graph.key = p.gen => p.graph.version = p.reader
    /\ on /\ p.req.pc # "idle" => p.update # "reloaded"
    /\ on /\ p.update # "reloaded" =>
         p.reader <= toml[Len(toml)] /\ KeepsUp(p, toml, saved, Len(toml))
    /\ on /\ p.req.pc = "building" =>
         p.req.searcher <= toml[p.req.key] /\ KeepsUp(p, toml, saved, p.req.key)

AllCalm == \A s \in Servers : Calm(server[s], snapshot, stateToml, snapshots)

\* What the answer of a process may be.
Fresh(p, on, top) ==
  p.answer.shown # 0 /\ ~p.answer.excused =>
    /\ p.answer.shown <= p.answer.version /\ p.answer.version <= top
    /\ ~on => p.answer.version = p.answer.shown

AllFresh == \A s \in Servers : Fresh(server[s], snapshot, built)

CacheInv == CacheTypes /\ OneWriter /\ AllAged /\ AllCalm /\ AllFresh

----------------------------------------------------------------------------
(* What the directory of snapshots holds once a graph is persisted: that   *)
(* graph, and some of those it held.                                       *)
LEMMA PersistedIs ==
  ASSUME snapshots \in Seq(Graph), NEW g \in Graph, NEW after, after = Persisted(g)
  PROVE  /\ after \in Seq(Graph)
         /\ \A k \in DOMAIN after : after[k] = g \/ \E j \in DOMAIN snapshots : after[k] = snapshots[j]
<1> DEFINE same == OfKey(g.key)
           others == IF same = {} THEN snapshots ELSE RemoveAt(snapshots, CHOOSE k \in same : TRUE)
           all == Append(others, g)
<1>1. /\ others \in Seq(Graph)
      /\ \A k \in DOMAIN others : \E j \in DOMAIN snapshots : others[k] = snapshots[j]
  <2>1. CASE same = {}
    BY <2>1
  <2>2. CASE same # {}
    <3>1. PICK i \in DOMAIN snapshots : i = CHOOSE k \in same : TRUE
      BY <2>2 DEF OfKey
    <3>2. others = SubSeq(snapshots, 1, i - 1) \o SubSeq(snapshots, i + 1, Len(snapshots))
      BY <2>2, <3>1 DEF RemoveAt
    <3>3. i \in 1..Len(snapshots)
      BY <3>1
    <3> DEFINE front == SubSeq(snapshots, 1, i - 1)
               back == SubSeq(snapshots, i + 1, Len(snapshots))
    <3>4. /\ front \in Seq(Graph) /\ Len(front) = i - 1
          /\ \A k \in 1..(i - 1) : front[k] = snapshots[k]
      <4>1. \A k \in 1..(i - 1) : snapshots[k] \in Graph
        BY <3>3
      <4>2. QED
        BY <3>3, <4>1, SubSeqProperties
    <3>5. /\ back \in Seq(Graph) /\ Len(back) = Len(snapshots) - i
          /\ \A k \in 1..(Len(snapshots) - i) : back[k] = snapshots[k + i]
      <4>1. \A k \in (i + 1)..Len(snapshots) : snapshots[k] \in Graph
        BY <3>3
      <4>2. QED
        BY <3>3, <4>1, SubSeqProperties
    <3>6. others = front \o back
      BY <3>2
    <3> HIDE DEF front, back
    <3> HIDE DEF others
    <3>7. others \in Seq(Graph) /\ Len(others) = Len(snapshots) - 1
      <4>1. others \in Seq(Graph) /\ Len(others) = Len(front) + Len(back)
        BY <3>4, <3>5, <3>6, ConcatProperties
      <4>2. QED
        BY <3>3, <3>4, <3>5, <4>1
    <3>8. ASSUME NEW k \in 1..Len(others)
          PROVE  \E j \in 1..Len(snapshots) : others[k] = snapshots[j]
      <4>1. others[k] = IF k <= Len(front) THEN front[k] ELSE back[k - Len(front)]
        <5>1. \A n \in 1..(Len(front) + Len(back)) :
                (front \o back)[n] = IF n <= Len(front) THEN front[n] ELSE back[n - Len(front)]
          BY <3>4, <3>5, ConcatProperties
        <5>2. Len(others) = Len(front) + Len(back)
          BY <3>3, <3>4, <3>5, <3>7
        <5>3. QED
          BY <3>6, <5>1, <5>2
      <4>2. CASE k <= Len(front)
        BY <3>3, <3>4, <3>7, <4>1, <4>2
      <4>3. CASE ~(k <= Len(front))
        <5>1. k - Len(front) \in 1..(Len(snapshots) - i) /\ (k - Len(front)) + i = k + 1
              /\ k + 1 \in 1..Len(snapshots)
          BY <3>3, <3>4, <3>5, <3>7, <4>3
        <5>2. others[k] = snapshots[k + 1]
          BY <3>5, <4>1, <4>3, <5>1
        <5>3. QED
          BY <5>1, <5>2
      <4>4. QED
        BY <4>2, <4>3
    <3>9. QED
      <4>1. DOMAIN others = 1..Len(others) /\ DOMAIN snapshots = 1..Len(snapshots)
        BY <3>7
      <4>2. QED
        BY <3>7, <3>8, <4>1
  <2>3. QED
    BY <2>1, <2>2
<1> HIDE DEF others
<1>2. /\ all \in Seq(Graph) /\ Len(all) = Len(others) + 1
      /\ \A k \in DOMAIN all : all[k] = g \/ \E j \in DOMAIN snapshots : all[k] = snapshots[j]
  BY <1>1
<1>3. after = IF Len(all) > Keep THEN Tail(all) ELSE all
  BY DEF Persisted, others
<1> HIDE DEF all
<1>4. /\ Tail(all) \in Seq(Graph)
      /\ \A k \in DOMAIN Tail(all) : \E j \in DOMAIN all : Tail(all)[k] = all[j]
  <2>1. all # <<>>
    BY <1>2
  <2>2. Tail(all) \in Seq(Graph) /\ Len(Tail(all)) = Len(all) - 1
        /\ \A k \in 1..(Len(all) - 1) : Tail(all)[k] = all[k + 1]
    BY <1>2, <2>1
  <2>3. QED
    BY <1>2, <2>2
<1>5. QED
  BY <1>2, <1>3, <1>4

(* What state.toml records, once more and last, when a process writes it.  *)
LEMMA Recording ==
  ASSUME NEW toml \in Seq(Nat), NEW top \in Nat, NEW more, more = Append(toml, top)
  PROVE  /\ more \in Seq(Nat) /\ more # <<>> /\ Len(more) = Len(toml) + 1 /\ more[Len(more)] = top
         /\ \A k \in 1..Len(toml) : more[k] = toml[k]
         /\ DOMAIN toml = 1..Len(toml) /\ DOMAIN more = 1..Len(more)
OBVIOUS

\* Another process went on; this one, at most, was told that it overlapped.
Told(p, q) ==
  /\ q.reader = p.reader /\ q.gen = p.gen /\ q.graph = p.graph /\ q.communities = p.communities
  /\ q.update = p.update /\ q.req = p.req /\ q.answer = p.answer
  /\ p.overlap => q.overlap

LEMMA AgedStays ==
  ASSUME NEW on \in BOOLEAN, NEW p \in Process, NEW q, Told(p, q), NEW toml \in Seq(Nat),
         NEW top \in Nat, Aged(p, on, toml, top), NEW toml2 \in Seq(Nat), NEW top2 \in Nat,
         Len(toml) <= Len(toml2), top <= top2, p.update \notin {"committed", "reloaded"}
  PROVE  Aged(q, on, toml2, top2)
<1>1. /\ p.gen \in Nat /\ p.reader \in Nat /\ p.graph.version \in Nat /\ p.graph.key \in Nat
      /\ p.communities.version \in Nat /\ p.communities.key \in Nat
      /\ p.req.searcher \in Nat /\ p.req.gen \in Nat /\ p.req.key \in Nat
  BY DEF Process, Graph, Requests
<1>2. Len(toml) \in Nat /\ Len(toml2) \in Nat
  OBVIOUS
<1>3. /\ p.gen > 0 /\ p.reader <= top2 /\ p.graph.version <= top2
      /\ p.communities.version <= top2 /\ p.req.searcher <= top2
      /\ p.communities.key <= p.gen /\ p.req.gen <= p.gen
  <2>1. /\ p.gen > 0 /\ p.reader <= top /\ p.graph.version <= top
        /\ p.communities.version <= top /\ p.req.searcher <= top
        /\ p.communities.key <= p.gen /\ p.req.gen <= p.gen
    BY DEF Aged
  <2>2. \A n \in Nat : n <= top => n <= top2
    OBVIOUS
  <2>3. QED
    BY <1>1, <2>1, <2>2
<1>4. p.graph.key <= IF on THEN Len(toml2) ELSE p.gen
  BY <1>1, <1>2 DEF Aged
<1>5. p.req.pc = "building" => IF on THEN p.req.key \in 1..Len(toml2) ELSE p.req.key = p.req.gen
  BY <1>1, <1>2 DEF Aged
<1>6. QED
  BY <1>3, <1>4, <1>5 DEF Aged, Told

\* What another process may make of state.toml, the index and the snapshots.
Onward(p, q, toml, top, saved, toml2, top2, saved2) ==
  /\ Told(p, q) /\ top <= top2
  /\ toml2 = toml \/ toml2 = Append(toml, top)
  /\ (toml2 = toml /\ top2 = top) \/ p.update \notin {"committed", "reloaded"}
  /\ \A k \in DOMAIN saved : saved[k].key <= Len(toml)
  /\ \A k \in DOMAIN saved2 :
       \/ \E j \in DOMAIN saved : saved2[k] = saved[j]
       \/ ~q.overlap => saved2[k].version >= toml2[saved2[k].key]

(* What another process records, and what it persists when it is no older  *)
(* than what its key recorded, leaves a process as calm as it was.         *)
LEMMA OthersStay ==
  ASSUME NEW on \in BOOLEAN, NEW p \in Process, NEW q \in Process,
         NEW toml \in Seq(Nat), toml # <<>>, NEW top \in Nat, NEW saved \in Seq(Graph),
         Aged(p, on, toml, top), Calm(p, on, toml, saved), Fresh(p, on, top),
         NEW toml2, NEW top2 \in Nat, NEW saved2 \in Seq(Graph),
         Onward(p, q, toml, top, saved, toml2, top2, saved2)
  PROVE  Aged(q, on, toml2, top2) /\ Calm(q, on, toml2, saved2) /\ Fresh(q, on, top2)
<1> USE DEF Onward
<1>1. Fresh(q, on, top2)
  BY DEF Fresh, Told, Process, Answer
<1>2. CASE toml2 = toml
  <2>1. Aged(q, on, toml2, top2)
    <3>1. CASE top2 = top
      BY <1>2, <3>1 DEF Aged, Told
    <3>2. CASE p.update \notin {"committed", "reloaded"}
      BY <1>2, <3>2, AgedStays
    <3>3. QED
      BY <3>1, <3>2
  <2>2. ASSUME ~q.overlap, on, NEW key \in 1..Len(toml), KeepsUp(p, toml, saved, key)
        PROVE  KeepsUp(q, toml2, saved2, key)
    BY <1>2, <2>2 DEF KeepsUp, Told
  <2>3. Calm(q, on, toml2, saved2)
    <3>1. Len(toml) \in 1..Len(toml)
      OBVIOUS
    <3>2. on /\ p.req.pc = "building" => p.req.key \in 1..Len(toml)
      BY DEF Aged
    <3>3. CASE q.overlap
      BY <3>3 DEF Calm
    <3>4. CASE ~q.overlap
      BY <1>2, <2>2, <3>1, <3>2, <3>4 DEF Calm, Told
    <3>5. QED
      BY <3>3, <3>4
  <2>4. QED
    BY <1>1, <2>1, <2>3
<1>3. CASE toml2 = Append(toml, top) /\ toml2 # toml
  <2>1. /\ toml2 \in Seq(Nat) /\ Len(toml2) = Len(toml) + 1 /\ toml2[Len(toml2)] = top
        /\ \A k \in 1..Len(toml) : toml2[k] = toml[k]
    BY <1>3, Recording
  <2>2. p.update \notin {"committed", "reloaded"}
    BY <1>3
  <2>3. Aged(q, on, toml2, top2)
    BY <2>1, <2>2, AgedStays
  <2>4. ASSUME ~q.overlap, on, NEW key \in 1..Len(toml), KeepsUp(p, toml, saved, key)
        PROVE  KeepsUp(q, toml2, saved2, key)
    BY <2>1, <2>4 DEF KeepsUp, Told
  <2>5. ASSUME ~q.overlap, on
        PROVE  KeepsUp(q, toml2, saved2, Len(toml2))
    <3>1. q.graph.key # Len(toml2)
      BY <2>1, <2>5 DEF Aged, Told, Process, Graph
    <3>2. ASSUME NEW k \in DOMAIN saved2, saved2[k].key = Len(toml2)
          PROVE  saved2[k].version >= toml2[Len(toml2)]
      <4>1. ASSUME NEW j \in DOMAIN saved
            PROVE  saved[j].key # Len(toml2)
        <5>1. saved[j] \in Graph /\ saved[j].key <= Len(toml)
          BY <2>5
        <5>2. saved[j].key \in Nat
          BY <5>1 DEF Graph
        <5>3. QED
          BY <2>1, <5>1, <5>2
      <4>2. QED
        BY <2>5, <3>2, <4>1
    <3>3. QED
      BY <3>1, <3>2 DEF KeepsUp
  <2>6. Calm(q, on, toml2, saved2)
    <3>1. CASE q.overlap
      BY <3>1 DEF Calm
    <3>2. CASE ~q.overlap
      <4>1. on => p.reader <= toml2[Len(toml2)]
        BY <2>1 DEF Aged
      <4>2. on /\ p.req.pc = "building" => p.req.key \in 1..Len(toml)
        BY DEF Aged
      <4>3. on /\ p.req.pc = "building" =>
              p.req.searcher <= toml2[p.req.key] /\ KeepsUp(q, toml2, saved2, p.req.key)
        BY <2>1, <2>4, <3>2, <4>2 DEF Calm, Told
      <4>4. QED
        BY <2>5, <3>2, <4>1, <4>3 DEF Calm, Told
    <3>3. QED
      BY <3>1, <3>2
  <2>7. QED
    BY <1>1, <2>3, <2>6
<1>4. QED
  BY <1>2, <1>3

(* One process moves; the others are at most told.                         *)
LEMMA OneMoves ==
  ASSUME CacheInv, NEW s \in Servers, UNCHANGED <<snapshot, autoRebuild>>,
         server' \in [Servers -> Process], built' \in Nat, built <= built', snapshots' \in Seq(Graph),
         stateToml' = stateToml \/ (stateToml' = Append(stateToml, built) /\ built' = built),
         \A t \in Servers \ {s} :
           /\ Told(server[t], server'[t])
           /\ (stateToml' = stateToml /\ built' = built) \/ server[t].update \notin {"committed", "reloaded"},
         \A k \in DOMAIN snapshots' :
           \/ \E j \in DOMAIN snapshots : snapshots'[k] = snapshots[j]
           \/ /\ snapshot /\ snapshots'[k].version <= built' /\ snapshots'[k].key <= Len(stateToml')
              /\ \A t \in Servers \ {s} :
                   ~server'[t].overlap => snapshots'[k].version >= stateToml'[snapshots'[k].key],
         server'[s].update = "idle" \/ server[s].update # "idle" \/ \A t \in Servers : ~Writing(t),
         Aged(server'[s], snapshot', stateToml', built'),
         Calm(server'[s], snapshot', stateToml', snapshots'), Fresh(server'[s], snapshot', built')
  PROVE  CacheInv'
<1>1. /\ snapshot \in BOOLEAN /\ built \in Nat /\ stateToml \in Seq(Nat) /\ stateToml # <<>>
      /\ snapshots \in Seq(Graph) /\ server \in [Servers -> Process]
  BY DEF CacheInv, CacheTypes
<1>2. /\ stateToml' \in Seq(Nat) /\ stateToml' # <<>> /\ Len(stateToml) <= Len(stateToml')
      /\ stateToml'[Len(stateToml')] <= built'
      /\ \A k \in DOMAIN stateToml' : stateToml'[k] <= built'
  <2>1. LastRecorded <= built /\ \A k \in DOMAIN stateToml : stateToml[k] <= built
    BY DEF CacheInv, AllAged
  <2>2. CASE stateToml' = stateToml
    <3>1. Len(stateToml) \in DOMAIN stateToml
      BY <1>1
    <3>2. \A k \in DOMAIN stateToml : stateToml[k] \in Nat
      BY <1>1
    <3>3. QED
      BY <1>1, <2>1, <2>2, <3>1, <3>2
  <2>3. CASE stateToml' = Append(stateToml, built) /\ built' = built
    <3>1. PICK more : more = stateToml'
      OBVIOUS
    <3>2. /\ more \in Seq(Nat) /\ more # <<>> /\ Len(more) = Len(stateToml) + 1 /\ more[Len(more)] = built
          /\ \A k \in 1..Len(stateToml) : more[k] = stateToml[k]
          /\ DOMAIN stateToml = 1..Len(stateToml) /\ DOMAIN more = 1..Len(more)
      BY <1>1, <2>3, <3>1, Recording
    <3>3. Len(stateToml) \in Nat
      BY <1>1
    <3>4. \A k \in DOMAIN more : k \in DOMAIN stateToml \/ k = Len(more)
      BY <3>2, <3>3
    <3>5. \A k \in DOMAIN more : more[k] <= built
      <4>1. built <= built
        BY <1>1
      <4>2. ASSUME NEW k \in DOMAIN more PROVE more[k] <= built
        <5>1. CASE k = Len(more)
          BY <3>2, <4>1, <5>1, Zenon
        <5>2. CASE k \in DOMAIN stateToml
          BY <2>1, <3>2, <5>2, Zenon
        <5>3. QED
          BY <3>4, <4>2, <5>1, <5>2, Zenon
      <4>3. QED
        BY <4>2
    <3>6. Len(stateToml) <= Len(more)
      BY <3>2, <3>3
    <3>7. QED
      BY <1>1, <2>3, <3>1, <3>2, <3>5, <3>6
  <2>4. QED
    BY <2>2, <2>3
<1>3. CacheTypes'
  BY <1>1, <1>2 DEF CacheInv, CacheTypes
<1>4. OneWriter'
  <2>1. \A t \in Servers \ {s} : server'[t].update = server[t].update
    BY DEF Told
  <2>2. QED
    BY <2>1 DEF CacheInv, OneWriter, Writing
<1>5. \A t \in Servers \ {s} :
        /\ Aged(server'[t], snapshot, stateToml', built')
        /\ Calm(server'[t], snapshot, stateToml', snapshots') /\ Fresh(server'[t], snapshot, built')
  <2> TAKE t \in Servers \ {s}
  <2>1. PICK p \in Process : p = server[t]
    BY <1>1
  <2>2. PICK q \in Process : q = server'[t]
    BY <1>1
  <2>3. /\ Told(p, q) /\ Aged(p, snapshot, stateToml, built) /\ Calm(p, snapshot, stateToml, snapshots)
        /\ Fresh(p, snapshot, built)
    BY <2>1, <2>2 DEF CacheInv, AllAged, AllCalm, AllFresh
  <2>4. \A k \in DOMAIN snapshots : snapshots[k].key <= Len(stateToml)
    BY DEF CacheInv, AllAged, BuildKey
  <2>5. \A k \in DOMAIN snapshots' :
          \/ \E j \in DOMAIN snapshots : snapshots'[k] = snapshots[j]
          \/ (~q.overlap => snapshots'[k].version >= stateToml'[snapshots'[k].key])
    BY <2>2
  <2>6. /\ stateToml' = stateToml \/ stateToml' = Append(stateToml, built)
        /\ (stateToml' = stateToml /\ built' = built) \/ p.update \notin {"committed", "reloaded"}
    BY <2>1
  <2>7. Aged(q, snapshot, stateToml', built') /\ Calm(q, snapshot, stateToml', snapshots') /\ Fresh(q, snapshot, built')
    <3>1. PICK on, toml, top, saved, toml2, top2, saved2 :
            /\ on = snapshot /\ toml = stateToml /\ top = built /\ saved = snapshots
            /\ toml2 = stateToml' /\ top2 = built' /\ saved2 = snapshots'
      OBVIOUS
    <3>2. /\ on \in BOOLEAN /\ toml \in Seq(Nat) /\ toml # <<>> /\ top \in Nat /\ saved \in Seq(Graph)
          /\ top2 \in Nat /\ saved2 \in Seq(Graph) /\ top <= top2
      BY <1>1, <3>1
    <3>3. Aged(p, on, toml, top) /\ Calm(p, on, toml, saved) /\ Fresh(p, on, top) /\ Told(p, q)
      BY <2>3, <3>1
    <3>4. Onward(p, q, toml, top, saved, toml2, top2, saved2)
      BY <2>3, <2>4, <2>5, <2>6, <3>1 DEF Onward
    <3>5. Aged(q, on, toml2, top2) /\ Calm(q, on, toml2, saved2) /\ Fresh(q, on, top2)
      BY <3>2, <3>3, <3>4, OthersStay
    <3>6. QED
      BY <3>1, <3>5
  <2>8. QED
    BY <2>2, <2>7
<1>6. AllAged'
  <2>1. \A k \in DOMAIN snapshots : snapshots[k].version <= built /\ snapshots[k].key <= Len(stateToml)
    BY DEF CacheInv, AllAged, BuildKey
  <2>2. \A k \in DOMAIN snapshots' : snapshots'[k].version <= built' /\ snapshots'[k].key <= Len(stateToml')
    <3> TAKE k \in DOMAIN snapshots'
    <3>1. CASE \E j \in DOMAIN snapshots : snapshots'[k] = snapshots[j]
      <4>1. PICK j \in DOMAIN snapshots : snapshots'[k] = snapshots[j]
        BY <3>1
      <4>2. snapshots[j] \in Graph
        BY <1>1
      <4>3. snapshots[j].version \in Nat /\ snapshots[j].key \in Nat
        BY <4>2 DEF Graph
      <4>4. snapshots[j].version <= built /\ snapshots[j].key <= Len(stateToml)
        BY <2>1
      <4>5. Len(stateToml) \in Nat /\ Len(stateToml') \in Nat /\ Len(stateToml) <= Len(stateToml')
        BY <1>1, <1>2
      <4>6. built \in Nat /\ built' \in Nat
        BY <1>1
      <4>7. snapshots[j].version <= built'
        BY <4>3, <4>4, <4>6
      <4>8. snapshots[j].key <= Len(stateToml')
        BY <4>3, <4>4, <4>5
      <4>9. QED
        BY <4>1, <4>7, <4>8
    <3>2. QED
      BY <3>1
  <2>3. QED
    BY <1>2, <1>5, <2>2 DEF AllAged, LastRecorded, BuildKey
<1>7. AllCalm' /\ AllFresh'
  BY <1>5 DEF AllCalm, AllFresh
<1>8. QED
  BY <1>3, <1>4, <1>6, <1>7 DEF CacheInv

(* One process moves and persists nothing.                                 *)
LEMMA AloneMoves ==
  ASSUME CacheInv, NEW s \in Servers, NEW q \in Process, server' = [server EXCEPT ![s] = q],
         UNCHANGED <<snapshot, autoRebuild, snapshots>>, built' \in Nat, built <= built',
         stateToml' = stateToml \/ (stateToml' = Append(stateToml, built) /\ built' = built),
         \A t \in Servers \ {s} :
           (stateToml' = stateToml /\ built' = built) \/ server[t].update \notin {"committed", "reloaded"},
         q.update = "idle" \/ server[s].update # "idle" \/ \A t \in Servers : ~Writing(t),
         Aged(q, snapshot, stateToml', built'), Calm(q, snapshot, stateToml', snapshots),
         Fresh(q, snapshot, built')
  PROVE  CacheInv'
<1>1. server \in [Servers -> Process] /\ snapshots \in Seq(Graph)
  BY DEF CacheInv, CacheTypes
<1>2. /\ server' \in [Servers -> Process] /\ server'[s] = q
      /\ \A t \in Servers \ {s} : server'[t] = server[t]
  BY <1>1
<1>3. \A t \in Servers \ {s} : Told(server[t], server'[t])
  BY <1>2 DEF Told
<1>4. QED
  BY <1>1, <1>2, <1>3, OneMoves

(* What the invariant says of one process.                                 *)
LEMMA Holds ==
  ASSUME CacheInv, NEW s \in Servers
  PROVE  /\ server \in [Servers -> Process] /\ server[s] \in Process
         /\ Aged(server[s], snapshot, stateToml, built)
         /\ Calm(server[s], snapshot, stateToml, snapshots) /\ Fresh(server[s], snapshot, built)
         /\ snapshot \in BOOLEAN /\ built \in Nat /\ stateToml \in Seq(Nat) /\ stateToml # <<>>
         /\ snapshots \in Seq(Graph) /\ Len(stateToml) \in Nat /\ Len(stateToml) > 0
         /\ stateToml[Len(stateToml)] \in Nat /\ stateToml[Len(stateToml)] <= built
BY DEF CacheInv, CacheTypes, AllAged, AllCalm, AllFresh, LastRecorded, BuildKey

LEMMA Fields ==
  ASSUME NEW p \in Process
  PROVE  /\ p.reader \in Nat /\ p.gen \in Nat /\ p.graph \in Graph /\ p.communities \in Graph
         /\ p.graph.version \in Nat /\ p.graph.key \in Nat
         /\ p.communities.version \in Nat /\ p.communities.key \in Nat
         /\ p.req \in Requests /\ p.req.searcher \in Nat /\ p.req.gen \in Nat /\ p.req.key \in Nat
         /\ p.answer \in Answer /\ p.answer.version \in Nat /\ p.answer.shown \in Nat
BY DEF Process, Graph, Requests, Answer

LEMMA CommitIndexKeeps ==
  ASSUME CacheInv, NEW s \in Servers, NEW kind \in {"update", "rebuild"}, CommitIndex(s, kind)
  PROVE  CacheInv'
<1>1. PICK p \in Process : /\ p = server[s] /\ Aged(p, snapshot, stateToml, built)
                           /\ Calm(p, snapshot, stateToml, snapshots) /\ Fresh(p, snapshot, built)
  BY Holds
<1>2. PICK b \in BOOLEAN : b = (kind = "rebuild")
  OBVIOUS
<1>3. PICK q : q = [p EXCEPT !.update = "committed", !.rebuild = b]
  OBVIOUS
<1>4. /\ server' = [server EXCEPT ![s] = q] /\ built' = built + 1 /\ \A t \in Servers : ~Writing(t)
      /\ UNCHANGED <<snapshot, autoRebuild, stateToml, snapshots>>
  BY <1>1, <1>2, <1>3, Holds DEF CommitIndex
<1>5. /\ q \in Process /\ q.update = "committed" /\ p.update = "idle"
      /\ q.reader = p.reader /\ q.gen = p.gen /\ q.graph = p.graph /\ q.communities = p.communities
      /\ q.req = p.req /\ q.answer = p.answer /\ q.overlap = p.overlap
  BY <1>1, <1>3, <1>4 DEF Process, Writing
<1>6. Aged(q, snapshot, stateToml, built + 1)
  <2>1. built \in Nat /\ stateToml[Len(stateToml)] \in Nat /\ stateToml[Len(stateToml)] <= built
    BY Holds
  <2>2. /\ p.reader \in Nat /\ p.graph.version \in Nat /\ p.communities.version \in Nat
        /\ p.req.searcher \in Nat
    BY Fields
  <2>3. /\ p.reader <= built + 1 /\ p.graph.version <= built + 1 /\ p.communities.version <= built + 1
        /\ p.req.searcher <= built + 1 /\ stateToml[Len(stateToml)] < built + 1
    <3>1. /\ p.reader <= built /\ p.graph.version <= built /\ p.communities.version <= built
          /\ p.req.searcher <= built
      BY <1>1 DEF Aged
    <3>2. \A m, n \in Nat : m <= n => m <= n + 1 /\ m < n + 1
      OBVIOUS
    <3>3. QED
      BY <2>1, <2>2, <3>1, <3>2, Zenon
  <2>4. QED
    BY <1>1, <1>5, <2>3 DEF Aged
<1>7. Calm(q, snapshot, stateToml, snapshots)
  BY <1>1, <1>5 DEF Calm, KeepsUp
<1>8. Fresh(q, snapshot, built + 1)
  BY <1>1, <1>5, Holds DEF Fresh, Process, Answer
<1>9. QED
  <2>1. \A t \in Servers : server[t].update = "idle"
    BY <1>4 DEF Writing
  <2>2. built' \in Nat /\ built <= built'
    BY <1>4, Holds
  <2>3. Aged(q, snapshot, stateToml', built') /\ Fresh(q, snapshot, built')
    BY <1>4, <1>6, <1>8
  <2>4. QED
    BY <1>4, <1>5, <1>7, <2>1, <2>2, <2>3, AloneMoves

(* A process reads its own update; a request it serves meanwhile overlaps. *)
LEMMA ReloadReaderKeeps ==
  ASSUME CacheInv, NEW s \in Servers, ReloadReader(s)
  PROVE  CacheInv'
<1>1. PICK p \in Process : /\ p = server[s] /\ Aged(p, snapshot, stateToml, built)
                           /\ Calm(p, snapshot, stateToml, snapshots) /\ Fresh(p, snapshot, built)
  BY Holds
<1>2. /\ built \in Nat /\ stateToml \in Seq(Nat) /\ Len(stateToml) \in Nat /\ Len(stateToml) > 0
      /\ stateToml[Len(stateToml)] \in Nat /\ stateToml[Len(stateToml)] <= built
      /\ snapshots \in Seq(Graph)
  BY Holds
<1>3. /\ p.reader \in Nat /\ p.gen \in Nat /\ p.graph.version \in Nat /\ p.graph.key \in Nat
      /\ p.communities.version \in Nat /\ p.communities.key \in Nat
      /\ p.req.searcher \in Nat /\ p.req.gen \in Nat /\ p.req.key \in Nat
  BY Fields
<1>4. PICK b \in BOOLEAN : b = (p.req.pc # "idle")
  OBVIOUS
<1>5. PICK q : q = [p EXCEPT !.reader = built, !.gen = @ + 1, !.update = "reloaded", !.overlap = b]
  OBVIOUS
<1>6. /\ server' = [server EXCEPT ![s] = q] /\ p.update = "committed"
      /\ UNCHANGED <<snapshot, autoRebuild, built, stateToml, snapshots>>
  BY <1>1, <1>4, <1>5, Holds DEF ReloadReader, Busy
<1>7. /\ q \in Process /\ q.update = "reloaded" /\ q.reader = built /\ q.gen = p.gen + 1
      /\ q.graph = p.graph /\ q.communities = p.communities /\ q.req = p.req /\ q.answer = p.answer
      /\ (q.overlap <=> p.req.pc # "idle")
  <2>0. \A n \in Nat : n + 1 \in Nat
    OBVIOUS
  <2>1. built \in Nat /\ p.gen + 1 \in Nat
    BY <1>2, <1>3, <2>0, Zenon
  <2>2. /\ q \in Process /\ q.update = "reloaded" /\ q.reader = built /\ q.gen = p.gen + 1
        /\ q.graph = p.graph /\ q.communities = p.communities /\ q.req = p.req /\ q.answer = p.answer
        /\ q.overlap = b
    BY <1>5, <2>1 DEF Process
  <2>3. QED
    BY <1>4, <2>2
<1>8. Aged(q, snapshot, stateToml, built)
  <2>1. built \in Nat
    BY <1>2
  <2>2. stateToml[Len(stateToml)] < built
    BY <1>1, <1>6 DEF Aged
  <2>3. p.graph.key <= IF snapshot THEN Len(stateToml) ELSE p.gen + 1
    <3>1. p.graph.key <= IF snapshot THEN Len(stateToml) ELSE p.gen
      BY <1>1 DEF Aged
    <3>2. QED
      BY <1>2, <1>3, <3>1
  <2>4. p.gen + 1 > 0 /\ p.communities.key <= p.gen + 1 /\ p.req.gen <= p.gen + 1 /\ built <= built
    <3>1. p.communities.key <= p.gen /\ p.req.gen <= p.gen
      BY <1>1 DEF Aged
    <3>2. \A m, n \in Nat : n + 1 > 0 /\ n <= n /\ (m <= n => m <= n + 1)
      OBVIOUS
    <3>3. QED
      BY <1>3, <2>1, <3>1, <3>2, Zenon
  <2>5. QED
    BY <1>1, <1>7, <2>2, <2>3, <2>4 DEF Aged
<1>9. Calm(q, snapshot, stateToml, snapshots)
  <2>1. ~snapshot => p.graph.key # q.gen
    BY <1>1, <1>7, Fields DEF Aged
  <2>2. p.communities.key # q.gen
    BY <1>1, <1>7, Fields DEF Aged
  <2>3. QED
    BY <1>7, <2>1, <2>2 DEF Calm
<1>10. Fresh(q, snapshot, built)
  BY <1>1, <1>7 DEF Fresh
<1>11. QED
  <2>1. built' \in Nat /\ built <= built'
    BY <1>2, <1>6
  <2>2. Aged(q, snapshot, stateToml', built') /\ Fresh(q, snapshot, built')
    BY <1>6, <1>8, <1>10
  <2>3. server[s].update # "idle" /\ stateToml' = stateToml /\ built' = built
    BY <1>1, <1>6
  <2>4. QED
    BY <1>6, <1>7, <1>9, <2>1, <2>2, <2>3, AloneMoves

(* state.toml follows: the new key is nobody's yet, and no process reads   *)
(* more than it records.                                                   *)
LEMMA WriteStateKeeps ==
  ASSUME CacheInv, NEW s \in Servers, WriteState(s)
  PROVE  CacheInv'
<1>1. PICK p \in Process : /\ p = server[s] /\ Aged(p, snapshot, stateToml, built)
                           /\ Calm(p, snapshot, stateToml, snapshots) /\ Fresh(p, snapshot, built)
  BY Holds
<1>2. /\ built \in Nat /\ stateToml \in Seq(Nat) /\ Len(stateToml) \in Nat /\ Len(stateToml) > 0
      /\ stateToml[Len(stateToml)] \in Nat /\ stateToml[Len(stateToml)] <= built
      /\ snapshots \in Seq(Graph)
  BY Holds
<1>3. /\ p.reader \in Nat /\ p.gen \in Nat /\ p.graph.version \in Nat /\ p.graph.key \in Nat
      /\ p.communities.version \in Nat /\ p.communities.key \in Nat
      /\ p.req.searcher \in Nat /\ p.req.gen \in Nat /\ p.req.key \in Nat
  BY Fields
<1>4. PICK after : after = IF p.rebuild THEN "refreshing" ELSE "idle"
  OBVIOUS
<1>5. PICK q : q = [p EXCEPT !.update = after]
  OBVIOUS
<1>6. /\ server' = [server EXCEPT ![s] = q] /\ p.update = "reloaded" /\ stateToml' = Append(stateToml, built)
      /\ UNCHANGED <<snapshot, autoRebuild, built, snapshots>>
  BY <1>1, <1>4, <1>5, Holds DEF WriteState
<1>7. /\ q \in Process /\ q.update \in {"idle", "refreshing"} /\ q.reader = p.reader /\ q.gen = p.gen
      /\ q.graph = p.graph /\ q.communities = p.communities /\ q.req = p.req /\ q.answer = p.answer
      /\ q.overlap = p.overlap
  BY <1>1, <1>4, <1>5, Holds DEF Process
<1>8. PICK toml2 \in Seq(Nat) :
        /\ toml2 = stateToml' /\ Len(toml2) = Len(stateToml) + 1 /\ toml2[Len(toml2)] = built
        /\ \A k \in 1..Len(stateToml) : toml2[k] = stateToml[k]
  <2>1. stateToml \in Seq(Nat) /\ built \in Nat
    BY <1>2
  <2>2. PICK toml2 : toml2 = Append(stateToml, built)
    OBVIOUS
  <2>3. /\ toml2 \in Seq(Nat) /\ Len(toml2) = Len(stateToml) + 1 /\ toml2[Len(toml2)] = built
        /\ \A k \in 1..Len(stateToml) : toml2[k] = stateToml[k]
    BY <2>1, <2>2, Recording
  <2>4. QED
    BY <1>6, <2>2, <2>3
<1>9. Aged(q, snapshot, toml2, built)
  <2>1. Len(stateToml) \in Nat /\ Len(stateToml) <= Len(toml2) /\ Len(toml2) \in Nat
    BY <1>2, <1>8
  <2>2. p.req.pc = "building" => IF snapshot THEN p.req.key \in 1..Len(toml2) ELSE p.req.key = p.req.gen
    BY <1>1, <1>3, <2>1 DEF Aged
  <2>3. p.graph.key <= IF snapshot THEN Len(toml2) ELSE p.gen
    BY <1>1, <1>3, <2>1 DEF Aged
  <2>4. QED
    BY <1>1, <1>7, <2>2, <2>3 DEF Aged
<1>10. Calm(q, snapshot, toml2, snapshots)
  <2>1. p.reader <= toml2[Len(toml2)]
    BY <1>1, <1>8 DEF Aged
  <2>2. ASSUME snapshot
        PROVE  KeepsUp(q, toml2, snapshots, Len(toml2))
    <3>1. p.graph.key # Len(toml2)
      <4>1. Len(stateToml) \in Nat /\ Len(toml2) = Len(stateToml) + 1
        BY <1>2, <1>8
      <4>2. p.graph.key <= Len(stateToml)
        BY <1>1, <2>2 DEF Aged
      <4>3. QED
        BY <1>3, <4>1, <4>2
    <3>2. ASSUME NEW k \in DOMAIN snapshots
          PROVE  snapshots[k].key # Len(toml2)
      <4>1. snapshots[k] \in Graph /\ snapshots[k].key <= Len(stateToml)
        BY Holds DEF CacheInv, AllAged, BuildKey
      <4>2. snapshots[k].key \in Nat
        BY <4>1 DEF Graph
      <4>3. QED
        BY <1>8, <4>1, <4>2, Holds
    <3>3. QED
      BY <1>7, <3>1, <3>2 DEF KeepsUp
  <2>3. snapshot /\ ~p.overlap => p.req.pc = "idle"
    BY <1>1, <1>6 DEF Calm
  <2>4. QED
    BY <1>1, <1>7, <2>1, <2>2, <2>3 DEF Calm
<1>11. Fresh(q, snapshot, built)
  BY <1>1, <1>7 DEF Fresh
<1>12. \A t \in Servers \ {s} : server[t].update \notin {"committed", "reloaded"}
  BY <1>1, <1>6 DEF CacheInv, OneWriter, Writing
<1>13. QED
  <2>1. built' \in Nat /\ built <= built'
    BY <1>2, <1>6
  <2>2. Aged(q, snapshot, stateToml', built') /\ Fresh(q, snapshot, built') /\ Calm(q, snapshot, stateToml', snapshots)
    BY <1>6, <1>8, <1>9, <1>10, <1>11
  <2>3. server[s].update # "idle"
    BY <1>1, <1>6
  <2>4. QED
    BY <1>6, <1>7, <1>12, <2>1, <2>2, <2>3, AloneMoves

(* A process serves its request and writes nothing.                        *)
LEMMA ServingKeeps ==
  ASSUME CacheInv, NEW s \in Servers, NEW q \in Process, server' = [server EXCEPT ![s] = q],
         UNCHANGED <<snapshot, autoRebuild, built, stateToml, snapshots>>,
         q.update = server[s].update, Aged(q, snapshot, stateToml, built),
         Calm(q, snapshot, stateToml, snapshots), Fresh(q, snapshot, built)
  PROVE  CacheInv'
<1>1. built' \in Nat /\ built <= built' /\ built' = built /\ stateToml' = stateToml
  BY Holds
<1>2. Aged(q, snapshot, stateToml', built') /\ Fresh(q, snapshot, built') /\ Calm(q, snapshot, stateToml', snapshots)
  BY <1>1
<1>3. QED
  BY <1>1, <1>2, AloneMoves

(* A request begins with the reader the process then has.                  *)
LEMMA TakeSearcherKeeps ==
  ASSUME CacheInv, NEW s \in Servers, NEW kind \in {"graph", "communities"}, TakeSearcher(s, kind)
  PROVE  CacheInv'
<1>1. PICK p \in Process : /\ p = server[s] /\ Aged(p, snapshot, stateToml, built)
                           /\ Calm(p, snapshot, stateToml, snapshots) /\ Fresh(p, snapshot, built)
  BY Holds
<1>2. /\ p.reader \in Nat /\ p.gen \in Nat /\ p.overlap \in BOOLEAN
  BY DEF Process
<1>3. PICK r : r = [NoRequest EXCEPT !.pc = "searching", !.kind = kind, !.searcher = p.reader]
  OBVIOUS
<1>4. r \in Requests /\ r.pc = "searching" /\ r.searcher = p.reader /\ r.gen = 0
  BY <1>2, <1>3 DEF NoRequest, Requests
<1>5. PICK b \in BOOLEAN : b = (p.overlap \/ (snapshot /\ p.update = "reloaded"))
  OBVIOUS
<1>6. PICK q : q = [p EXCEPT !.req = r, !.overlap = b]
  OBVIOUS
<1>7. /\ server' = [server EXCEPT ![s] = q] /\ p.req.pc = "idle"
      /\ UNCHANGED <<snapshot, autoRebuild, built, stateToml, snapshots>>
  BY <1>1, <1>3, <1>5, <1>6, Holds DEF TakeSearcher, Busy
<1>8. /\ q \in Process /\ q.update = p.update /\ q.reader = p.reader /\ q.gen = p.gen
      /\ q.graph = p.graph /\ q.communities = p.communities /\ q.req = r /\ q.answer = p.answer
      /\ q.overlap = b
  BY <1>4, <1>6 DEF Process
<1>9. Aged(q, snapshot, stateToml, built)
  <2>1. p.reader <= built /\ 0 <= p.gen
    BY <1>1, <1>2 DEF Aged
  <2>2. QED
    BY <1>1, <1>4, <1>8, <2>1 DEF Aged
<1>10. Calm(q, snapshot, stateToml, snapshots)
  BY <1>1, <1>4, <1>5, <1>8 DEF Calm, KeepsUp
<1>11. Fresh(q, snapshot, built)
  BY <1>1, <1>8 DEF Fresh
<1>12. QED
  BY <1>1, <1>7, <1>8, <1>9, <1>10, <1>11, ServingKeeps

(* It learns the key its graph is to have.                                 *)
LEMMA ReadKeyKeeps ==
  ASSUME CacheInv, NEW s \in Servers, ReadKey(s)
  PROVE  CacheInv'
<1>1. PICK p \in Process : /\ p = server[s] /\ Aged(p, snapshot, stateToml, built)
                           /\ Calm(p, snapshot, stateToml, snapshots) /\ Fresh(p, snapshot, built)
  BY Holds
<1>2. p.req \in Requests /\ p.req.gen \in Nat /\ Len(stateToml) \in Nat /\ Len(stateToml) > 0
  BY Fields, Holds
<1>3. PICK key : key = IF snapshot THEN Len(stateToml) ELSE p.req.gen
  OBVIOUS
<1>4. PICK r : r = [p.req EXCEPT !.pc = "building", !.key = key]
  OBVIOUS
<1>5. /\ r \in Requests /\ r.pc = "building" /\ r.searcher = p.req.searcher /\ r.gen = p.req.gen /\ r.key = key
  BY <1>2, <1>3, <1>4 DEF Requests
<1>6. PICK q : q = [p EXCEPT !.req = r]
  OBVIOUS
<1>7. /\ server' = [server EXCEPT ![s] = q] /\ p.req.pc = "keying"
      /\ UNCHANGED <<snapshot, autoRebuild, built, stateToml, snapshots>>
  BY <1>1, <1>3, <1>4, <1>6, Holds DEF ReadKey, BuildKey
<1>8. /\ q \in Process /\ q.update = p.update /\ q.reader = p.reader /\ q.gen = p.gen
      /\ q.graph = p.graph /\ q.communities = p.communities /\ q.req = r /\ q.answer = p.answer
      /\ q.overlap = p.overlap
  BY <1>5, <1>6 DEF Process
<1>9. Aged(q, snapshot, stateToml, built)
  <2>1. IF snapshot THEN key \in 1..Len(stateToml) ELSE key = p.req.gen
    BY <1>2, <1>3
  <2>2. QED
    BY <1>1, <1>5, <1>8, <2>1 DEF Aged
<1>10. Calm(q, snapshot, stateToml, snapshots)
  <2>1. snapshot => key = Len(stateToml)
    BY <1>3
  <2>2. KeepsUp(p, stateToml, snapshots, Len(stateToml)) => KeepsUp(q, stateToml, snapshots, Len(stateToml))
    BY <1>8 DEF KeepsUp
  <2>3. QED
    BY <1>1, <1>5, <1>7, <1>8, <2>1, <2>2 DEF Calm
<1>11. Fresh(q, snapshot, built)
  BY <1>1, <1>8 DEF Fresh
<1>12. QED
  BY <1>1, <1>7, <1>8, <1>9, <1>10, <1>11, ServingKeeps

(* Warm communities answer at once; else the request takes the generation. *)
LEMMA ReadGenerationKeeps ==
  ASSUME CacheInv, NEW s \in Servers, ReadGeneration(s)
  PROVE  CacheInv'
<1>1. PICK p \in Process : /\ p = server[s] /\ Aged(p, snapshot, stateToml, built)
                           /\ Calm(p, snapshot, stateToml, snapshots) /\ Fresh(p, snapshot, built)
  BY Holds
<1>2. /\ p.req \in Requests /\ p.gen \in Nat /\ p.communities.version \in Nat /\ p.req.searcher \in Nat
  BY Fields
<1>3. PICK q : server' = [server EXCEPT ![s] = q] /\
        q = IF p.req.kind = "communities" /\ p.communities.key = p.gen
            THEN Answered(s, p.communities.version, p.overlap)
            ELSE [p EXCEPT !.req.pc = "keying", !.req.gen = p.gen]
  BY <1>1 DEF ReadGeneration
<1>4. p.req.pc = "searching" /\ UNCHANGED <<snapshot, autoRebuild, built, stateToml, snapshots>>
  BY <1>1 DEF ReadGeneration
<1>5. CASE p.req.kind = "communities" /\ p.communities.key = p.gen
  <2>1. PICK a : a = [version |-> p.communities.version, shown |-> p.req.searcher, excused |-> p.overlap]
    OBVIOUS
  <2>2. q = [p EXCEPT !.req = NoRequest, !.answer = a]
    BY <1>1, <1>3, <1>5, <2>1 DEF Answered
  <2>3. p.overlap \in BOOLEAN
    BY DEF Process
  <2>4. a \in Answer /\ a.version = p.communities.version /\ a.shown = p.req.searcher /\ a.excused = p.overlap
    BY <1>2, <2>1, <2>3 DEF Answer
  <2>5. NoRequest \in Requests /\ NoRequest.pc = "idle" /\ NoRequest.gen = 0 /\ NoRequest.searcher = 0
    BY DEF NoRequest, Requests
  <2>6. /\ q \in Process /\ q.update = p.update /\ q.reader = p.reader /\ q.gen = p.gen
        /\ q.graph = p.graph /\ q.communities = p.communities /\ q.req = NoRequest /\ q.answer = a
        /\ q.overlap = p.overlap
    BY <2>2, <2>4, <2>5 DEF Process
  <2>7. Aged(q, snapshot, stateToml, built)
    <3>1. 0 <= built /\ 0 <= p.gen
      BY <1>2, Holds
    <3>2. QED
      BY <1>1, <2>5, <2>6, <3>1 DEF Aged
  <2>8. Calm(q, snapshot, stateToml, snapshots)
    BY <1>1, <2>5, <2>6 DEF Calm, KeepsUp
  <2>9. Fresh(q, snapshot, built)
    BY <1>1, <1>2, <1>4, <1>5, <2>4, <2>6 DEF Fresh, Calm, Aged
  <2>10. QED
    BY <1>1, <1>3, <1>4, <2>6, <2>7, <2>8, <2>9, ServingKeeps
<1>6. CASE ~(p.req.kind = "communities" /\ p.communities.key = p.gen)
  <2>1. PICK r : r = [p.req EXCEPT !.pc = "keying", !.gen = p.gen]
    OBVIOUS
  <2>2. r \in Requests /\ r.pc = "keying" /\ r.searcher = p.req.searcher /\ r.gen = p.gen
    BY <1>2, <2>1 DEF Requests
  <2>3. q = [p EXCEPT !.req = r]
    BY <1>3, <1>6, <2>1
  <2>4. /\ q \in Process /\ q.update = p.update /\ q.reader = p.reader /\ q.gen = p.gen
        /\ q.graph = p.graph /\ q.communities = p.communities /\ q.req = r /\ q.answer = p.answer
        /\ q.overlap = p.overlap
    BY <2>2, <2>3 DEF Process
  <2>5. Aged(q, snapshot, stateToml, built)
    BY <1>1, <1>2, <2>2, <2>4 DEF Aged
  <2>6. Calm(q, snapshot, stateToml, snapshots)
    BY <1>1, <1>4, <2>2, <2>4 DEF Calm, KeepsUp
  <2>7. Fresh(q, snapshot, built)
    BY <1>1, <2>4 DEF Fresh
  <2>8. QED
    BY <1>1, <1>3, <1>4, <2>4, <2>5, <2>6, <2>7, ServingKeeps
<1>7. QED
  BY <1>5, <1>6

(* A graph that is no older than its key leaves the others of that key     *)
(* alone.                                                                  *)
LEMMA SavedKeepUp ==
  ASSUME NEW p, NEW q, NEW g, NEW toml, NEW saved, NEW saved2, NEW key, KeepsUp(p, toml, saved, key),
         q.graph = p.graph \/ q.graph = g, g.key = key => g.version >= toml[key],
         \A k \in DOMAIN saved2 : saved2[k] = g \/ \E j \in DOMAIN saved : saved2[k] = saved[j]
  PROVE  KeepsUp(q, toml, saved2, key)
BY DEF KeepsUp

(* What get_fresh hands out, from whichever of its caches: a graph of that *)
(* key, no older than the key unless the builder lags.                     *)
LEMMA GetFreshIs ==
  ASSUME CacheInv, NEW s \in Servers, NEW p \in Process, p = server[s], p.req.pc = "building",
         NEW key, key = p.req.key, NEW g, g = GetFresh(s, key, p.req.searcher)
  PROVE  /\ g \in Graph /\ g.key = key /\ g.version \in Nat /\ g.version <= built
         /\ snapshot /\ ~Lags(s, key) /\ ~p.overlap => g.version >= stateToml[key]
         /\ snapshot /\ ~Lags(s, key) /\ p.graph.key # key /\ OfKey(key) = {} => g.version >= stateToml[key]
         /\ ~snapshot /\ ~p.overlap => g.version = p.req.searcher
<1>1. /\ Aged(p, snapshot, stateToml, built) /\ Calm(p, snapshot, stateToml, snapshots)
      /\ snapshots \in Seq(Graph)
  BY Holds
<1>2. /\ p.reader \in Nat /\ p.req.searcher \in Nat /\ key \in Nat /\ p.graph \in Graph
      /\ p.graph.version \in Nat
  BY Fields
<1>3. CASE p.graph.key = key
  <2>1. g = p.graph
    BY <1>3 DEF GetFresh
  <2>2. QED
    BY <1>1, <1>2, <1>3, <2>1 DEF Aged, Calm, KeepsUp
<1>4. CASE p.graph.key # key /\ ~snapshot
  <2>1. g = [key |-> key, version |-> p.req.searcher]
    BY <1>4 DEF GetFresh
  <2>2. g \in Graph /\ g.key = key /\ g.version = p.req.searcher
    BY <1>2, <2>1 DEF Graph
  <2>3. QED
    BY <1>1, <1>2, <1>4, <2>2 DEF Aged
<1>5. CASE p.graph.key # key /\ snapshot /\ OfKey(key) # {}
  <2>1. PICK k \in DOMAIN snapshots : g = snapshots[k] /\ snapshots[k].key = key
    BY <1>5 DEF GetFresh, OfKey
  <2>2. g \in Graph /\ g.version <= built
    BY <1>1, <2>1 DEF CacheInv, AllAged
  <2>3. g.version \in Nat
    BY <2>2 DEF Graph
  <2>4. ~p.overlap => g.version >= stateToml[key]
    BY <1>1, <1>5, <2>1 DEF Calm, KeepsUp
  <2>5. QED
    BY <1>5, <2>1, <2>2, <2>3, <2>4
<1>6. CASE p.graph.key # key /\ snapshot /\ OfKey(key) = {}
  <2>1. g = [key |-> key, version |-> p.reader]
    BY <1>6 DEF GetFresh
  <2>2. g \in Graph /\ g.key = key /\ g.version = p.reader
    BY <1>2, <2>1 DEF Graph
  <2>3. stateToml[key] \in Nat
    <3>1. key \in 1..Len(stateToml)
      BY <1>1, <1>6 DEF Aged
    <3>2. QED
      BY <3>1, Holds
  <2>4. ~Lags(s, key) => p.reader >= stateToml[key]
    BY <1>2, <1>6, <2>3 DEF Lags
  <2>5. QED
    BY <1>1, <1>2, <1>6, <2>2, <2>4 DEF Aged
<1>7. QED
  BY <1>3, <1>4, <1>5, <1>6

(* A process is told of an overlap, or is not.                             *)
LEMMA Telling ==
  ASSUME NEW p \in Process, NEW lag, NEW q, q = [p EXCEPT !.overlap = p.overlap \/ lag]
  PROVE  q \in Process /\ Told(p, q) /\ (lag => q.overlap)
<1>1. PICK b \in BOOLEAN : b = (p.overlap \/ lag)
  OBVIOUS
<1>2. q = [p EXCEPT !.overlap = b]
  BY <1>1
<1>3. /\ q \in Process /\ q.reader = p.reader /\ q.gen = p.gen /\ q.graph = p.graph
      /\ q.communities = p.communities /\ q.update = p.update /\ q.req = p.req /\ q.answer = p.answer
      /\ q.overlap = b
  BY <1>2 DEF Process
<1>4. QED
  BY <1>1, <1>3 DEF Told

(* The answer is given; the graph becomes the process's own and, when it   *)
(* had to be built, everybody's.                                           *)
LEMMA BuildKeeps ==
  ASSUME CacheInv, NEW s \in Servers, Build(s)
  PROVE  CacheInv'
<1>1. PICK p \in Process : /\ p = server[s] /\ Aged(p, snapshot, stateToml, built)
                           /\ Calm(p, snapshot, stateToml, snapshots) /\ Fresh(p, snapshot, built)
  BY Holds
<1>2. PICK key : key = p.req.key
  OBVIOUS
<1>3. PICK g : g = GetFresh(s, key, p.req.searcher)
  OBVIOUS
<1>4. PICK lag \in BOOLEAN : lag = Lags(s, key)
  BY DEF Lags
<1>5. PICK a : a = [version |-> g.version, shown |-> p.req.searcher, excused |-> p.overlap \/ lag]
  OBVIOUS
<1>6. PICK c : c = IF p.req.kind = "communities" THEN [key |-> p.req.gen, version |-> g.version]
                   ELSE p.communities
  OBVIOUS
<1>7. PICK b \in BOOLEAN : b = (p.overlap \/ lag)
  OBVIOUS
<1>8. PICK mine : mine = [Answered(s, g.version, p.overlap \/ Lags(s, key)) EXCEPT
                            !.graph = g,
                            !.communities = IF p.req.kind = "communities"
                                            THEN [key |-> p.req.gen, version |-> g.version] ELSE @]
  OBVIOUS
<1>9. /\ p.req.pc = "building" /\ UNCHANGED <<snapshot, autoRebuild, built, stateToml>>
      /\ snapshots' = IF snapshot /\ p.graph.key # key /\ OfKey(key) = {} THEN Persisted(g) ELSE snapshots
      /\ server' = [t \in Servers |-> [(IF t = s THEN mine ELSE server[t]) EXCEPT !.overlap = @ \/ Lags(s, key)]]
  <2> DEFINE req == server[s].req
             G == GetFresh(s, req.key, req.searcher)
             Mine == [Answered(s, G.version, server[s].overlap \/ Lags(s, req.key)) EXCEPT
                        !.graph = G,
                        !.communities = IF req.kind = "communities"
                                        THEN [key |-> req.gen, version |-> G.version] ELSE @]
  <2>1. /\ server[s].req.pc = "building" /\ UNCHANGED <<snapshot, autoRebuild, built, stateToml>>
        /\ snapshots' = IF snapshot /\ server[s].graph.key # req.key /\ OfKey(req.key) = {}
                        THEN Persisted(G) ELSE snapshots
        /\ server' = [t \in Servers |->
                        [(IF t = s THEN Mine ELSE server[t]) EXCEPT !.overlap = @ \/ Lags(s, req.key)]]
    BY DEF Build
  <2>2. req = p.req /\ G = g
    BY <1>1, <1>2, <1>3
  <2>3. Mine = mine
    BY <1>1, <1>2, <1>8, <2>2
  <2> HIDE DEF Mine
  <2>4. QED
    BY <1>1, <1>2, <2>1, <2>2, <2>3
<1>10. /\ g \in Graph /\ g.key = key /\ g.version \in Nat /\ g.version <= built
       /\ snapshot /\ ~lag /\ ~p.overlap => g.version >= stateToml[key]
       /\ snapshot /\ ~lag /\ p.graph.key # key /\ OfKey(key) = {} => g.version >= stateToml[key]
       /\ ~snapshot /\ ~p.overlap => g.version = p.req.searcher
  BY <1>1, <1>2, <1>3, <1>4, <1>9, GetFreshIs
<1>11. PICK q : q = [p EXCEPT !.req = NoRequest, !.answer = a, !.graph = g, !.communities = c, !.overlap = b]
  OBVIOUS
<1>12. server'[s] = q
  <2>1. mine = [p EXCEPT !.req = NoRequest, !.answer = a, !.graph = g, !.communities = c]
    <3>1. Answered(s, g.version, p.overlap \/ Lags(s, key)) = [p EXCEPT !.req = NoRequest, !.answer = a]
      BY <1>1, <1>4, <1>5 DEF Answered
    <3>2. [p EXCEPT !.req = NoRequest, !.answer = a].communities = p.communities
      BY DEF Process
    <3>3. QED
      BY <1>6, <1>8, <3>1, <3>2
  <2>2. mine.overlap = p.overlap
    BY <2>1 DEF Process
  <2>3. server'[s] = [mine EXCEPT !.overlap = mine.overlap \/ Lags(s, key)]
    BY <1>9
  <2>4. server'[s] = [mine EXCEPT !.overlap = b]
    BY <1>4, <1>7, <2>2, <2>3
  <2>5. QED
    BY <1>11, <2>1, <2>4
<1>13. /\ p.gen \in Nat /\ p.req.gen \in Nat /\ p.req.searcher \in Nat /\ p.communities \in Graph
       /\ p.overlap \in BOOLEAN
  BY DEF Process, Requests
<1>14. /\ a \in Answer /\ a.version = g.version /\ a.shown = p.req.searcher
       /\ (a.excused <=> p.overlap \/ lag)
  <2>1. PICK e \in BOOLEAN : e = (p.overlap \/ lag)
    OBVIOUS
  <2>2. a = [version |-> g.version, shown |-> p.req.searcher, excused |-> e]
    BY <1>5, <2>1
  <2>3. a \in Answer /\ a.version = g.version /\ a.shown = p.req.searcher /\ a.excused = e
    BY <1>10, <1>13, <2>2 DEF Answer
  <2>4. QED
    BY <2>1, <2>3
<1>15. /\ c \in Graph
       /\ \/ c.key = p.req.gen /\ c.version = g.version
          \/ c = p.communities
  BY <1>6, <1>10, <1>13 DEF Graph
<1>16. NoRequest \in Requests /\ NoRequest.pc = "idle" /\ NoRequest.gen = 0 /\ NoRequest.searcher = 0
  BY DEF NoRequest, Requests
<1>17. /\ q \in Process /\ q.update = p.update /\ q.reader = p.reader /\ q.gen = p.gen
       /\ q.graph = g /\ q.communities = c /\ q.req = NoRequest /\ q.answer = a /\ q.overlap = b
  BY <1>10, <1>11, <1>14, <1>15, <1>16 DEF Process
<1>18. Aged(q, snapshot, stateToml, built)
  <2>1. c.version <= built /\ c.key <= p.gen
    BY <1>1, <1>10, <1>15 DEF Aged
  <2>2. g.key <= IF snapshot THEN Len(stateToml) ELSE p.gen
    BY <1>1, <1>2, <1>9, <1>10, <1>13, Holds DEF Aged
  <2>3. 0 <= built /\ 0 <= p.gen
    BY <1>13, Holds
  <2>4. QED
    BY <1>1, <1>10, <1>16, <1>17, <2>1, <2>2, <2>3 DEF Aged
<1>19. /\ snapshots' \in Seq(Graph)
       /\ \A k \in DOMAIN snapshots' :
            \/ \E j \in DOMAIN snapshots : snapshots'[k] = snapshots[j]
            \/ snapshots'[k] = g /\ snapshot /\ p.graph.key # key /\ OfKey(key) = {}
  <2>1. CASE snapshot /\ p.graph.key # key /\ OfKey(key) = {}
    <3>1. PICK after : after = Persisted(g)
      OBVIOUS
    <3>2. /\ after \in Seq(Graph)
          /\ \A k \in DOMAIN after : after[k] = g \/ \E j \in DOMAIN snapshots : after[k] = snapshots[j]
      BY <1>10, <3>1, Holds, PersistedIs
    <3>3. snapshots' = after
      BY <1>9, <2>1, <3>1
    <3>4. QED
      BY <2>1, <3>2, <3>3
  <2>2. CASE ~(snapshot /\ p.graph.key # key /\ OfKey(key) = {})
    BY <1>9, <2>2, Holds
  <2>3. QED
    BY <2>1, <2>2
<1>20. \A k \in 1..Len(stateToml) : stateToml[k] \in Nat
  <2>1. stateToml \in Seq(Nat)
    BY Holds
  <2>2. QED
    BY <2>1
<1>21. PICK saved : saved = snapshots'
  OBVIOUS
<1>22. Calm(q, snapshot, stateToml, saved)
  <2>1. SUFFICES ASSUME ~p.overlap, ~lag
                 PROVE  Calm(q, snapshot, stateToml, saved)
    BY <1>7, <1>17 DEF Calm
  <2>2. p.req.searcher = p.reader /\ p.req.gen = p.gen
    BY <1>1, <1>9, <2>1 DEF Calm
  <2>3. snapshot => g.version >= stateToml[key] /\ g.version >= p.reader
    <3>1. snapshot => stateToml[key] \in Nat /\ p.reader <= stateToml[key]
      <4>1. snapshot => key \in 1..Len(stateToml)
        BY <1>1, <1>2, <1>9 DEF Aged
      <4>2. snapshot => stateToml[key] \in Nat
        BY <4>1, <1>20
      <4>3. snapshot => p.req.searcher <= stateToml[key]
        BY <1>1, <1>2, <1>9, <2>1 DEF Calm
      <4>4. QED
        BY <2>2, <4>2, <4>3
    <3>2. QED
      BY <1>10, <1>13, <2>1, <2>2, <3>1
  <2>4. ~snapshot => g.version = p.reader
    BY <1>10, <2>1, <2>2
  <2>5. c.key = p.gen => c.version >= p.reader /\ (~snapshot => c.version = p.reader)
    BY <1>1, <1>10, <1>13, <1>15, <2>1, <2>2, <2>3, <2>4 DEF Calm
  <2>6. snapshot /\ p.update # "reloaded" =>
          p.reader <= stateToml[Len(stateToml)] /\ KeepsUp(q, stateToml, saved, Len(stateToml))
    <3>1. snapshot /\ g.key = Len(stateToml) => g.version >= stateToml[Len(stateToml)]
      BY <1>10, <2>3
    <3>2. snapshot /\ p.update # "reloaded" =>
            p.reader <= stateToml[Len(stateToml)] /\ KeepsUp(p, stateToml, snapshots, Len(stateToml))
      BY <1>1, <2>1 DEF Calm
    <3>3. \A k \in DOMAIN saved : saved[k] = g \/ \E j \in DOMAIN snapshots : saved[k] = snapshots[j]
      BY <1>19, <1>21
    <3>4. QED
      BY <1>17, <3>1, <3>2, <3>3, SavedKeepUp
  <2>7. QED
    BY <1>16, <1>17, <2>4, <2>5, <2>6 DEF Calm
<1>23. Fresh(q, snapshot, built)
  <2>1. ~p.overlap /\ ~lag => p.req.searcher <= g.version
    <3>1. snapshot => key \in 1..Len(stateToml)
      BY <1>1, <1>2, <1>9 DEF Aged
    <3>2. snapshot => stateToml[key] \in Nat
      BY <3>1, <1>20
    <3>3. snapshot /\ ~p.overlap => p.req.searcher <= stateToml[key]
      BY <1>1, <1>2, <1>9 DEF Calm
    <3>4. QED
      BY <1>10, <1>13, <3>2, <3>3
  <2>2. QED
    BY <1>10, <1>14, <1>17, <2>1 DEF Fresh
<1>24. QED
  <2>1. /\ server' \in [Servers -> Process]
        /\ \A t \in Servers \ {s} : Told(server[t], server'[t]) /\ (lag => server'[t].overlap)
    <3>1. ASSUME NEW t \in Servers \ {s}
          PROVE  server'[t] \in Process /\ Told(server[t], server'[t]) /\ (lag => server'[t].overlap)
      <4>1. PICK o \in Process : o = server[t]
        BY Holds
      <4>2. PICK r : r = [o EXCEPT !.overlap = o.overlap \/ Lags(s, key)]
        OBVIOUS
      <4>3. server'[t] = r
        BY <1>9, <4>1, <4>2
      <4>4. r \in Process /\ Told(o, r) /\ (Lags(s, key) => r.overlap)
        BY <4>2, Telling
      <4>5. QED
        BY <1>4, <4>1, <4>3, <4>4
    <3>2. server' = [t \in Servers |-> server'[t]]
      BY <1>9
    <3>3. \A t \in Servers : server'[t] \in Process
      BY <1>12, <1>17, <3>1
    <3>4. QED
      BY <3>1, <3>2, <3>3
  <2>2. \A k \in DOMAIN snapshots' :
          \/ \E j \in DOMAIN snapshots : snapshots'[k] = snapshots[j]
          \/ /\ snapshot /\ snapshots'[k].version <= built' /\ snapshots'[k].key <= Len(stateToml')
             /\ \A t \in Servers \ {s} :
                  ~server'[t].overlap => snapshots'[k].version >= stateToml'[snapshots'[k].key]
    <3>1. snapshot => key <= Len(stateToml)
      BY <1>1, <1>2, <1>9, Holds DEF Aged
    <3>2. ASSUME snapshot, p.graph.key # key, OfKey(key) = {}, NEW t \in Servers \ {s}, ~server'[t].overlap
          PROVE  g.version >= stateToml[g.key]
      BY <1>10, <2>1, <3>2
    <3>3. QED
      BY <1>9, <1>10, <1>19, <3>1, <3>2
  <2>3. /\ Aged(server'[s], snapshot', stateToml', built') /\ Fresh(server'[s], snapshot', built')
        /\ Calm(server'[s], snapshot', stateToml', snapshots')
    BY <1>9, <1>12, <1>18, <1>21, <1>22, <1>23
  <2>4. /\ UNCHANGED <<snapshot, autoRebuild>> /\ stateToml' = stateToml /\ built' = built
        /\ built' \in Nat /\ built <= built'
    BY <1>9, Holds
  <2>5. server'[s].update = "idle" \/ server[s].update # "idle"
    BY <1>1, <1>12, <1>17
  <2>6. QED
    BY <1>19, <2>1, <2>2, <2>3, <2>4, <2>5, OneMoves

(* Once the index is back the graph is built from it, whatever was cached. *)
LEMMA RebuildGraphKeeps ==
  ASSUME CacheInv, NEW s \in Servers, RebuildGraph(s)
  PROVE  CacheInv'
<1>1. PICK p \in Process : /\ p = server[s] /\ Aged(p, snapshot, stateToml, built)
                           /\ Calm(p, snapshot, stateToml, snapshots) /\ Fresh(p, snapshot, built)
  BY Holds
<1>2. /\ p.reader \in Nat /\ p.gen \in Nat /\ p.overlap \in BOOLEAN
  BY DEF Process
<1>3. PICK lag \in BOOLEAN : lag = (snapshot /\ p.reader < stateToml[Len(stateToml)])
  OBVIOUS
<1>4. snapshot /\ ~lag => ~(p.reader < stateToml[Len(stateToml)])
  BY <1>3
<1>5. PICK b \in BOOLEAN : b = (p.overlap \/ lag)
  OBVIOUS
<1>6. PICK key : key = IF snapshot THEN Len(stateToml) ELSE p.gen
  OBVIOUS
<1>7. PICK g : g = [key |-> key, version |-> p.reader]
  OBVIOUS
<1>8. PICK q : q = [p EXCEPT !.update = "idle", !.graph = g, !.overlap = b]
  OBVIOUS
<1>9. /\ p.update = "refreshing" /\ UNCHANGED <<snapshot, autoRebuild, built, stateToml>>
      /\ snapshots' = IF snapshot THEN Persisted(g) ELSE snapshots
      /\ server' = [t \in Servers |->
                     [server[t] EXCEPT !.update = IF t = s THEN "idle" ELSE @,
                                       !.graph = IF t = s THEN g ELSE @,
                                       !.overlap = @ \/ (snapshot /\ p.reader < stateToml[Len(stateToml)])]]
  <2>1. [key |-> KeyNow(s), version |-> server[s].reader] = g
    BY <1>1, <1>6, <1>7 DEF KeyNow, BuildKey
  <2>2. QED
    BY <1>1, <2>1 DEF RebuildGraph, LastRecorded, BuildKey
<1>10. snapshot' = snapshot /\ autoRebuild' = autoRebuild /\ built' = built /\ stateToml' = stateToml
  BY <1>9
<1>11. /\ Len(stateToml) \in Nat /\ Len(stateToml) > 0 /\ stateToml[Len(stateToml)] \in Nat
  BY Holds
<1>12. g \in Graph /\ g.key = key /\ g.version = p.reader
  BY <1>2, <1>6, <1>7, <1>11 DEF Graph
<1>13. /\ q \in Process /\ q.update = "idle" /\ q.reader = p.reader /\ q.gen = p.gen
       /\ q.graph = g /\ q.communities = p.communities /\ q.req = p.req /\ q.answer = p.answer /\ q.overlap = b
  BY <1>8, <1>12 DEF Process
<1>14. server'[s] = q
  <2>1. server'[s] = [p EXCEPT !.update = "idle", !.graph = g,
                               !.overlap = p.overlap \/ (snapshot /\ p.reader < stateToml[Len(stateToml)])]
    BY <1>1, <1>9
  <2>2. QED
    BY <1>3, <1>5, <1>8, <2>1
<1>15. Aged(q, snapshot, stateToml, built)
  <2>1. key <= IF snapshot THEN Len(stateToml) ELSE p.gen
    BY <1>2, <1>6, <1>11
  <2>2. p.reader <= built
    BY <1>1 DEF Aged
  <2>3. QED
    BY <1>1, <1>12, <1>13, <2>1, <2>2 DEF Aged
<1>16. /\ snapshots' \in Seq(Graph)
       /\ \A k \in DOMAIN snapshots' :
            \/ \E j \in DOMAIN snapshots : snapshots'[k] = snapshots[j]
            \/ snapshots'[k] = g /\ snapshot
  <2>1. CASE snapshot
    <3>1. PICK after : after = Persisted(g)
      OBVIOUS
    <3>2. /\ after \in Seq(Graph)
          /\ \A k \in DOMAIN after : after[k] = g \/ \E j \in DOMAIN snapshots : after[k] = snapshots[j]
      BY <1>12, <3>1, Holds, PersistedIs
    <3>3. snapshots' = after
      BY <1>9, <2>1, <3>1
    <3>4. QED
      BY <2>1, <3>2, <3>3
  <2>2. CASE ~snapshot
    BY <1>9, <2>2, Holds
  <2>3. QED
    BY <2>1, <2>2
<1>17. PICK saved : saved = snapshots'
  OBVIOUS
<1>18. Calm(q, snapshot, stateToml, saved)
  <2>1. SUFFICES ASSUME ~p.overlap, ~lag
                 PROVE  Calm(q, snapshot, stateToml, saved)
    BY <1>5, <1>13 DEF Calm
  <2>2. snapshot => key = Len(stateToml) /\ g.version >= stateToml[Len(stateToml)]
    BY <1>2, <1>4, <1>6, <1>11, <1>12, <2>1
  <2>3. ASSUME NEW k, snapshot, KeepsUp(p, stateToml, snapshots, k)
        PROVE  KeepsUp(q, stateToml, saved, k)
    <3>1. g.key = k => g.version >= stateToml[k]
      BY <1>12, <2>2, <2>3
    <3>2. \A i \in DOMAIN saved : saved[i] = g \/ \E j \in DOMAIN snapshots : saved[i] = snapshots[j]
      BY <1>16, <1>17
    <3>3. QED
      BY <1>13, <2>3, <3>1, <3>2, SavedKeepUp
  <2>4. QED
    BY <1>1, <1>9, <1>12, <1>13, <2>1, <2>3 DEF Calm
<1>19. Fresh(q, snapshot, built)
  BY <1>1, <1>13 DEF Fresh
<1>20. QED
  <2>1. /\ server' \in [Servers -> Process]
        /\ \A t \in Servers \ {s} : Told(server[t], server'[t]) /\ (lag => server'[t].overlap)
    <3>1. ASSUME NEW t \in Servers \ {s}
          PROVE  server'[t] \in Process /\ Told(server[t], server'[t]) /\ (lag => server'[t].overlap)
      <4>1. PICK o \in Process : o = server[t]
        BY Holds
      <4>2. PICK r : r = [o EXCEPT !.overlap = o.overlap \/ (snapshot /\ p.reader < stateToml[Len(stateToml)])]
        OBVIOUS
      <4>3. server'[t] = [o EXCEPT !.update = o.update, !.graph = o.graph,
                            !.overlap = o.overlap \/ (snapshot /\ p.reader < stateToml[Len(stateToml)])]
        BY <1>9, <4>1
      <4>4. [o EXCEPT !.update = o.update, !.graph = o.graph] = o
        BY DEF Process
      <4>5. server'[t] = r
        BY <4>2, <4>3, <4>4
      <4>6. r \in Process /\ Told(o, r) /\ (lag => r.overlap)
        BY <1>3, <4>2, Telling
      <4>7. QED
        BY <4>1, <4>5, <4>6
    <3>2. server' = [t \in Servers |-> server'[t]]
      BY <1>9
    <3>3. \A t \in Servers : server'[t] \in Process
      BY <1>13, <1>14, <3>1
    <3>4. QED
      BY <3>1, <3>2, <3>3
  <2>2. \A k \in DOMAIN snapshots' :
          \/ \E j \in DOMAIN snapshots : snapshots'[k] = snapshots[j]
          \/ /\ snapshot /\ snapshots'[k].version <= built' /\ snapshots'[k].key <= Len(stateToml')
             /\ \A t \in Servers \ {s} :
                  ~server'[t].overlap => snapshots'[k].version >= stateToml'[snapshots'[k].key]
    <3>1. snapshot => key = Len(stateToml)
      BY <1>6
    <3>2. ASSUME snapshot, NEW t \in Servers \ {s}, ~server'[t].overlap
          PROVE  g.version >= stateToml[g.key]
      <4>1. ~lag
        BY <2>1, <3>2
      <4>2. QED
        BY <1>2, <1>4, <1>11, <1>12, <3>1, <3>2, <4>1
    <3>3. g.version <= built
      BY <1>1, <1>12 DEF Aged
    <3>4. snapshot => g.version <= built' /\ g.key <= Len(stateToml')
      BY <1>10, <1>11, <1>12, <3>1, <3>3
    <3>5. QED
      BY <1>9, <1>16, <3>2, <3>4
  <2>3. /\ Aged(server'[s], snapshot', stateToml', built') /\ Fresh(server'[s], snapshot', built')
        /\ Calm(server'[s], snapshot', stateToml', snapshots')
    BY <1>9, <1>14, <1>15, <1>17, <1>18, <1>19
  <2>4. /\ UNCHANGED <<snapshot, autoRebuild>> /\ stateToml' = stateToml /\ built' = built
        /\ built' \in Nat /\ built <= built'
    <3>1. built \in Nat
      BY Holds
    <3>2. QED
      BY <1>10, <3>1
  <2>5. server'[s].update = "idle"
    BY <1>13, <1>14
  <2>6. QED
    BY <1>16, <2>1, <2>2, <2>3, <2>4, <2>5, OneMoves

(* A process that mounts the wiki again reads the index as it is, and has  *)
(* overlapped if state.toml never recorded that.                           *)
LEMMA RestartKeeps ==
  ASSUME CacheInv, NEW s \in Servers, Restart(s)
  PROVE  CacheInv'
<1>1. PICK p \in Process : /\ p = server[s] /\ Aged(p, snapshot, stateToml, built)
                           /\ Calm(p, snapshot, stateToml, snapshots) /\ Fresh(p, snapshot, built)
  BY Holds
<1>2. PICK catches \in BOOLEAN :
        catches = (autoRebuild /\ LastRecorded # built /\ \A t \in Servers \ {s} : ~Writing(t))
  OBVIOUS
<1>3. PICK after : after = IF catches THEN Append(stateToml, built) ELSE stateToml
  OBVIOUS
<1>4. PICK key : key = Len(after)
  OBVIOUS
<1>5. PICK warm : warm = IF ~snapshot THEN NoGraph
                         ELSE IF OfKey(key) # {} THEN snapshots[CHOOSE k \in OfKey(key) : TRUE]
                         ELSE [key |-> key, version |-> built]
  OBVIOUS
<1>6. PICK torn \in BOOLEAN : torn = (p.overlap \/ (snapshot /\ after[key] # built))
  OBVIOUS
<1>7. PICK q : q = AsMounted(built, warm, torn)
  OBVIOUS
<1>8. /\ stateToml' = after /\ server' = [server EXCEPT ![s] = q]
      /\ snapshots' = IF snapshot /\ OfKey(key) = {} THEN Persisted(warm) ELSE snapshots
      /\ snapshot' = snapshot /\ autoRebuild' = autoRebuild /\ built' = built
  <2> DEFINE Catches == /\ autoRebuild /\ LastRecorded # built
                        /\ \A t \in Servers \ {s} : ~Writing(t)
             After == IF Catches THEN Append(stateToml, built) ELSE stateToml
             Key == Len(After)
             Warm == IF ~snapshot THEN NoGraph
                     ELSE IF OfKey(Key) # {} THEN snapshots[CHOOSE k \in OfKey(Key) : TRUE]
                     ELSE [key |-> Key, version |-> built]
  <2>1. /\ stateToml' = After
        /\ server' = [server EXCEPT ![s] = AsMounted(built, Warm, server[s].overlap \/ (snapshot /\ After[Key] # built))]
        /\ snapshots' = IF snapshot /\ OfKey(Key) = {} THEN Persisted(Warm) ELSE snapshots
        /\ snapshot' = snapshot /\ autoRebuild' = autoRebuild /\ built' = built
    BY DEF Restart
  <2>2. After = after
    BY <1>2, <1>3
  <2> HIDE DEF After
  <2>3. Key = key
    BY <1>4, <2>2
  <2> HIDE DEF Key
  <2>4. Warm = warm
    BY <1>5, <2>3
  <2> HIDE DEF Warm
  <2>5. AsMounted(built, Warm, server[s].overlap \/ (snapshot /\ After[Key] # built)) = q
    BY <1>1, <1>6, <1>7, <2>2, <2>3, <2>4
  <2>6. QED
    BY <2>1, <2>2, <2>3, <2>4, <2>5
<1>9. /\ built \in Nat /\ stateToml \in Seq(Nat) /\ Len(stateToml) \in Nat /\ Len(stateToml) > 0
      /\ stateToml[Len(stateToml)] <= built /\ snapshots \in Seq(Graph)
  BY Holds
<1>10. \/ ~catches /\ after = stateToml /\ key = Len(stateToml)
       \/ catches /\ after = Append(stateToml, built) /\ key = Len(stateToml) + 1 /\ after[key] = built
  <2>1. CASE catches
    <3>1. /\ Len(after) = Len(stateToml) + 1 /\ after[Len(after)] = built
      BY <1>3, <1>9, <2>1, Recording
    <3>2. QED
      BY <1>3, <1>4, <2>1, <3>1
  <2>2. CASE ~catches
    BY <1>3, <1>4, <2>2
  <2>3. QED
    BY <2>1, <2>2
<1>11. key \in Nat /\ key > 0
  BY <1>9, <1>10
<1>12. /\ warm \in Graph /\ warm.version <= built
       /\ ~snapshot => warm.key = 0
       /\ snapshot => warm.key = key
       /\ snapshot /\ OfKey(key) = {} => warm.version = built
  <2>1. CASE ~snapshot
    <3>1. warm \in Graph /\ warm.key = 0 /\ warm.version = 0
      BY <1>5, <2>1 DEF NoGraph, Graph
    <3>2. QED
      BY <1>9, <2>1, <3>1
  <2>2. CASE snapshot /\ OfKey(key) # {}
    <3>1. PICK k \in DOMAIN snapshots : warm = snapshots[k] /\ snapshots[k].key = key
      BY <1>5, <2>2 DEF OfKey
    <3>2. warm \in Graph /\ warm.version <= built
      BY <1>9, <3>1 DEF CacheInv, AllAged
    <3>3. QED
      BY <2>2, <3>1, <3>2
  <2>3. CASE snapshot /\ OfKey(key) = {}
    <3>1. warm = [key |-> key, version |-> built]
      BY <1>5, <2>3
    <3>2. warm \in Graph /\ warm.key = key /\ warm.version = built
      BY <1>9, <1>11, <3>1 DEF Graph
    <3>3. QED
      BY <1>9, <2>3, <3>2
  <2>4. QED
    BY <2>1, <2>2, <2>3
<1>13. /\ q.reader = built /\ q.gen = 1 /\ q.graph = warm /\ q.communities = NoGraph /\ q.update = "idle"
       /\ q.req = NoRequest /\ q.answer = NoAnswer /\ q.overlap = torn /\ q \in Process
  <2>1. NoGraph \in Graph /\ NoRequest \in Requests /\ NoAnswer \in Answer
    BY DEF NoGraph, Graph, NoRequest, Requests, NoAnswer, Answer
  <2>2. q = [reader |-> built, gen |-> 1, graph |-> warm, communities |-> NoGraph,
             update |-> "idle", rebuild |-> FALSE, req |-> NoRequest, answer |-> NoAnswer, overlap |-> torn]
    BY <1>7 DEF AsMounted
  <2>3. QED
    BY <1>9, <1>12, <2>1, <2>2 DEF Process
<1>14. Aged(q, snapshot, after, built)
  <2>1. NoGraph.key = 0 /\ NoGraph.version = 0 /\ NoRequest.searcher = 0 /\ NoRequest.gen = 0 /\ NoRequest.pc = "idle"
    BY DEF NoGraph, NoRequest
  <2>2. warm.key <= IF snapshot THEN Len(after) ELSE 1
    BY <1>4, <1>11, <1>12
  <2>3. built <= built /\ 0 <= built
    BY <1>9
  <2>4. QED
    BY <1>12, <1>13, <2>1, <2>2, <2>3 DEF Aged
<1>15. /\ snapshots' \in Seq(Graph)
       /\ \A k \in DOMAIN snapshots' :
            \/ \E j \in DOMAIN snapshots : snapshots'[k] = snapshots[j]
            \/ snapshots'[k] = warm /\ snapshot /\ OfKey(key) = {}
  <2>1. CASE snapshot /\ OfKey(key) = {}
    <3>1. PICK more : more = Persisted(warm)
      OBVIOUS
    <3>2. /\ more \in Seq(Graph)
          /\ \A k \in DOMAIN more : more[k] = warm \/ \E j \in DOMAIN snapshots : more[k] = snapshots[j]
      BY <1>9, <1>12, <3>1, PersistedIs
    <3>3. snapshots' = more
      BY <1>8, <2>1, <3>1
    <3>4. QED
      BY <2>1, <3>2, <3>3
  <2>2. CASE ~(snapshot /\ OfKey(key) = {})
    <3>1. snapshots' = snapshots
      BY <1>8, <2>2
    <3>2. QED
      BY <1>9, <3>1
  <2>3. QED
    BY <2>1, <2>2
<1>16. PICK saved : saved = snapshots'
  OBVIOUS
<1>17. Calm(q, snapshot, after, saved)
  <2>1. SUFFICES ASSUME ~p.overlap, snapshot => after[key] = built
                 PROVE  Calm(q, snapshot, after, saved)
    BY <1>6, <1>13 DEF Calm
  <2>2. ASSUME snapshot
        PROVE  KeepsUp(q, after, saved, key)
    <3>1. after[key] = built
      BY <2>1, <2>2
    <3>2. CASE OfKey(key) = {}
      <4>1. warm.version >= after[key]
        BY <1>9, <1>12, <2>2, <3>1, <3>2
      <4>2. \A k \in DOMAIN snapshots : snapshots[k].key # key
        BY <3>2 DEF OfKey
      <4>3. \A k \in DOMAIN saved : saved[k].key = key => saved[k] = warm
        BY <1>15, <1>16, <4>2
      <4>4. QED
        BY <1>13, <4>1, <4>3 DEF KeepsUp
    <3>3. CASE OfKey(key) # {}
      <4>1. PICK i \in DOMAIN snapshots : warm = snapshots[i] /\ snapshots[i].key = key
        BY <1>5, <2>2, <3>3 DEF OfKey
      <4>2. snapshots[i].key <= Len(stateToml)
        BY <4>1 DEF CacheInv, AllAged, BuildKey
      <4>3. ~catches /\ after = stateToml /\ key = Len(stateToml)
        BY <1>9, <1>10, <4>1, <4>2
      <4>4. p.update # "reloaded"
        BY <1>1, <1>9, <3>1, <4>3 DEF Aged
      <4>5. KeepsUp(p, after, snapshots, key)
        BY <1>1, <2>1, <2>2, <4>3, <4>4 DEF Calm
      <4>6. saved = snapshots
        BY <1>8, <1>16, <3>3
      <4>7. QED
        BY <1>13, <4>1, <4>5, <4>6 DEF KeepsUp
    <3>4. QED
      BY <3>2, <3>3
  <2>3. NoGraph.key = 0 /\ NoRequest.pc = "idle"
    BY DEF NoGraph, NoRequest
  <2>4. snapshot => built <= after[key]
    BY <1>9, <2>1
  <2>5. QED
    BY <1>4, <1>12, <1>13, <2>2, <2>3, <2>4 DEF Calm
<1>18. Fresh(q, snapshot, built)
  BY <1>13 DEF Fresh, NoAnswer
<1>19. QED
  <2>1. /\ server' \in [Servers -> Process] /\ server'[s] = q
        /\ \A t \in Servers \ {s} : server'[t] = server[t]
    BY <1>8, <1>13, Holds
  <2>2. \A t \in Servers \ {s} :
          /\ Told(server[t], server'[t])
          /\ (stateToml' = stateToml /\ built' = built) \/ server[t].update \notin {"committed", "reloaded"}
    <3>1. \A t \in Servers \ {s} : Told(server[t], server'[t])
      BY <2>1 DEF Told
    <3>2. catches => \A t \in Servers \ {s} : server[t].update = "idle"
      BY <1>2 DEF Writing
    <3>3. QED
      BY <1>8, <1>10, <3>1, <3>2
  <2>3. \A k \in DOMAIN snapshots' :
          \/ \E j \in DOMAIN snapshots : snapshots'[k] = snapshots[j]
          \/ /\ snapshot /\ snapshots'[k].version <= built' /\ snapshots'[k].key <= Len(stateToml')
             /\ \A t \in Servers \ {s} :
                  ~server'[t].overlap => snapshots'[k].version >= stateToml'[snapshots'[k].key]
    <3>1. after[key] <= built
      BY <1>9, <1>10
    <3>2. snapshot /\ OfKey(key) = {} =>
            warm.version <= built' /\ warm.key <= Len(stateToml') /\ warm.version >= stateToml'[warm.key]
      BY <1>4, <1>8, <1>9, <1>11, <1>12, <3>1
    <3>3. QED
      BY <1>15, <3>2
  <2>4. /\ Aged(server'[s], snapshot', stateToml', built') /\ Fresh(server'[s], snapshot', built')
        /\ Calm(server'[s], snapshot', stateToml', snapshots')
    BY <1>8, <1>14, <1>16, <1>17, <1>18, <2>1
  <2>5. /\ UNCHANGED <<snapshot, autoRebuild>> /\ built' \in Nat /\ built <= built'
        /\ stateToml' = stateToml \/ (stateToml' = Append(stateToml, built) /\ built' = built)
        /\ server'[s].update = "idle"
    BY <1>8, <1>9, <1>10, <1>13, <2>1
  <2>6. QED
    BY <1>15, <2>1, <2>2, <2>3, <2>4, <2>5, OneMoves

LEMMA CacheInit == InitGraph => CacheInv
<1> SUFFICES ASSUME InitGraph PROVE CacheInv
  OBVIOUS
<1>1. PICK g : g = IF snapshot THEN [key |-> 1, version |-> 1] ELSE NoGraph
  OBVIOUS
<1>2. /\ g \in Graph /\ g.version <= 1
      /\ snapshot => g.key = 1 /\ g.version = 1
      /\ ~snapshot => g.key = 0
  BY <1>1 DEF Graph, NoGraph
<1>3. PICK q : q = AsMounted(1, g, FALSE)
  OBVIOUS
<1>4. server = [s \in Servers |-> q]
  BY <1>1, <1>3 DEF InitGraph
<1>5. /\ q.reader = 1 /\ q.gen = 1 /\ q.graph = g /\ q.communities = NoGraph /\ q.update = "idle"
      /\ q.req = NoRequest /\ q.answer = NoAnswer /\ q.overlap = FALSE /\ q \in Process
  <2>1. NoGraph \in Graph /\ NoRequest \in Requests /\ NoAnswer \in Answer
    BY DEF NoGraph, Graph, NoRequest, Requests, NoAnswer, Answer
  <2>2. q = [reader |-> 1, gen |-> 1, graph |-> g, communities |-> NoGraph,
             update |-> "idle", rebuild |-> FALSE, req |-> NoRequest, answer |-> NoAnswer, overlap |-> FALSE]
    BY <1>3 DEF AsMounted
  <2>3. QED
    BY <1>2, <2>1, <2>2 DEF Process
<1>6. /\ built = 1 /\ stateToml = <<1>> /\ Len(stateToml) = 1 /\ stateToml[1] = 1 /\ DOMAIN stateToml = {1}
      /\ stateToml \in Seq(Nat) /\ stateToml # <<>>
  BY DEF InitGraph
<1>7. /\ snapshots \in Seq(Graph)
      /\ \A k \in DOMAIN snapshots : snapshots[k] = g /\ snapshot
  <2>1. CASE snapshot
    <3>1. snapshots = <<g>>
      BY <1>1, <2>1 DEF InitGraph
    <3>2. QED
      BY <1>2, <2>1, <3>1
  <2>2. CASE ~snapshot
    <3>1. snapshots = <<>>
      BY <2>2 DEF InitGraph
    <3>2. snapshots \in Seq(Graph) /\ DOMAIN snapshots = {}
      BY <3>1
    <3>3. QED
      BY <3>2
  <2>3. QED
    BY <2>1, <2>2
<1>8. NoGraph.key = 0 /\ NoGraph.version = 0 /\ NoRequest.pc = "idle" /\ NoRequest.searcher = 0 /\ NoRequest.gen = 0
  BY DEF NoGraph, NoRequest
<1>9. Aged(q, snapshot, stateToml, built)
  <2>1. g.key <= IF snapshot THEN Len(stateToml) ELSE 1
    BY <1>2, <1>6
  <2>2. QED
    BY <1>2, <1>5, <1>6, <1>8, <2>1 DEF Aged
<1>10. Calm(q, snapshot, stateToml, snapshots)
  BY <1>2, <1>5, <1>6, <1>7, <1>8 DEF Calm, KeepsUp
<1>11. Fresh(q, snapshot, built)
  BY <1>5 DEF Fresh, NoAnswer
<1>12. CacheTypes
  <2>1. snapshot \in BOOLEAN /\ autoRebuild \in BOOLEAN
    BY DEF InitGraph
  <2>2. server \in [Servers -> Process] /\ built \in Nat
    BY <1>4, <1>5, <1>6
  <2>3. QED
    BY <1>6, <1>7, <2>1, <2>2 DEF CacheTypes
<1>13. OneWriter
  BY <1>4, <1>5 DEF OneWriter, Writing
<1>14. AllAged
  BY <1>2, <1>4, <1>6, <1>7, <1>9 DEF AllAged, LastRecorded, BuildKey
<1>15. QED
  BY <1>4, <1>10, <1>11, <1>12, <1>13, <1>14 DEF CacheInv, AllCalm, AllFresh

LEMMA CacheStep == CacheInv /\ [NextGraph]_graphVars => CacheInv'
<1>1. ASSUME CacheInv, UNCHANGED graphVars
      PROVE  CacheInv'
  BY <1>1 DEF graphVars, CacheInv, CacheTypes, OneWriter, AllAged, AllCalm, AllFresh, Writing, LastRecorded, BuildKey
<1>2. ASSUME CacheInv, NextGraph
      PROVE  CacheInv'
  <2>1. PICK s \in Servers :
          \/ CommitIndex(s, "update") \/ CommitIndex(s, "rebuild")
          \/ ReloadReader(s) \/ WriteState(s) \/ RebuildGraph(s)
          \/ TakeSearcher(s, "graph") \/ TakeSearcher(s, "communities")
          \/ ReadGeneration(s) \/ ReadKey(s) \/ Build(s) \/ Restart(s)
    BY <1>2 DEF NextGraph
  <2>2. "update" \in {"update", "rebuild"} /\ "rebuild" \in {"update", "rebuild"}
        /\ "graph" \in {"graph", "communities"} /\ "communities" \in {"graph", "communities"}
    OBVIOUS
  <2>3. QED
    BY <1>2, <2>1, <2>2, CommitIndexKeeps, ReloadReaderKeeps, WriteStateKeeps, RebuildGraphKeeps,
       TakeSearcherKeeps, ReadGenerationKeeps, ReadKeyKeeps, BuildKeeps, RestartKeeps
<1>3. QED
  BY <1>1, <1>2

(* Graph and communities answer for the index the request began with or a  *)
(* later one, and without snapshots for exactly that one, until an overlap *)
(* touches the process and from its next update on: for any number of      *)
(* processes, updates, requests and restarts (graph.rs, engine.rs).        *)
THEOREM GraphsStayFresh == SpecGraph => []GraphsKeepUpUntilOverlap
<1>1. CacheInv => GraphsKeepUpUntilOverlap
  BY DEF CacheInv, AllFresh, Fresh, GraphsKeepUpUntilOverlap
<1>2. QED
  BY <1>1, CacheInit, CacheStep, PTL DEF SpecGraph

=============================================================================
